# A verification of MailAuthProbe

MailAuthProbe audits the e-mail authentication of a domain (`domain`) or checks
one received message (`message`). It asks the DNS, evaluates SPF, DKIM, DMARC,
MTA-STS and TLS-RPT, and prints a report whose findings and exit code other
programs act on. These TLA+ modules model its logic, TLC checks them on small
instances, and TLAPS proves what matters most for every instance. Paths below
are relative to `src/internal/` unless they start with `src/`.

Contents: [the system](#the-system), [the plan](#the-plan), [modules](#modules-and-code),
[runs](#runs-bounds-and-fairness), [proofs](#what-is-proved), [divergences](#where-code-and-words-part),
[what is left out](#what-is-not-modelled).

## The system

```
 cli/scan.go ── analyzer.Domain ─┬ mx.Assess          ┐
   (deadline,   analyzer.Message ├ spf.Analyze         │   Cache ── Budget ── Client ── DNS
    Ctrl-C,                      ├ dmarc.Assess        ├──  │
    stdin,                       ├ dkim.Assess         │    └ used by every check, by the dial
    exit code)                   ├ mtasts.Assess ─ dial goroutines of the HTTP client
                                 └ tlsrpt.Assess      ┘
      a message instead: mailparser → dkim.VerifyMessage → spf.CheckMessage (own Budget)
                         → dmarc.EvaluateMessage → arc.Summarize → authres.Compare
```

Checks run one after the other in one goroutine and call each other through Go
values. What they share is the resolver of the session and the report. The
goroutines that exist besides are the dial goroutines of the MTA-STS client,
which may outlive the fetch that started them, and the one that reads standard
input, which is abandoned when the deadline comes.

| Component | State | Operations | What is hard | What makes it correct |
|---|---|---|---|---|
| DNS cache and budgets (`dnsresolver/budget.go`) | entry map under a mutex, a done channel per entry, atomic counters | `cached`, `allow`, `Sent`, `Exhausted` | goroutines that share an entry, failures forgotten in a second critical section, panics, the limit | one query and one answer per name, failures retried, rejections counted once and disclosed |
| DNS client (`dnsresolver/client.go`) | none between lookups | exchange over UDP, TCP fallback, attempts and servers | truncation, late and spoofed answers, timeouts | bounded tries, only a matching answer counts |
| SPF evaluation (`spf/eval.go`, `expand.go`) | evaluation stack, lookup and void counters, reason, p-macro cache | `CheckHost`, `checkHost`, `fetchRecord`, mechanisms, `expandMacro` | limits shared by nested records, loops, failures inside includes | never beyond a limit, a failure decides, loops end |
| SPF analysis (`spf/analyze.go`) | the tree of records, worst-case counts | `Analyze`, `walk`, `follow`, `isVoid` | exponential trees, limits on tree and findings, failures below the root | no evaluation needs more than it foresees, what is not followed does not matter |
| SPF of a message (`spf/message.go`) | none | `CheckMessage` | unknown inputs, null sender | the identity DMARC is given is the right one |
| DMARC (`dmarc/*`) | none between calls | `Discover`, `Parse`, `Assess`, `EvaluateMessage` | repeated, missing and invalid tags, undecided inputs, inheritance, strict alignment | the policy published is the one applied, no pass without proof, no fail without certainty |
| DKIM (`dkim/*`) | key cache of a message | `Assess`, `VerifyMessage` | one failure among several keys, limit on signatures | a definite result is the truth |
| MX, MTA-STS, TLS-RPT (`mx`, `mtasts`, `tlsrpt`) | none between calls | `Assess`, `Fetch`, `ParsePolicy`, `Matches` | one of several lookups fails; a limit on hosts; wildcards; dialing | failures reach the exit code, a pass is earned |
| Scan (`analyzer/*`) | the report under construction | `Domain`, `Message`, `finish` | deadline, interrupt, budget exhaustion in the middle | errors in the report are real, none is lost |
| Command line (`cli/*`) | none | `runScan`, `finish`, `exitCode` | reads that block, writes that fail | the exit code tells what happened, the scan ends |
| Message parser (`mailparser/*`) | the walk's counters and its `stopped` flag | `ParseBytes`, `parseHeaderSection`, `parseMIME`, `part` | limits on bytes, fields, depth and parts, any of which nesting may reach first | every field is its exact bytes, work is bounded, a limit is reported once |
| Received chain, SMTP inputs (`received/*`, `analyzer/message.go`) | none | `Parse`, `Build`, `InferSource`, `spfInputs` | some headers are the sender's, some the receiver's | what the receiver recorded is what SPF is evaluated for |
| Authentication-Results, ARC (`authres/*`, `arc/*`) | none | `Parse`, `Compare`, `Summarize` | the receiver knew more than the scan | an honest receiver is not contradicted |
| Findings, report (`findings/*`, `report/*`) | none | catalogue, order, rendering | order of map iteration | same scan, same report |

`PROJECT.json` lists each with what is modelled of it, and every hazard at its line.

## The plan

Most important first; a module is written so that it can be proved about (no
RECURSIVE operator, named assumptions, one action per operation).

| | Modules | State |
|---|---|---|
| 1 | `DnsErrors`, `ScanResolver`, `LookupService` (abstract) | checked; safety and the refinement proved |
| 2 | `SpfCheckHost` | checked, proved |
| 3 | `Scan`, both commands up to the exit code | checked; safety proved |
| 4 | `MessageVerdict` | checked, proved |
| 5 | `DnsClient`, `ServersInTurn` (abstract) | checked; safety and the refinement proved |
| 6 | `HeaderSection`, `MimeWalk` | checked; safety proved |
| 7 | `ReceivedHop`, `SmtpInputs`, `ArcChain` | checked, proved |
| 8 | `SpfAnalyze`, and `SpfAudit`, which composes it with `SpfCheckHost` | checked, proved |
| 9 | `DmarcPolicy`, `StsPolicy`, `MailExchangers` | checked, proved |

## Modules and code

**`DnsErrors`** is `dnsresolver/resolver.go`: kinds of errors, `KindOf` and the
predicates `IsNXDomain`, `IsTemporary`, `IsInfrastructure`. All other modules use it.

**`ScanResolver`** is `budget.go` as `analyzer.go` composes it. A goroutine of
`Procs` is anywhere in `cached`: before the lock (`enter`), with its new entry
inserted (`take`), admitted by the Budget (`send`), waiting for the Client
(`query`) or for another's entry (`wait`), deleting a failed entry (`forget`),
closing it (`close`), unwound by a panic (`dead`). Each step between two points
where another goroutine can interfere is an action. `cache` is the map, `keyOf`,
`outOf` and `closed` the entries on the heap, `used` and `spfUsed` the counters of the
two Budgets. The Client answers anything, or panics. `Finish` reads `Exhausted` and
`Finalize` reads `Sent`, two steps of `session.finish` between which a dial goroutine may run. History variables record what was sent, answered
and handed out.

**`LookupService`** says what the cache promises, without entries or locks: a key
has one final outcome, and a failure reaches only those who were asking.
`ScanResolver!ImplementsPromise` is the refinement, under a mapping in which a key is
decided when its entry is closed or about to be.

**`DnsClient`** is one lookup of `client.go`. `server` and `attempt` are the loops of
`exchange`; `pc` walks through dial, write and read of a round trip, which
starts over with `network = "tcp"` when a truncated response was accepted. What arrives is
any member of `Messages`, a record of what `parseResponse` distinguishes; a foreign
datagram leaves everything as it is. Time is a count of ticks, `left` until the
deadline of the round trip. `EndContext` may come at any moment; `CutOff` is the goroutine
of `context.AfterFunc`. `ReturnAnswers` chooses the answer section that
`AnswersFor` filters; what the loops of `answersFor` collect is stated by places in the section (the
first alias of a name, the names followed so far), which is what the proof by induction needs. The errors a lookup returns are those that `ScanResolver`
lets its Client return (`DnsErrors` without "Budget" and "other").

**`ServersInTurn`** says what the client promises: servers in order, definite answers
final, a failure only when all servers failed or the context ended.

**`SpfCheckHost`** is one evaluation. The recursion of `checkHost` is the stack
`frames`; a record's terms are chosen as they are read, and lookups return anything,
so every zone is covered, also one that changes meanwhile. A name is the spelling it is asked by, and `Folded`
is the name it spells: loop detection ignores case (`strings.EqualFold`), the p-macro cache does not. Actions are the entry
checks of `checkHost` (name, loop, depth), the outcomes of `fetchRecord`, one action
per kind of term with its lookups, includes, the redirect, the explanation and the end of
`CheckHost`. Counters are checked in the order of the code.

**`Scan`** is one command: `pc` names the next lookup or step, in the order of
`analyzer.Domain` or `analyzer.Message`; each assessment is the lookups it makes and
how it folds their errors (`FoldError`, `AddressError`) into the one it
returns; then `dnsError`, the summary of rejections in `finish`, the report and the
exit code. The cache is reduced to what a lookup returns and costs, `sent` against
`QueryBudget`; the SPF Budget is `spfSent`. The dialer is a process of its
own. `Expire`, `Interrupt` and `Panic` happen at any time.

**`MessageVerdict`** is `analyzeMessage` from the DKIM signatures to the comparison with
Authentication-Results. Each signature's key lookup and result, the SPF result and the discovery
of the DMARC record are choices within what the code can compute. Beside each result stands a
*truth*: whether the identifier passes if everything is known. A definite result is the
truth, an open one (temperror, neutral for a missing body, SPF not evaluated, a signature
left out) leaves it free. This makes "no false pass, no false fail" a statement
about the code instead of a repetition of it. "Truth" is as of the scan: a signature
that expired meanwhile is an expired one. The receiver whose
claims are compared knew everything. `Compare` reads its spf and dmarc results, `CompareDkim` one dkim result
at a time. Its spf result may be for another identity, and it names signatures in any of
the ways of `Namings`: by `header.b`, too short, unique or shared, or by a domain with or without `header.s`; `Matched` is
`matchDKIM`, which takes the first signature of a domain. `unclear` records that a claim so named
may be taken for one about something else; the code contradicts a truthful receiver then, and `HonestReceiverAgrees` excludes it.

**`HeaderSection`** is `parseHeaderSection`, one action per kind of line, with the guards in
the order of its loop; a line is its length and what the parser makes of it. `headers` holds
the extents `flush` cuts out of the input. **`MimeWalk`** is `parseMIME`: the
recursion of `part` is `stack`, the multipart reader yields any child, the end or an error, and
`examined` counts what is copied. `EndOfBody` is a body that ends in the header of a part: to `part` the
reader's `io.EOF` is the end of the parts, and once a sibling was read, what follows is `lost` without a defect. They share nothing but the message, the body being
what follows `bodyStart`.

**`SmtpInputs`** is `spfInputs` and what it calls. A message travels: the sender writes trace headers of its
own, the border MTA records the connection it accepted (`peer`) in the form of one of four MTAs,
perhaps with a Received-SPF field, a host behind it may add a hop, delivery may add a
Return-Path. Then `ScanMessage` takes each input in the order of the code: flag, header, chain.
**`ReceivedHop`** is what `Parse` makes of a from clause, word by word.

**`ArcChain`** is `arc.Summarize`: the headers of each kind in any order, the sets, the gaps, the verdict.

**`SpfAnalyze`** is `spf.Analyze`. `path` is the recursion of `walk` and `follow`; what a domain
publishes is chosen when it is first retrieved. A target with sender or client macros is `Dynamic` and not followed; one with no macro
but `%{v}` is not among those (`analyze.go:282`) and is `Expanded` as for an IPv6 client. **`SpfAudit`** lets a receiver evaluate, with all
actions of `SpfCheckHost`, a message under the policy that was audited, by
a `client` of either address family and with any answers for hosts. So "the worst case" is compared with the cases.
`SpfLimits` declares what the two share.

**`DmarcPolicy`** runs from the TXT records to `Conclude`: discovery, `Parse` tag by tag, the report
destinations, the remarks, the policy that is applied. **`MailExchangers`** is `mx.Assess`
from the answer to `summarize`, host by host. **`StsPolicy`** is `mtasts.Assess`: the record, the policy host, `Fetch` as a choice
of outcomes, `ParsePolicy` line by line, `Matches` on sequences of labels. In these,
`...Severity` are the severities of `findings/catalog.go`, which decide whether a pass is given.

`MC...` modules give the constants values for TLC; `MCMessageIntake` and `MCPublishedPolicies` also
let a behaviour follow one of several components that share no state. Proofs are in `...Proofs` modules.

## Runs, bounds and fairness

| Run | Shows | Bounds, and why they are enough |
|---|---|---|
| `scan_resolver` | `SingleFlight`, `AnswerIsReal`, `BudgetHonest` (each key is rejected once, `Sent` is exact, rejections are disclosed, SPF cannot starve the other checks), refinement of `LookupService`, which implies that all callers get one answer | 3 goroutines (fetcher, waiter, late caller), 2 keys, 2 lookups each, scan budget 2 and SPF budget 1, so that both run out; entries suffice for every lookup to be a miss |
| `scan_resolver_live` | `LookupReturns` | 3 goroutines, 1 lookup each, with failures and panics |
| `dns_client` | `AnswerIsOwn`, `TimeBounded`, `EndStopsQueries`, `NoiseIsHarmless`, `AnswersExact`, `LookupEnds`, refinement of `ServersInTurn` (`ConsultsInTurn`) | 0 to 2 servers, 2 attempts: retry, next server and none left; a timeout of 2 ticks lets a response come late, but in time; 3 names and a chain limit of 1 allow loops and chains beyond the limit |
| `spf_check_host` | `StackAcyclic`, `LimitStops`, `QueriesBounded`, `FailureDecides`, `OwnDirectiveDecides` | 5 spellings of 4 domains (one in two cases) and MaxDepth 2 let includes nest beyond the limit, MaxLookups 3 lets either limit strike first; 1 void lookup can be exceeded at every depth; 3 terms allow a match after two others |
| `scan` | `FailuresExit`, `ErrorsAreReal`, `RejectionsSummarised`, `InterruptionShows`, `ScanEnds` | budget 3 and 2 run out inside any list; 2 items (hosts, terms, selectors) are a failure and what comes after it; one threshold, since without `--fail-on` findings only leave the exit code alone |
| `message_verdict` | `PassIsReal`, `FailIsDefinite`, `UndecidedOnlyIfOpen`, `HonestReceiverAgrees` | an organization with two names and a stranger; each way to an SPF identity; up to 3 signatures, of which 2 are verified and may share a key. Where there are results to compare, 2 signatures of 2 domains and 2 selectors, so that names are shared, taken for another's or fit both, each named in every way of `Namings` (`Considered` says which messages are looked at) |
| `message_intake` | `FieldsExact`, `SectionBounded`, `WorkBounded`, `NothingSkippedSilently`, `WalkEnds`, `RecordedWins`, `OneConnection`, `ChainIsComplete` | 8 bytes of headers in lines of up to 5, 2 fields: every straddling of both limits, with continuations before and after; bodies of up to 13 bytes, depth 3 and 4 parts, so that each limit can come first; chains longer than `MaxHops`; 2 ARC headers of a kind with numbers 0 to 3 |
| `published_policies` | `CutOffIsPaid`, `LimitForeseen`, `MxValidIsEarned`, `PolicyIsPublished`, `EnforcedIsEarned`, `ValidMeansCovered` | 3 domains with records of 2 terms, depth 2 and 3 nodes: loops, and trees too deep or too large; 3 tags: a spoilt one, its repetition and another; 3 MX records, of which 2 are looked up; 5 lines: a complete policy and one more; hosts of three and four labels, patterns that match exactly, by a wildcard, and by one at the wrong place |
| `message_fail_definite`, `scan_spf_error`, `smtp_client`, `spf_findings_capped` | violations | see [below](#where-code-and-words-part) |

The `TypeOK` of `ScanResolver`, `DnsClient`, `MessageVerdict`, `HeaderSection`, `MimeWalk`,
`DmarcPolicy` and `StsPolicy` are part of what is proved; those of `Scan`, `SpfCheckHost`, `SmtpInputs`,
`ArcChain`, `SpfAnalyze` and `MailExchangers` document the types, and no run lists them: the proofs about
these state in their invariants the types they need. Deadlock is not
checked: a scan, an evaluation and a verdict end, and goroutines whose caller panicked stay
dead. Symmetry is used where names carry no meaning and no liveness is checked.
Each property has been seen to fail on a mutated definition; the mutants (`...Relaxed`,
`...Unlocked` and so on) stand next to the definitions they replace.

Bounds that are no constants of the program: `MaxEntries`, `MaxCalls` (`ScanResolver`),
`MaxTerms` (`SpfCheckHost`), `MaxItems` (`Scan`), `MaxServers` and `MaxAnswers` (`DnsClient`), `MaxCount`
(`MessageVerdict`), `MaxLine`, `Bodies` (message parser), `MaxOfKind` (`ArcChain`), `MaxTags` (`DmarcPolicy`),
`MaxRecords` (`MailExchangers`), `MaxFields`, `MaxLines` (`StsPolicy`); and in `MCPublishedPolicies`
`BoundedTags` and `BoundedLines`, which allow the full length only for records and policies found where
most domains have them, and report tags with one place or two that are treated differently.
The limits of the program itself are parameters; small values exercise them. Relations between the limits that a property
needs are said in it: `LimitForeseen` is about limits like the default ones, `MaxLookups <= MaxNodes`, where
a tree is cut off only after more lookups than `MaxLookups`. It says nothing of an IPv4 client under records with a
`%{v}` target (`VersionDependent`); `NothingSkippedSilently` says nothing of a `lost` part. Both exceptions are needed: without
either, TLC finds the property violated on the bounds of its run.

Fairness. `ScanResolver!FairSpec` is weak fairness of each goroutine (the Go
scheduler is fair, the mutex is held for a few steps) and of the Client's answer
(each query has a timeout). `Scan!FairSpec` is weak fairness of
the scan's own steps, each lookup and the policy fetch being ended by a timeout, and of the
deadline. `DnsClient!FairSpec`: the client's own steps, the clock, and that the kernel
reports an expired deadline; `MCMessageIntake` is fair to the steps of `MimeWalk`, a loop without waiting; servers may stay silent and foreign datagrams arrive for ever.
That standard input ends or a dialer returns is *not* assumed; that is the point of `ScanEnds`.

## What is proved

TLAPS proves, for all constants that satisfy the named assumptions (limits are natural
numbers, special values are distinct, goroutines, domains and header numbers are finitely
many, at least one domain exists, a record has at most `MaxTerms` terms of the kinds there
are), every safety property of the passing runs, and both refinements:

- `ScanResolverProofs` (12 theorems): every safety property of the run, for any
  number of goroutines, keys, lookups and any budgets, and that the cache implements
  `LookupService` (`CacheKeepsItsPromise`). The invariants hold
  inductively only together: what a goroutine at each point of `cached` knows of its
  entry (it is in the map, not closed, its own), that the map and entries agree, that an
  entry's outcome is filled before it is closed, and that an outcome handed out
  is that of the entry in the map. The counting theorems rest on a second
  invariant about the cardinality of the set of goroutines between the Budget and the Client. For the
  refinement each action is shown to ask, to refuse, to decide a key, to fail, to reply, or to change nothing
  that `LookupService` sees; it needs in addition that a goroutine outside a lookup holds no entry (`Free`).
- `SpfCheckHostProofs` (9 theorems): every property of an evaluation. A first invariant (`Shape`) relates the stack to the
  pending call; on it rest loop detection and nesting. A second relates counters,
  limit flag and pending result. `NestingCostsLookups` also needs that each nested record costs at least one lookup (`Paid`); with
  the default limits, nesting is therefore never what stops an evaluation (`LookupLimitComesFirst`).
  `OwnDirectivesDecide` needs that no definite result leaves an include but as a match (`Decided`, `WithinInclude`).
  `QueriesAreBounded` puts a price on each counted lookup and on each domain whose `p` macro was resolved, and
  shows that every query is paid for (`PaidFor`); there are no more such domains than lookups plus one.
- `DnsClientProofs` (7 theorems): every safety property of a lookup, and that the client implements `ServersInTurn`. `Position` says where the loops stand
  at each point of the code; the refinement follows from it step by step. For the time bound
  (`TimeInv`), a lookup has used at most two timeouts for each attempt begun before
  this one, and this one as much as its round trips allow. `EndStops` needs that once a query was
  written after the end of the context, no round trip is open that could write another (`LateInv`). `AnswersAreExact` is about answer sections of any
  length and aliases in any order: by induction on the length of the chain, each name followed is
  the one the section's aliases lead to. The library's induction theorems being out of reach, the induction
  is by the least counterexample (`LeastNumber`), from the well-foundedness of finite sets.
- `ScanProofs` (4 theorems): what reaches the exit code, for any budgets, lists and failures.
  Between its lookups an assessment holds an error that is not recorded yet (`Pending`): a failed
  lookup is recorded or pending (`NothingLost`), and what is recorded has failed (`NothingMadeUp`). Both
  need where the scan stands when (`Phases`), and that a rejection shows the budget exhausted.
- `MessageVerdictProofs` (8 theorems): every property of `MessageVerdict` that holds.
  `PassIsReal` and the others speak of the verdict and of what really
  passes; what connects them (`Sound`) is that a definite result is the truth
  (`SignatureTruth`, `SpfTruth`), that nothing was left out (`Complete`), and which part of the state is
  settled at which point (`Phases`). `HonestReceiverIsNotContradicted` needs that the signature a
clear naming is matched to has the result claimed, whichever one it is (`SignatureAgrees`, `ClaimAgrees`).

- `MessageIntakeProofs` (9 theorems): every safety property of the run, for any limits and inputs. `WalkIsTyped`: a part is only entered while
  a place is left for it (`WalkShape`). `WorkIsBounded` needs that the one byte beyond the budget
  is copied only when the walk stops (`WorkInv`); `SkippedIsReported`, that every step either
  hits the first limit or reports none (`LimitSteps`); its exception is a lost part. `FieldsAreExact` needs the most (`FieldsInv`): the open field begins
  with a field line and every line since continues it, a finished one ends where no continuation
  follows, and any other line was reported. `ChainsAreComplete` (`ArcInv`): the sets under construction are those of the headers read so far,
  and as many distinct numbers as the highest leave no gap (`NoGaps`, by cardinality). `TheReceiverIsBelieved`
  and `InputsAgree` need where each trace field of the message comes from (`Mail`): the fields above the border's
  own are from hosts behind it, so the first one about a connection is about the one the border accepted. That covers the client
address always, HELO and envelope sender only if the border wrote a Received-SPF for that client; if it did not, a forged one may supply them.
- `SpfAnalyzeProofs` (3 theorems): for any set of records. Every record on the path but the
  first was counted as a node, and every node as a lookup (`PathIsCounted`), so a target is left out only after
  more lookups than the smaller of `MaxDepth` and `MaxNodes`. `LimitIsForeseen` compares two traversals of one
  tree, the walk and an evaluation that may leave any record early, for a client of the family the walk expands for,
or for any where no target depends on it. It uses a log of the walk (`Log`): for each
  value the path has had, what `total` was then. Every step of the walk extends the log (`LogMoves`, `LogDescends`,
  `LogAscends`), so that once the walk is over, it leads from every place on it to the next term, into a target
  and back out, each time with what that costs (`LogGoesOn`). Reading a stack of records as a path (`Reading`), every
  step of an evaluation stays on the log and has counted at most as much as the walk had there (`Followed`).
  The invariant (`AuditInv`) asks for some log unless a record could not be read or the tree was
  cut off after more than `MaxNodes` lookups; then the report names the limit.
- `PublishedPoliciesProofs` (6 theorems): a pass is earned, for any record, policy, answer and set of hosts.
  For DMARC, `DmarcInv` relates the record under construction to the first occurrences of
  each tag and the remarks to the values; that `Conclude` gives its pass only when no remark counts then yields each part of
  `EnforcedIsEarned` (`ConcludeEarns`). For MTA-STS, `LinesInv` relates the policy to the lines read and `Covers` to
  the patterns. For MX, `RecordsInv` says of each record passed why its host is not in order
  (a remark, a repetition, the limit), so that `summarize`, which only sees remarks and counts, cannot miss one; that all hosts are
  distinct follows from counting alone (`EachOnce`).

Only model-checked: liveness (`LookupReturns`, `LookupEnds`, `ScanEnds`, `WalkEnds`), which
rests on fairness and is out of the prover's reach. `InterruptionShows`, an action property, is proved.

## Where code and words part

| Run | The code | The words |
|---|---|---|
| `message_fail_definite` | signatures beyond `MaxSignatures` are dropped without a trace (`dkim/verify.go:99`) and DMARC says "fail", although one of them may be an aligned pass; a receiver's claim about it is called "not present in the message" (`authres/compare.go:150`) | "fail only if every input produced a definite result" (`dmarc/evaluate.go:150`) |
| `scan_spf_error` | a budget rejection below an include is flattened into text (`spf/eval.go:164`) and recorded as a DNS error, exit code 4 | "Budget exhaustion is reported once as a finding instead" (`analyzer/analyzer.go:84`) |
| `smtp_client` | an address literal after "from" is taken for the client's address (`received/received.go:237`), although it is what the client announced | "The SMTP client used for SPF is inferred from the most recent Received header with a public client address" (`src/docs/standards.md:105`) |
| `spf_findings_capped` | findings of a rule beyond `maxFindingsPerRule` are dropped (`spf/analyze.go:140`), the more severe ones too | "Exit with status 1 if any finding is at least ..." (`src/README.md:100`) |

Met while modelling, without a run:

- Any `io.EOF` of the multipart reader ends the parts without a defect (`mailparser/mime.go:143`), also one that cuts off the
  header of a part after others, although "malformed structure is reported as defects" (`src/docs/standards.md:99`).
- `%{v}` is not among the macros that make a target dynamic (`spf/analyze.go:282`): a target with no other is followed as for an IPv6 client,
  without `SPFDynamic`, and an IPv4 client may need more lookups than the "worst-case number of DNS lookups a receiver may
  need" (`spf/analyze.go:45`); "Terms whose target depends on sender or client macros are counted once and not
  followed" (`src/docs/standards.md:33`).
- A truthful receiver is contradicted when its words fit more than one thing: an spf result for HELO is compared
  with the one for MAIL FROM (`authres/compare.go:133`), a `header.b` of fewer than 8 characters or one that two signatures share is
  of no signature (`authres/compare.go:168`), and of several signatures of a `header.d` the first is taken (`authres/compare.go:183`).
  `HonestReceiverAgrees` is about all other claims.
- A Received-SPF field that names the client supplies HELO and envelope sender even if the border wrote
  none and the sender forged it (`analyzer/message.go`, `spfInputs`). `RecordedWins` is about borders that wrote one.
- `exchangeUDP` compares the size of a datagram with the limit before it looks at the ID
  (`dnsresolver/client.go:330`), so an oversized foreign datagram ends the attempt, although "The DNS client
  ignores UDP datagrams whose ID or question does not match" (`src/docs/development.md:30`).
  `NoiseIsHarmless` is about all others.
- Each round trip has its own timeout (`dnsresolver/client.go:267`), so an attempt with TCP fallback may take two;
  "Each DNS attempt is limited to 5 s" (`src/README.md:101`). `TimeBounded` counts two.
- A directive behind a redirect decides, and `MatchedTerm` stays empty (`spf/eval.go:253`), which should
  "identify the directive that decided the result, if any" (`spf/eval.go:65`).
- A policy host without addresses is recorded as a DNS error though every lookup was answered (`mtasts/fetch.go:197`); a
  rejection of its lookups by the budget is reported as a failed policy fetch of the domain (`mtasts/assess.go:110`).
- That a message has more MIME parts than the limit is reported when it has exactly as many (`mailparser/mime.go:138`).
- The fallback to p=none keeps adkim, aspf and pct of the record (`dmarc/record.go:284`).
- "MTA-STS is enforced" is also given when the mail hosts are not known, the MX lookup having
  failed (`analyzer/domain.go:40`); the check is left out when a null MX stands among other records (`analyzer/domain.go:54`).
- `MXTooMany` is no more than a note, so MX records get their pass with hosts that were not looked up. `MxValidIsEarned` says so.
- `--source-ip` in a spelling that is not canonical is not recognised in the headers
  (`analyzer/message.go:189`), and HELO and MAIL FROM are then not taken from them.

## What is not modelled

- Text: splitting of records, headers and addresses into tags, words and labels, rendering and wording. Where an outcome
  of parsing matters (unusable record, syntax error, address without domain) it is a choice.
- Cryptography and canonicalization: a verification is a choice of its outcomes. DKIM header selection and
  key records likewise.
- TLS-RPT record parsing and Authentication-Results parsing: pure functions of one header that
  nothing else depends on but the report.
- Received dates, delays and TLS clauses: they are printed, and nothing is decided by them.
- `StdResolver` (Windows), the parsing of resolver addresses, option parsing: they hold no state.
- The Public Suffix List (a constant function, `Org`), the provider table, the wording of the finding
  catalogue, build information, test servers and fixture generators.
- Real time: a timeout or deadline may come at any moment.
