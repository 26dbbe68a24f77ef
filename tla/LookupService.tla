--------------------------- MODULE LookupService ---------------------------
(***************************************************************************)
(* What dnsresolver.Cache promises to the goroutines of one scan (its doc  *)
(* comment, budget.go:88-91), without entries, locks or channels: each key *)
(* has one final outcome for the whole scan, and a temporary failure is    *)
(* handed only to callers that were asking when it happened.               *)
(***************************************************************************)
EXTENDS DnsErrors

CONSTANTS Procs, Keys, NoKey, Records, NoRecords, Undecided

VARIABLES
    asking,     \* the key each goroutine is waiting for, NoKey for none
    memo,       \* the final outcome of each key, Undecided until it has one
    failure,    \* the temporary failure a goroutine will be handed
    reply       \* what its last lookup returned

vars == <<asking, memo, failure, reply>>

Outcome == [val : Records \cup {NoRecords}, err : Errs]
Temporary(out) == IsTemporary(out.err) /\ out.err # "Budget"
Rejection == [val |-> NoRecords, err |-> "Budget"]

Init ==
    /\ asking = [p \in Procs |-> NoKey]
    /\ memo = [k \in Keys |-> Undecided]
    /\ failure = [p \in Procs |-> Undecided]
    /\ reply = [p \in Procs |-> [val |-> NoRecords, err |-> "nil"]]

Ask(p, k) ==
    /\ asking[p] = NoKey
    /\ asking' = [asking EXCEPT ![p] = k]
    /\ UNCHANGED <<memo, failure, reply>>

\* A caller's own budget may refuse the lookup on the spot.
Refuse(p) ==
    /\ asking[p] = NoKey
    /\ reply' = [reply EXCEPT ![p] = Rejection]
    /\ UNCHANGED <<asking, memo, failure>>

\* Only a key somebody asks for is decided, once.
Decide(k, out) ==
    /\ memo[k] = Undecided
    /\ ~Temporary(out)
    /\ \E p \in Procs : asking[p] = k
    /\ memo' = [memo EXCEPT ![k] = out]
    /\ UNCHANGED <<asking, failure, reply>>

\* A failure reaches some of those asking; it decides nothing.
Fail(k, S, out) ==
    /\ memo[k] = Undecided
    /\ Temporary(out)
    /\ S # {}
    /\ \A p \in S : asking[p] = k /\ failure[p] = Undecided
    /\ failure' = [p \in Procs |-> IF p \in S THEN out ELSE failure[p]]
    /\ UNCHANGED <<asking, memo, reply>>

Reply(p) ==
    /\ asking[p] # NoKey
    /\ \/ failure[p] # Undecided /\ reply' = [reply EXCEPT ![p] = failure[p]]
       \/ /\ failure[p] = Undecided
          /\ memo[asking[p]] # Undecided
          /\ reply' = [reply EXCEPT ![p] = memo[asking[p]]]
    /\ asking' = [asking EXCEPT ![p] = NoKey]
    /\ failure' = [failure EXCEPT ![p] = Undecided]
    /\ UNCHANGED memo

Next ==
    \/ \E p \in Procs : Refuse(p) \/ Reply(p)
    \/ \E p \in Procs, k \in Keys : Ask(p, k)
    \/ \E k \in Keys, out \in Outcome : Decide(k, out)
    \/ \E k \in Keys, S \in SUBSET Procs, out \in Outcome : Fail(k, S, out)

Spec == Init /\ [][Next]_vars
=============================================================================
