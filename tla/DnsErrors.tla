------------------------------ MODULE DnsErrors ------------------------------
(***************************************************************************)
(* The error classification of internal/dnsresolver/resolver.go, on which  *)
(* every check bases its verdict. "nil" is the nil error; "other" is an    *)
(* error that is no *dnsresolver.Error in its whole Unwrap chain (a        *)
(* context error, or a DNS error flattened into text): KindOf gives it 0.  *)
(***************************************************************************)

Kinds == {"NXDomain", "Temporary", "Refused", "Malformed", "TooLarge",
          "Budget", "InvalidName"}

Errs == Kinds \cup {"nil", "other"}

\* KindOf(err): 0 stands for "not a DNS error", the nil error included.
KindOf(err) == IF err \in Kinds THEN err ELSE "0"

IsNXDomain(err) == KindOf(err) = "NXDomain"

IsTemporary(err) == err # "nil" /\ KindOf(err) \notin {"NXDomain", "InvalidName"}

IsInfrastructure(err) ==
    \/ KindOf(err) \in {"Temporary", "Refused", "Malformed", "TooLarge"}
    \/ KindOf(err) = "0" /\ err # "nil"
=============================================================================
