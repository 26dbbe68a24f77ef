--------------------------- MODULE MCScanResolver ---------------------------
(* Small instances of ScanResolver for TLC. *)
EXTENDS ScanResolver, TLC

CONSTANTS main, dial, other, k1, k2

MCProcs3 == {main, dial, other}
MCKeys == {k1, k2}
MCRecords == {"rec"}
MCClientErrs == {"nil", "NXDomain", "Temporary"}

MCFewErrs == {"nil", "Temporary"}

\* Keys are interchangeable, and so are the goroutines other than Main.
MCSymmetry == Permutations(MCKeys) \cup Permutations(MCProcs3 \ {main})
=============================================================================
