--------------------------- MODULE MCSpfCheckHost ---------------------------
(* Small instances of SpfCheckHost for TLC. *)
EXTENDS SpfCheckHost, TLC

CONSTANTS d1, d2, d3, d4, d5

MCDomains == {d1, d2, d3, d4, d5}

\* d1 and d4 are two spellings of one name.
MCFolded == [d \in MCDomains |-> IF d = d4 THEN d1 ELSE d]

\* The names of the domains carry no meaning, nor do the two spellings.
MCSymmetry == {p @@ q : p \in Permutations({d1, d4}), q \in Permutations({d2, d3, d5})}
=============================================================================
