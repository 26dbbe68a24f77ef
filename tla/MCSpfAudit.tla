----------------------------- MODULE MCSpfAudit -----------------------------
EXTENDS SpfAudit

CONSTANTS d1, d2, d3, ByVersion

MCDomains == {d1, d2, d3}
MCFolded == [d \in MCDomains |-> d]

\* include:%{v}.example, say.
MCOfVersion == [t \in {ByVersion} |-> [f \in Families |-> IF f = NoClient THEN d2 ELSE d3]]

All(q) == [kind |-> "all", qualifier |-> q]
Include1(t) == [kind |-> "include", qualifier |-> "pass", target |-> t]
PTR == [kind |-> "ptr", qualifier |-> "pass"]
Host(k, t) == [kind |-> k, qualifier |-> "pass", target |-> t]
Wide(w) == [kind |-> "range", qualifier |-> "pass", width |-> w]

\* Records of at most two terms, a redirect among them.
MCRecords ==
    LET includes == {Include1(t) : t \in MCDomains}
        pairs == {<<t, u>> : t \in includes \cup {PTR}, u \in includes \cup {All("fail")}}
        ones == {<<t>> : t \in includes}
    IN  [terms : pairs, redirect : {NoRedirect}]
        \cup [terms : ones, redirect : MCDomains]
        \cup [terms : {<<Host("host", d1), Include1(BadName)>>, <<Host("exists", d1), Include1(Dynamic)>>,
                       <<Host("host", Dynamic), Host("exists", Dynamic)>>},
              redirect : {NoRedirect}]
        \cup {[terms |-> <<All("pass"), PTR>>, redirect |-> d2],
              [terms |-> <<Wide(4), Wide(6)>>, redirect |-> Dynamic],
              [terms |-> <<PTR, Include1(ByVersion)>>, redirect |-> NoRedirect],
              [terms |-> <<PTR>>, redirect |-> ByVersion]}
=============================================================================
