---------------------------- MODULE MCPatchRules ----------------------------
(***************************************************************************)
(* Instances of PatchRules for TLC: SIPs and advisors whose columns can be *)
(* patched one by one into breaking a rule.                                *)
(***************************************************************************)
EXTENDS PatchRules, TLC

CONSTANTS s1, s2, a1, a2, n1, n2

Sip(start, end, due) ==
    ("start_date" :> start) @@ ("end_date" :> end) @@ ("next_due_date" :> due)
Advisor(license, arn, ria) ==
    ("license_type" :> license) @@ ("arn_number" :> arn)
    @@ ("ria_number" :> ria)
Stored(t, cols, is_active) ==
    [table |-> t, cols |-> cols, is_active |-> is_active]

MCRows ==
    (s1 :> Stored("sips", Sip(1, 3, 2), TRUE))
    @@ (s2 :> Stored("sips", Sip(2, None, 2), FALSE))
    @@ (a1 :> Stored("advisors", Advisor("ARN", n1, n2), TRUE))
    @@ (a2 :> Stored("advisors", Advisor("ARN_RIA", n1, n2), TRUE))

Symmetry == Permutations(Req)

CreateRow(t, cols) ==
    [op |-> "create", table |-> t, cols |-> cols, is_active |-> TRUE]
UpdateRow(t, x, cols, is_active) ==
    [op |-> "update", table |-> t, id |-> x, cols |-> cols,
     is_active |-> is_active]
DeleteSip(x) ==
    [op |-> "delete", table |-> "sips", id |-> x, cols |-> <<>>,
     is_active |-> FALSE]

SipWorkload ==
    {CreateRow("sips", Sip(2, 2, None)),
     UpdateRow("sips", s1, "start_date" :> 2, None),
     UpdateRow("sips", s1, "start_date" :> 3, TRUE),
     UpdateRow("sips", s1, "end_date" :> 2, None),
     UpdateRow("sips", s1, "end_date" :> 1, FALSE),
     UpdateRow("sips", s1, "end_date" :> None, None),
     UpdateRow("sips", s1, "next_due_date" :> 1, None),
     UpdateRow("sips", s1, ("next_due_date" :> 3) @@ ("start_date" :> 1),
               None),
     UpdateRow("sips", s2, <<>>, TRUE),
     DeleteSip(s1)}
    \cup {UpdateRow("sips", r, "start_date" :> 3, None) : r \in Req}
    \cup {UpdateRow("sips", r, "end_date" :> 3, FALSE) : r \in Req}

AdvisorWorkload ==
    {CreateRow("advisors", Advisor("RIA", None, n2)),
     UpdateRow("advisors", a1, "license_type" :> "ARN_RIA", None),
     UpdateRow("advisors", a1, "license_type" :> "RIA", None),
     UpdateRow("advisors", a1, "ria_number" :> None, None),
     UpdateRow("advisors", a1, "arn_number" :> None, None),
     UpdateRow("advisors", a1, ("license_type" :> "RIA")
                               @@ ("arn_number" :> None), None),
     UpdateRow("advisors", a2, "license_type" :> "ARN", None),
     UpdateRow("advisors", a2, ("license_type" :> "RIA")
                               @@ ("arn_number" :> None), None),
     UpdateRow("advisors", a2, "arn_number" :> n2, None)}
    \cup {UpdateRow("advisors", r, "ria_number" :> None, None) : r \in Req}

FullWorkload == SipWorkload \cup AdvisorWorkload

\* Bound: the requests of a behaviour are about one table.  Rows of different
\* tables have no lock, rule or guard in common.
OneTable ==
    \A r, o \in Req :
        call[r] # None /\ call[o] # None => call[r].table = call[o].table

=============================================================================
