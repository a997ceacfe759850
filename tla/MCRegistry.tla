----------------------------- MODULE MCRegistry -----------------------------
(***************************************************************************)
(* Instances of Registry for TLC: a few rows of each table, one of them    *)
(* inactive, and service calls that ask for each other's keys.             *)
(***************************************************************************)
EXTENDS Registry, TLC

CONSTANTS k1, k2, k3, u1, u2, a1, a2, c1, c2, s1, f1, n1, n2

\* All columns NULL, and the payload of a PATCH that sets no key.
NoKeys == [c \in Column |-> None]
NoPatch == [c \in Column |-> Unset]

Stored(table, keys, is_active) ==
    [table |-> table, keys |-> keys @@ NoKeys, is_active |-> is_active]

MCRows ==
    (u1 :> Stored("users", "email" :> k1, TRUE))
    @@ (u2 :> Stored("users", "email" :> k2, FALSE))
    @@ (a1 :> Stored("advisors", ("user_id" :> k1) @@ ("arn_number" :> k1),
                     TRUE))
    @@ (a2 :> Stored("advisors", ("user_id" :> k2) @@ ("ria_number" :> k2),
                     TRUE))
    @@ (c1 :> Stored("customers", ("email" :> k1) @@ ("pan_number" :> k1),
                     TRUE))
    @@ (c2 :> Stored("customers", ("email" :> k2) @@ ("pan_number" :> k2),
                     FALSE))
    @@ (s1 :> Stored("schemes", "scheme_code" :> k1, TRUE))
    @@ (f1 :> Stored("folios", "folio_number" :> k1, TRUE))
    @@ (n1 :> Stored("navs", "nav_date" :> k1, TRUE))
    @@ (n2 :> Stored("navs", "nav_date" :> k2, TRUE))

Symmetry == Permutations(Req)

CreateRow(table, keys, is_active) ==
    [op |-> "create", table |-> table, keys |-> keys @@ NoKeys,
     is_active |-> is_active]
UpdateRow(table, x, keys, is_active) ==
    [op |-> "update", table |-> table, id |-> x, keys |-> keys @@ NoPatch,
     is_active |-> is_active]
DeleteRow(table, x) == [op |-> "delete", table |-> table, id |-> x]

\* Registrations and profiles: no lookup of what a PATCH sets.
AccountWorkload ==
    {CreateRow("users", "email" :> k3, TRUE),
     CreateRow("users", "email" :> k2, FALSE),
     UpdateRow("users", u2, <<>>, TRUE),
     UpdateRow("users", u1, <<>>, FALSE),
     CreateRow("advisors", ("user_id" :> k3) @@ ("arn_number" :> k3), TRUE),
     UpdateRow("advisors", a1, "arn_number" :> k3, None),
     UpdateRow("advisors", a1, ("arn_number" :> None)
                               @@ ("ria_number" :> k2), None),
     UpdateRow("advisors", a2, ("arn_number" :> k1)
                               @@ ("ria_number" :> None), None)}

\* Customers: two keys, and a deleted row that keeps its keys.
CustomerWorkload ==
    {CreateRow("customers", ("email" :> k3) @@ ("pan_number" :> k2), TRUE),
     CreateRow("customers", ("email" :> k3) @@ ("pan_number" :> k3), TRUE),
     CreateRow("customers", ("email" :> k1) @@ ("pan_number" :> k3), TRUE),
     UpdateRow("customers", c1, "email" :> k3, None),
     UpdateRow("customers", c1, ("email" :> k1) @@ ("pan_number" :> k3),
               None),
     DeleteRow("customers", c1)}
    \cup {UpdateRow("customers", r, "email" :> k1, None) : r \in Req}

\* The catalogue: one key each; a PATCH may deactivate.
CatalogueWorkload ==
    {CreateRow("schemes", "scheme_code" :> k2, TRUE),
     UpdateRow("schemes", s1, "scheme_code" :> k2, None),
     UpdateRow("schemes", s1, <<>>, FALSE),
     DeleteRow("folios", f1),
     UpdateRow("folios", f1, "folio_number" :> k2, TRUE),
     CreateRow("folios", "folio_number" :> k1, TRUE),
     CreateRow("navs", "nav_date" :> k3, TRUE),
     UpdateRow("navs", n1, "nav_date" :> k3, None),
     UpdateRow("navs", n1, "nav_date" :> k2, FALSE),
     UpdateRow("navs", n1, "nav_date" :> k1, TRUE),
     UpdateRow("navs", n2, "nav_date" :> k1, None),
     DeleteRow("navs", n2)}

\* Bound: the requests of a behaviour are about one table.  Rows of different
\* tables have no lock, key or guard in common.
OneTable ==
    \A r, o \in Req :
        call[r] # None /\ call[o] # None => call[r].table = call[o].table

FullWorkload == AccountWorkload \cup CustomerWorkload \cup CatalogueWorkload

=============================================================================
