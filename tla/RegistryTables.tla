--------------------------- MODULE RegistryTables ---------------------------
(***************************************************************************)
(* The tables of MF_MANAGER that are identified by unique keys: users,     *)
(* advisors, customers, mutual-fund schemes, folios and the NAV history.   *)
(*                                                                         *)
(* A key is opaque.  In a constraint over two columns, as (advisor_id,     *)
(* email) of customers, the first one never changes after the INSERT, so a *)
(* key stands for the pair.  Columns outside the unique constraints are    *)
(* left out.                                                               *)
(***************************************************************************)

CONSTANTS
    Req,            \* requests; each is received at most once
    Key,            \* values of the unique columns, normalised
    InitialRows,    \* rows stored before the first request
    Workload,       \* the service calls clients make
    None,           \* NULL, or no row, no write, no answer
    Unset           \* a field absent from a PATCH

Column == {"email", "user_id", "arn_number", "ria_number", "pan_number",
           "scheme_code", "folio_number", "nav_date"}

(***************************************************************************)
(* What the six services do differently:                                   *)
(*   unique     the columns with a unique constraint; it counts every row  *)
(*   nullable   those that may be NULL                                     *)
(*   patched    those a PATCH may set                                      *)
(*   lookups    what is looked up before the INSERT, or before the UPDATE  *)
(*              if the PATCH sets it; first is looked up first             *)
(*   all_rows   SELECTs do not ask for is_active                           *)
(*   flagged    a PATCH may set is_active                                  *)
(*   deletable  there is a DELETE                                          *)
(*   handled    an IntegrityError is caught and answered 4xx               *)
(*   ruled      a PATCH must also obey the licence rule, which depends on   *)
(*              columns left out: it may be refused whatever the keys are  *)
(***************************************************************************)
Users ==
    [unique |-> {"email"}, nullable |-> {}, patched |-> {},
     lookups |-> [create |-> {"email"}, update |-> {}],
     first |-> [create |-> "email", update |-> "email"],
     all_rows |-> TRUE, flagged |-> TRUE, deletable |-> FALSE,
     handled |-> FALSE, ruled |-> FALSE]

Advisors ==
    [unique |-> {"user_id", "arn_number", "ria_number"},
     nullable |-> {"arn_number", "ria_number"},
     patched |-> {"arn_number", "ria_number"},
     lookups |-> [create |-> {"user_id"}, update |-> {}],
     first |-> [create |-> "user_id", update |-> "user_id"],
     all_rows |-> TRUE, flagged |-> FALSE, deletable |-> FALSE,
     handled |-> TRUE, ruled |-> TRUE]

Customers ==
    [unique |-> {"email", "pan_number"}, nullable |-> {},
     patched |-> {"email", "pan_number"},
     lookups |-> [create |-> {"pan_number", "email"},
                  update |-> {"email", "pan_number"}],
     first |-> [create |-> "pan_number", update |-> "email"],
     all_rows |-> FALSE, flagged |-> FALSE, deletable |-> TRUE,
     handled |-> TRUE, ruled |-> FALSE]

Schemes ==
    [unique |-> {"scheme_code"}, nullable |-> {}, patched |-> {"scheme_code"},
     lookups |-> [create |-> {"scheme_code"}, update |-> {"scheme_code"}],
     first |-> [create |-> "scheme_code", update |-> "scheme_code"],
     all_rows |-> FALSE, flagged |-> TRUE, deletable |-> TRUE,
     handled |-> TRUE, ruled |-> FALSE]

Folios ==
    [unique |-> {"folio_number"}, nullable |-> {},
     patched |-> {"folio_number"},
     lookups |-> [create |-> {"folio_number"}, update |-> {"folio_number"}],
     first |-> [create |-> "folio_number", update |-> "folio_number"],
     all_rows |-> FALSE, flagged |-> TRUE, deletable |-> TRUE,
     handled |-> TRUE, ruled |-> FALSE]

Navs ==
    [unique |-> {"nav_date"}, nullable |-> {}, patched |-> {"nav_date"},
     lookups |-> [create |-> {"nav_date"}, update |-> {"nav_date"}],
     first |-> [create |-> "nav_date", update |-> "nav_date"],
     all_rows |-> FALSE, flagged |-> TRUE, deletable |-> TRUE,
     handled |-> TRUE, ruled |-> FALSE]

Tables == [users |-> Users, advisors |-> Advisors, customers |-> Customers,
           schemes |-> Schemes, folios |-> Folios, navs |-> Navs]
Table == {"users", "advisors", "customers", "schemes", "folios", "navs"}

\* A row created by a request gets a fresh uuid: it is named by the request.
RowId == Req \cup DOMAIN InitialRows

Keys == [Column -> Key \cup {None}]
Row == [table: Table, keys: Keys, is_active: BOOLEAN]

\* The columns that carry a constraint of the table have a value.
KeysFit(table, keys) ==
    \A c \in Column :
        /\ keys[c] # None => c \in Tables[table].unique
        /\ c \in Tables[table].unique \ Tables[table].nullable
           => keys[c] # None

\* The columns a PATCH sets; DELETE sets is_active alone.
Given(q) ==
    IF q.op = "update" THEN {c \in Column : q.keys[c] # Unset} ELSE {}

PatchFits(q) ==
    /\ Given(q) \subseteq Tables[q.table].patched
    /\ \A c \in Given(q) :
          q.keys[c] = None => c \in Tables[q.table].nullable
    /\ q.is_active # None => Tables[q.table].flagged

\* Payloads with NULL for a NOT NULL column fail and are left out.
Call ==
    {q \in [op: {"create"}, table: Table, keys: Keys, is_active: BOOLEAN] :
        /\ KeysFit(q.table, q.keys)
        /\ q.table # "users" => q.is_active}
    \cup
    {q \in [op: {"update"}, table: Table, id: RowId,
            keys: [Column -> Key \cup {None, Unset}],
            is_active: BOOLEAN \cup {None}] : PatchFits(q)}
    \cup
    {q \in [op: {"delete"}, table: Table, id: RowId] :
        Tables[q.table].deletable}

\* Two rows that a unique constraint does not let stand together.
Conflict(a, b) ==
    /\ a.table = b.table
    /\ \E c \in Column : a.keys[c] # None /\ a.keys[c] = b.keys[c]

ASSUME RequestAssumption ==
    /\ Req \cap DOMAIN InitialRows = {}
    /\ Workload \subseteq Call

ASSUME SeedAssumption ==
    /\ InitialRows \in [DOMAIN InitialRows -> Row]
    /\ \A x, y \in DOMAIN InitialRows :
          x # y => ~Conflict(InitialRows[x], InitialRows[y])

ASSUME NoneAssumption ==
    /\ None \notin Row \cup Call \cup Key \cup BOOLEAN
    /\ None \notin [id: RowId, row: Row]
    /\ Unset \notin Key \cup {None}

\* The row an INSERT stores.
NewRow(q) == [table |-> q.table, keys |-> q.keys, is_active |-> q.is_active]

\* The value a request gives is_active, None if it leaves it alone.
NewFlag(q) == IF q.op = "delete" THEN FALSE ELSE q.is_active

\* The call may be refused for the licence rule.
MayBreakRule(q) == q.op = "update" /\ Tables[q.table].ruled

=============================================================================
