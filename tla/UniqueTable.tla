---------------------------- MODULE UniqueTable -----------------------------
(***************************************************************************)
(* What the registry promises its clients: a call takes effect in one step *)
(* that keeps the unique keys unique, or is refused for a reason that is   *)
(* true at that moment, or has no effect.  Nothing here looks before it    *)
(* writes, waits or fails: Registry implements these steps with lookups,   *)
(* flushes, locks and constraint errors.                                   *)
(***************************************************************************)
EXTENDS RegistryTables

VARIABLES
    rows,       \* the stored rows
    call,       \* the call of each request
    outcome     \* "none", "applied" or "refused"

vars == <<rows, call, outcome>>

Free(id, row) ==
    \A x \in RowId \ {id} : rows[x] # None => ~Conflict(rows[x], row)

\* The row with the given columns S set, and is_active.
Result(row, q, S, is_active) ==
    [row EXCEPT !.keys = [c \in Column |-> IF c \in S THEN q.keys[c]
                                           ELSE row.keys[c]],
                !.is_active = is_active]

Receive(r, q) ==
    /\ call[r] = None
    /\ call' = [call EXCEPT ![r] = q]
    /\ UNCHANGED <<rows, outcome>>

Pending(r) == call[r] # None /\ outcome[r] = "none"

Create(r) ==
    /\ Pending(r) /\ call[r].op = "create"
    /\ rows[r] = None
    /\ Free(r, NewRow(call[r]))
    /\ rows' = [rows EXCEPT ![r] = NewRow(call[r])]
    /\ outcome' = [outcome EXCEPT ![r] = "applied"]
    /\ UNCHANGED call

\* Some of the given columns are set: one that equals what the server read is
\* not written.  Only a user becomes active again.
Change(r) ==
    /\ Pending(r) /\ call[r].op \in {"update", "delete"}
    /\ LET id == call[r].id
           row == rows[id]
       IN  /\ row # None /\ row.table = call[r].table
           /\ \E S \in SUBSET Given(call[r]),
                 a \in {row.is_active, NewFlag(call[r])} \ {None} :
                /\ a /\ ~row.is_active => row.table = "users"
                /\ Free(id, Result(row, call[r], S, a))
                /\ rows' = [rows EXCEPT ![id] = Result(row, call[r], S, a)]
    /\ outcome' = [outcome EXCEPT ![r] = "applied"]
    /\ UNCHANGED call

\* A stored row has one of the keys the call asks for.  A NAV is refused the
\* date it has itself, when another request has just given it that date.
KeyInUse(q) ==
    \E x \in RowId : \E c \in Column :
        /\ rows[x] # None /\ rows[x].table = q.table
        /\ rows[x].keys[c] # None
        /\ \/ q.op = "create" /\ rows[x].keys[c] = q.keys[c]
           \/ /\ c \in Given(q) /\ rows[x].keys[c] = q.keys[c]
              /\ x # q.id \/ q.table = "navs"

Missing(q) ==
    /\ q.op \in {"update", "delete"}
    /\ \/ rows[q.id] = None
       \/ rows[q.id].table # q.table
       \/ ~rows[q.id].is_active /\ ~Tables[q.table].all_rows

Refuse(r) ==
    /\ Pending(r)
    /\ KeyInUse(call[r]) \/ Missing(call[r]) \/ MayBreakRule(call[r])
    /\ outcome' = [outcome EXCEPT ![r] = "refused"]
    /\ UNCHANGED <<rows, call>>

Init ==
    /\ rows = [x \in RowId |-> IF x \in Req THEN None ELSE InitialRows[x]]
    /\ call = [r \in Req |-> None]
    /\ outcome = [r \in Req |-> "none"]

Next ==
    \E r \in Req :
        \/ \E q \in Workload : Receive(r, q)
        \/ Create(r) \/ Change(r) \/ Refuse(r)

Spec == Init /\ [][Next]_vars

=============================================================================
