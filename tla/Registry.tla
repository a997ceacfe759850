------------------------------ MODULE Registry ------------------------------
(***************************************************************************)
(* Users, advisors, customers, schemes, folios and NAVs under concurrent   *)
(* requests: each service looks for a row with the same key, inserts or    *)
(* updates, and leaves what happens in between to the unique constraints   *)
(* of PostgreSQL.                                                          *)
(*                                                                         *)
(* As in TransactionLedger a request is one service method in a session of *)
(* its own at READ COMMITTED, and a step is one SQL statement with the     *)
(* Python that follows it.  A flushed row is the request's alone until its *)
(* commit: it holds the row lock, and others with the same key wait.       *)
(***************************************************************************)
EXTENDS RegistryTables

VARIABLES
    rows,       \* committed rows
    pc,         \* the next step of each request
    call,       \* the service call a request made
    todo,       \* columns that are still to be looked up
    loaded,     \* session: the row it has loaded
    write,      \* session: the row version it has flushed
    response,   \* what the client was told
    committed   \* history: requests that have committed

session == <<todo, loaded, write>>
vars == <<rows, pc, call, todo, loaded, write, response, committed>>

-----------------------------------------------------------------------------
(* What a statement of request r finds.                                    *)

\* Faulty: the SELECTs do not ask for is_active.
AnyRow(t, x) == rows[x] # None /\ rows[x].table = t

\* A SELECT of table t returns row x, if its WHERE clause fits.
Visible(t, x) ==
    /\ rows[x] # None
    /\ rows[x].table = t
    /\ Tables[t].all_rows \/ rows[x].is_active

\* The rows that a lookup of column c by the requested key finds.
Hits(r, c) ==
    {x \in RowId : /\ Visible(call[r].table, x)
                   /\ rows[x].keys[c] = call[r].keys[c]}

\* Faulty: the row itself counts as a duplicate.
HitsOrItself(r, c) == Hits(r, c)

\* The hits for which the service refuses.  A NAV compares the requested date
\* with the one it was loaded with, the others compare the ids.
Duplicates(r, c) ==
    CASE call[r].op = "create" -> Hits(r, c)
      [] call[r].op = "update" /\ call[r].table = "navs" ->
            {x \in Hits(r, c) : call[r].keys[c] # loaded[r].keys[c]}
      [] OTHER -> Hits(r, c) \ {call[r].id}

\* The columns in which the session's object differs from what it loaded.
DirtyKeys(r) == {c \in Given(call[r]) : call[r].keys[c] # loaded[r].keys[c]}
DirtyFlag(r) == NewFlag(call[r]) \notin {None, loaded[r].is_active}

\* The UPDATE sets the dirty columns of the row as it is by then.
Updated(r, row) ==
    [row EXCEPT
       !.keys = [c \in Column |-> IF c \in DirtyKeys(r) THEN call[r].keys[c]
                                  ELSE row.keys[c]],
       !.is_active = IF DirtyFlag(r) THEN NewFlag(call[r]) ELSE @]

RowLocked(r, x) == \E o \in Req \ {r} : write[o] # None /\ write[o].id = x

\* Another session has flushed a row version with the key, or is changing the
\* row that has it: the statement waits until that session has ended.
KeyBusy(r, x, row) ==
    \E o \in Req \ {r} :
        /\ write[o] # None
        /\ write[o].id # x
        /\ \/ Conflict(write[o].row, row)
           \/ /\ rows[write[o].id] # None
              /\ Conflict(rows[write[o].id], row)

\* Faulty: the columns have no unique constraint.
NoConstraint(x, row) == FALSE

\* Inactive rows count: the constraints are not partial.
KeyTaken(x, row) ==
    \E y \in RowId \ {x} : rows[y] # None /\ Conflict(rows[y], row)

-----------------------------------------------------------------------------

\* Faulty: the session of a finished request is never closed.
CloseLeaking(r, answer) ==
    /\ pc' = [pc EXCEPT ![r] = "done"]
    /\ response' = [response EXCEPT ![r] = answer]
    /\ UNCHANGED <<call, session>>

\* The session is closed and what is not committed rolled back.
Close(r, answer) ==
    /\ pc' = [pc EXCEPT ![r] = "done"]
    /\ response' = [response EXCEPT ![r] = answer]
    /\ todo' = [todo EXCEPT ![r] = {}]
    /\ loaded' = [loaded EXCEPT ![r] = None]
    /\ write' = [write EXCEPT ![r] = None]
    /\ UNCHANGED call

Reject(r) == Close(r, "client_error") /\ UNCHANGED <<rows, committed>>
Unavailable(r) == Close(r, "unavailable") /\ UNCHANGED <<rows, committed>>

Continue(r, step) ==
    /\ pc' = [pc EXCEPT ![r] = step]
    /\ UNCHANGED <<rows, call, response, committed>>

LookupOrWrite(columns) == IF columns = {} THEN "write" ELSE "lookup"

-----------------------------------------------------------------------------
(* Steps of the service methods.                                           *)

\* The call is accepted: the caller may make it, and the parent row exists.
Receive(r, q) ==
    /\ pc[r] = "idle"
    /\ call' = [call EXCEPT ![r] = q]
    /\ \/ /\ q.op = "create"
          /\ todo' = [todo EXCEPT ![r] = Tables[q.table].lookups.create]
          /\ pc' = [pc EXCEPT ![r] =
                      LookupOrWrite(Tables[q.table].lookups.create)]
       \/ /\ q.op \in {"update", "delete"}
          /\ pc' = [pc EXCEPT ![r] = "load"]
          /\ UNCHANGED todo
    /\ UNCHANGED <<rows, loaded, write, response, committed>>

\* The call is refused: 401, 403, 404 for its parent, or 422.
Refuse(r) == pc[r] = "idle" /\ Reject(r)

Load(r) ==
    /\ pc[r] = "load"
    /\ LET q == call[r]
           columns == IF q.op = "update"
                      THEN Tables[q.table].lookups.update \cap Given(q)
                      ELSE {}
       IN  \/ /\ Visible(q.table, q.id)
              /\ loaded' = [loaded EXCEPT ![r] = rows[q.id]]
              /\ todo' = [todo EXCEPT ![r] = columns]
              /\ Continue(r, LookupOrWrite(columns))
              /\ UNCHANGED write
           \/ /\ ~Visible(q.table, q.id) \/ MayBreakRule(q)
              /\ Reject(r)

\* One existence check.
Lookup(r) ==
    /\ pc[r] = "lookup"
    /\ \E c \in todo[r] :
         /\ Tables[call[r].table].first[call[r].op] \in todo[r]
            => c = Tables[call[r].table].first[call[r].op]
         /\ \/ /\ Duplicates(r, c) # {}
               /\ Reject(r)
            \/ /\ Duplicates(r, c) = {}
               /\ todo' = [todo EXCEPT ![r] = @ \ {c}]
               /\ Continue(r, LookupOrWrite(todo[r] \ {c}))
               /\ UNCHANGED <<loaded, write>>

\* The statement stores row as version of x, or a constraint refuses it.
Store(r, x, row) ==
    /\ ~KeyBusy(r, x, row)
    /\ \/ /\ ~KeyTaken(x, row)
          /\ write' = [write EXCEPT ![r] = [id |-> x, row |-> row]]
          /\ Continue(r, "commit")
          /\ UNCHANGED <<todo, loaded>>
       \/ /\ KeyTaken(x, row)
          /\ Tables[row.table].handled
          /\ Reject(r)
       \/ /\ KeyTaken(x, row)
          /\ ~Tables[row.table].handled
          /\ Unavailable(r)

Insert(r) ==
    /\ pc[r] = "write" /\ call[r].op = "create"
    /\ Store(r, r, NewRow(call[r]))

\* UPDATE of the dirty columns, by id: it does not ask for is_active again.
Update(r) ==
    /\ pc[r] = "write" /\ call[r].op \in {"update", "delete"}
    /\ \/ /\ DirtyKeys(r) = {} /\ ~DirtyFlag(r)
          /\ Continue(r, "commit")
          /\ UNCHANGED session
       \/ /\ DirtyKeys(r) # {} \/ DirtyFlag(r)
          /\ ~RowLocked(r, call[r].id)
          /\ Store(r, call[r].id, Updated(r, rows[call[r].id]))

\* COMMIT.  A DELETE request answers 204 at once; the others refresh the row.
Commit(r) ==
    /\ pc[r] = "commit"
    /\ rows' = IF write[r] = None THEN rows
               ELSE [rows EXCEPT ![write[r].id] = write[r].row]
    /\ committed' = committed \cup {r}
    /\ \/ /\ call[r].op = "delete"
          /\ Close(r, "ok")
       \/ /\ call[r].op # "delete"
          /\ pc' = [pc EXCEPT ![r] = "refresh"]
          /\ write' = [write EXCEPT ![r] = None]
          /\ UNCHANGED <<call, todo, loaded, response>>

Refresh(r) ==
    /\ pc[r] = "refresh"
    /\ Close(r, "ok")
    /\ UNCHANGED <<rows, committed>>

\* A statement fails, before or after the commit, and the answer is a 503.
Fail(r) == pc[r] \notin {"idle", "done"} /\ Unavailable(r)

Step(r) ==
    \/ Load(r) \/ Lookup(r) \/ Insert(r) \/ Update(r)
    \/ Commit(r) \/ Refresh(r)

Init ==
    /\ rows = [x \in RowId |-> IF x \in Req THEN None ELSE InitialRows[x]]
    /\ pc = [r \in Req |-> "idle"]
    /\ call = [r \in Req |-> None]
    /\ todo = [r \in Req |-> {}]
    /\ loaded = [r \in Req |-> None]
    /\ write = [r \in Req |-> None]
    /\ response = [r \in Req |-> "none"]
    /\ committed = {}

\* No client has anything left to ask.
Quiescent == (\A r \in Req : pc[r] = "done") /\ UNCHANGED vars

Next ==
    \/ \E r \in Req :
        \/ \E q \in Workload : Receive(r, q)
        \/ Refuse(r)
        \/ Step(r)
        \/ Fail(r)
    \/ Quiescent

Spec == Init /\ [][Next]_vars

-----------------------------------------------------------------------------
(* Properties.                                                             *)

\* Type invariant of the table, the sessions and the answers.
TypeOK ==
    /\ rows \in [RowId -> Row \cup {None}]
    /\ pc \in [Req -> {"idle", "load", "lookup", "write", "commit",
                       "refresh", "done"}]
    /\ call \in [Req -> Call \cup {None}]
    /\ todo \in [Req -> SUBSET Column]
    /\ loaded \in [Req -> Row \cup {None}]
    /\ write \in [Req -> [id: RowId, row: Row] \cup {None}]
    /\ response \in [Req -> {"none", "ok", "client_error", "unavailable"}]
    /\ committed \in SUBSET Req

\* No two rows of a table, active or not, share a unique key, although every
\* service looks and writes in separate statements, looks at active rows only
\* (users and advisors excepted) and two PATCHes of one row can each write a
\* part of what their clients asked for.
KeysUnique ==
    \A x, y \in RowId :
        /\ x # y /\ rows[x] # None /\ rows[y] # None
        => ~Conflict(rows[x], rows[y])

\* Soft deletion is final: no PATCH, however stale the row it loaded, makes a
\* deleted customer, scheme, folio or NAV active again.
SoftDeleteIsFinal ==
    [][\A x \in RowId :
          /\ rows[x] # None
          /\ rows[x].table # "users"
          /\ ~rows[x].is_active
          => ~rows'[x].is_active]_vars

\* The outcome UniqueTable speaks of: a commit applies the call, an error
\* after it changes nothing, and a 4xx answer to an accepted call refuses it.
Outcome ==
    [r \in Req |->
        IF r \in committed THEN "applied"
        ELSE IF response[r] = "client_error" /\ call[r] # None
        THEN "refused" ELSE "none"]

Abstract == INSTANCE UniqueTable WITH rows <- rows, call <- call,
                                     outcome <- Outcome

\* The lookups, flushes, locks and constraint errors together do what
\* UniqueTable does in single steps: a call is applied once and as a whole or
\* not at all, and every 4xx is justified by the rows at that moment.
ImplementsUniqueTable == Abstract!Spec

-----------------------------------------------------------------------------
(* The inductive invariant behind the safety properties, in parts.         *)

\* Where a request can be, given its call, and what its session then holds.
ControlAt(r) ==
    /\ pc[r] = "idle" => call[r] = None
    /\ pc[r] \notin {"idle", "done"} => call[r] # None
    /\ response[r] # "none" => pc[r] = "done"
    /\ r \in committed => pc[r] \in {"refresh", "done"} /\ call[r] # None
    /\ pc[r] \in {"commit", "lookup", "write"} => r \notin committed
    /\ pc[r] = "load" => call[r].op \in {"update", "delete"}
    /\ pc[r] = "lookup"
       => /\ call[r].op \in {"create", "update"}
          /\ todo[r] \subseteq Tables[call[r].table].lookups[call[r].op]
          /\ call[r].op = "update" => todo[r] \subseteq Given(call[r])
          /\ todo[r] # {}
    /\ pc[r] \in {"lookup", "write", "commit"}
       => call[r].op = "create" \/ loaded[r] # None
    /\ loaded[r] # None
       => /\ call[r] # None /\ call[r].op \in {"update", "delete"}
          /\ rows[call[r].id] # None
          /\ rows[call[r].id].table = call[r].table
          /\ loaded[r].table = call[r].table
          /\ Tables[call[r].table].all_rows \/ loaded[r].is_active
    /\ rows[r] # None => r \in committed

\* A flushed row is what the call makes of the committed one; an INSERT has
\* always flushed one.  Whoever has flushed has nothing left but to commit, so
\* waits for rows and keys never form a circle.
WriteAt(r) ==
    /\ pc[r] = "commit" /\ call[r].op = "create" => write[r] # None
    /\ write[r] # None
       => /\ pc[r] = "commit"
          /\ call[r].op = "create"
             => write[r] = [id |-> r, row |-> NewRow(call[r])]
          /\ call[r].op # "create"
             => write[r] = [id |-> call[r].id,
                            row |-> Updated(r, rows[call[r].id])]

\* A flushed row has its id and its keys to itself.
Exclusive(r) ==
    write[r] # None
    => /\ ~RowLocked(r, write[r].id)
       /\ ~KeyTaken(write[r].id, write[r].row)
       /\ \A o \in Req \ {r} :
            write[o] # None => ~Conflict(write[o].row, write[r].row)

RegistryInv ==
    /\ TypeOK
    /\ KeysUnique
    /\ \A r \in Req : ControlAt(r) /\ WriteAt(r) /\ Exclusive(r)

=============================================================================
