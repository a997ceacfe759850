----------------------------- MODULE PatchRules -----------------------------
(***************************************************************************)
(* Rules over several columns of one row: the dates of a SIP and the       *)
(* licence numbers of an advisor.  A PATCH validates the row it has read   *)
(* together with its payload, then sets its columns by an UPDATE that does *)
(* not look at the others again.  The table sips repeats its rule as CHECK *)
(* constraints, the table advisors does not.                               *)
(*                                                                         *)
(* Requests and sessions are those of Registry: a step is one SQL          *)
(* statement with the Python that follows it.                              *)
(***************************************************************************)
EXTENDS Integers

CONSTANTS
    Req,            \* requests; each is received at most once
    Date,           \* dates, as numbers of days
    Number,         \* ARN and RIA numbers
    InitialRows,    \* rows stored before the first request
    Workload,       \* the service calls clients make
    Serial,         \* whether a request is received only when no other runs
    None            \* NULL, or no row, no write, no value

LicenseType == {"ARN", "RIA", "ARN_RIA"}

Table == {"sips", "advisors"}
Columns == [sips |-> {"start_date", "end_date", "next_due_date"},
            advisors |-> {"license_type", "arn_number", "ria_number"}]
Required == [sips |-> "start_date", advisors |-> "license_type"]
Values == [sips |-> Date \cup {None},
           advisors |-> LicenseType \cup Number \cup {None}]

\* A row created by a request gets a fresh uuid: it is named by the request.
RowId == Req \cup DOMAIN InitialRows

\* The columns of a row.  Advisors have no is_active: theirs is always TRUE.
Cols(t) == {k \in [Columns[t] -> Values[t]] : k[Required[t]] # None}
RowOf(t) == [table: {t}, cols: Cols(t), is_active: BOOLEAN]
Row == RowOf("sips") \cup RowOf("advisors")

DatesOrdered(cols) ==
    \A c \in {"end_date", "next_due_date"} :
        cols[c] # None => cols[c] >= cols["start_date"]

Licensed(cols) ==
    /\ cols["license_type"] \in {"ARN", "ARN_RIA"}
       => cols["arn_number"] # None
    /\ cols["license_type"] \in {"RIA", "ARN_RIA"}
       => cols["ria_number"] # None

ObeysRule(t, cols) ==
    /\ t = "sips" => DatesOrdered(cols)
    /\ t = "advisors" => Licensed(cols)

\* The columns a PATCH sets, with their values.
Patch(t) ==
    {p \in UNION {[S -> Values[t]] : S \in SUBSET Columns[t]} :
        Required[t] \in DOMAIN p => p[Required[t]] # None}

\* The schema of a create has validated its columns.
CreateOf(t) ==
    [op: {"create"}, table: {t}, is_active: {TRUE},
     cols: {k \in Cols(t) : ObeysRule(t, k)}]
UpdateOf(t) ==
    [op: {"update"}, table: {t}, id: RowId, cols: Patch(t),
     is_active: IF t = "sips" THEN BOOLEAN \cup {None} ELSE {None}]
SipDelete ==
    [op: {"delete"}, table: {"sips"}, id: RowId, cols: {<<>>},
     is_active: {FALSE}]
CallOf(t) == CreateOf(t) \cup UpdateOf(t)
Call == CallOf("sips") \cup CallOf("advisors") \cup SipDelete

ASSUME RequestAssumption ==
    Req \cap DOMAIN InitialRows = {} /\ Workload \subseteq Call

ASSUME SeedAssumption ==
    \A x \in DOMAIN InitialRows :
        /\ InitialRows[x] \in Row
        /\ ObeysRule(InitialRows[x].table, InitialRows[x].cols)

ASSUME SerialAssumption == Serial \in BOOLEAN

ASSUME NoneAssumption ==
    None \notin Row \cup Call \cup [id: RowId, row: Row] \cup BOOLEAN

VARIABLES
    rows,       \* committed rows
    pc,         \* the next step of each request
    call,       \* the service call a request made
    loaded,     \* session: the row it has loaded
    write,      \* session: the row version it has flushed
    response,   \* what the client was told
    committed   \* history: requests that have committed

vars == <<rows, pc, call, loaded, write, response, committed>>

-----------------------------------------------------------------------------

\* Faulty: the SELECT does not ask for is_active.
AnyRow(t, x) == rows[x] # None /\ rows[x].table = t

\* A SELECT of table t returns row x, if its WHERE clause fits.
Visible(t, x) == rows[x] # None /\ rows[x].table = t /\ rows[x].is_active

\* Faulty: the stored columns are validated without the payload.
StoredOnly(patch, cols) == cols

\* The values that are validated: the payload's, and for the rest the row's.
Effective(patch, cols) ==
    [c \in DOMAIN cols |-> IF c \in DOMAIN patch THEN patch[c] ELSE cols[c]]

\* The row a request is about.
Subject(r) == IF call[r].op = "create" THEN r ELSE call[r].id

\* The columns in which the session's object differs from what it loaded.
DirtyColumns(r) ==
    {c \in DOMAIN call[r].cols : call[r].cols[c] # loaded[r].cols[c]}
DirtyFlag(r) == call[r].is_active \notin {None, loaded[r].is_active}

\* The UPDATE sets the dirty columns of the row as it is by then.
Updated(r, row) ==
    [table |-> row.table,
     cols |-> [c \in Columns[row.table] |->
                 IF c \in DirtyColumns(r) THEN call[r].cols[c]
                 ELSE row.cols[c]],
     is_active |-> IF DirtyFlag(r) THEN call[r].is_active ELSE row.is_active]

\* What the request makes of its row.
NewVersion(r) ==
    IF call[r].op = "create"
    THEN [table |-> call[r].table, cols |-> call[r].cols, is_active |-> TRUE]
    ELSE Updated(r, rows[call[r].id])

\* Another session has updated the row and not ended.
RowLocked(r, x) == \E o \in Req \ {r} : write[o] # None /\ write[o].id = x

\* Faulty: the constraints of the table do not include the rule.
NoCheck(row) == FALSE

\* The CHECK constraints of sips refuse a row.
CheckFails(row) == row.table = "sips" /\ ~DatesOrdered(row.cols)

\* An ARN or RIA number may belong to another advisor, or a user have a
\* profile: which keys are taken is the business of Registry.
MayConflict(r) ==
    /\ call[r].table = "advisors"
    /\ call[r].op = "update"
       => DirtyColumns(r) \cap {"arn_number", "ria_number"} # {}

-----------------------------------------------------------------------------

\* Faulty: the session of a finished request is never closed.
CloseLeaking(r, answer) ==
    /\ pc' = [pc EXCEPT ![r] = "done"]
    /\ response' = [response EXCEPT ![r] = answer]
    /\ UNCHANGED <<call, loaded, write>>

\* The session is closed and what is not committed rolled back.
Close(r, answer) ==
    /\ pc' = [pc EXCEPT ![r] = "done"]
    /\ response' = [response EXCEPT ![r] = answer]
    /\ loaded' = [loaded EXCEPT ![r] = None]
    /\ write' = [write EXCEPT ![r] = None]
    /\ UNCHANGED call

\* An answer without a commit: 4xx, or 503 for what the database refuses.
Reject(r) == Close(r, "client_error") /\ UNCHANGED <<rows, committed>>
Unavailable(r) == Close(r, "unavailable") /\ UNCHANGED <<rows, committed>>

Continue(r, step) ==
    /\ pc' = [pc EXCEPT ![r] = step]
    /\ UNCHANGED <<rows, call, response, committed>>

Running(r) == pc[r] \notin {"idle", "done"}

-----------------------------------------------------------------------------
(* Steps of the service methods.                                           *)

\* The call is accepted: its schema fits, the caller may make it, and the
\* parents of a new SIP exist.
Receive(r, q) ==
    /\ pc[r] = "idle"
    /\ Serial => \A o \in Req : ~Running(o)
    /\ call' = [call EXCEPT ![r] = q]
    /\ pc' = [pc EXCEPT ![r] = IF q.op = "create" THEN "write" ELSE "load"]
    /\ UNCHANGED <<rows, loaded, write, response, committed>>

\* The call is refused: 401, 403, 404 for a parent, 409 or 422.
Refuse(r) == pc[r] = "idle" /\ Reject(r)

\* The row is loaded, and a PATCH validated against it.
Load(r) ==
    /\ pc[r] = "load"
    /\ LET q == call[r]
           accepted ==
               /\ Visible(q.table, q.id)
               /\ q.op = "update"
                  => ObeysRule(q.table, Effective(q.cols, rows[q.id].cols))
       IN  \/ /\ accepted
              /\ loaded' = [loaded EXCEPT ![r] = rows[q.id]]
              /\ Continue(r, "write")
              /\ UNCHANGED write
           \/ /\ ~accepted
              /\ Reject(r)

\* The INSERT or UPDATE stores the version, or a constraint refuses it.
Store(r) ==
    \/ /\ ~CheckFails(NewVersion(r))
       /\ write' = [write EXCEPT ![r] = [id |-> Subject(r),
                                         row |-> NewVersion(r)]]
       /\ Continue(r, "commit")
       /\ UNCHANGED loaded
    \/ CheckFails(NewVersion(r)) /\ Unavailable(r)
    \/ MayConflict(r) /\ Reject(r)

Insert(r) == pc[r] = "write" /\ call[r].op = "create" /\ Store(r)

\* UPDATE of the dirty columns, by id, once the row is not locked.
Update(r) ==
    /\ pc[r] = "write" /\ call[r].op \in {"update", "delete"}
    /\ \/ /\ DirtyColumns(r) = {} /\ ~DirtyFlag(r)
          /\ Continue(r, "commit")
          /\ UNCHANGED <<loaded, write>>
       \/ /\ DirtyColumns(r) # {} \/ DirtyFlag(r)
          /\ ~RowLocked(r, call[r].id)
          /\ Store(r)

\* COMMIT.  A DELETE request answers 204 at once; the others refresh the row.
Commit(r) ==
    /\ pc[r] = "commit"
    /\ rows' = IF write[r] = None THEN rows
               ELSE [rows EXCEPT ![write[r].id] = write[r].row]
    /\ committed' = committed \cup {r}
    /\ \/ /\ call[r].op = "delete"
          /\ Close(r, "ok")
       \/ /\ call[r].op # "delete"
          /\ pc' = [pc EXCEPT ![r] = "refresh"]
          /\ write' = [write EXCEPT ![r] = None]
          /\ UNCHANGED <<call, loaded, response>>

\* The response model repeats the rule: a row that breaks it is a 500.
Refresh(r) ==
    /\ pc[r] = "refresh"
    /\ LET row == rows[Subject(r)]
       IN  Close(r, IF ObeysRule(row.table, row.cols) THEN "ok"
                    ELSE "server_error")
    /\ UNCHANGED <<rows, committed>>

\* A statement fails, before or after the commit, and the answer is a 503.
Fail(r) == Running(r) /\ Unavailable(r)

Init ==
    /\ rows = [x \in RowId |-> IF x \in Req THEN None ELSE InitialRows[x]]
    /\ pc = [r \in Req |-> "idle"]
    /\ call = [r \in Req |-> None]
    /\ loaded = [r \in Req |-> None]
    /\ write = [r \in Req |-> None]
    /\ response = [r \in Req |-> "none"]
    /\ committed = {}

\* No client has anything left to ask.
Quiescent == (\A r \in Req : pc[r] = "done") /\ UNCHANGED vars

Next ==
    \/ \E r \in Req :
        \/ \E q \in Workload : Receive(r, q)
        \/ Refuse(r)
        \/ Load(r) \/ Insert(r) \/ Update(r)
        \/ Commit(r) \/ Refresh(r)
        \/ Fail(r)
    \/ Quiescent

Spec == Init /\ [][Next]_vars

-----------------------------------------------------------------------------
(* Properties.                                                             *)

\* Type invariant of the tables, the sessions and the answers.
TypeOK ==
    /\ rows \in [RowId -> Row \cup {None}]
    /\ pc \in [Req -> {"idle", "load", "write", "commit", "refresh", "done"}]
    /\ call \in [Req -> Call \cup {None}]
    /\ loaded \in [Req -> Row \cup {None}]
    /\ write \in [Req -> [id: RowId, row: Row] \cup {None}]
    /\ response \in [Req -> {"none", "ok", "client_error", "unavailable",
                             "server_error"}]
    /\ committed \in SUBSET Req

\* No stored SIP ends, or is due, before it starts, although two PATCHes that
\* set different dates are each validated without the other.
SipDatesOrdered ==
    \A x \in RowId :
        rows[x] # None /\ rows[x].table = "sips" => DatesOrdered(rows[x].cols)

\* Every stored advisor has the numbers its licence type asks for.
LicenseHasNumber ==
    \A x \in RowId :
        rows[x] # None /\ rows[x].table = "advisors" => Licensed(rows[x].cols)

\* A rule that held is broken only by the commit of a session whose row was
\* changed by others after it had loaded it: validation of the merged columns
\* misses nothing else.
RulesBreakOnlyInRaces ==
    [][\A x \in RowId :
          /\ rows[x] # None
          /\ ObeysRule(rows[x].table, rows[x].cols)
          /\ ~ObeysRule(rows'[x].table, rows'[x].cols)
          => \E r \in Req : /\ write[r] # None /\ write[r].id = x
                            /\ loaded[r] # rows[x]]_vars

\* A CHECK constraint, whose error is a 503 to the client, never refuses a
\* PATCH or DELETE of a row that is as its session has loaded it, nor a new
\* row: what a client can be told as a 4xx is told so before the write.
ConstraintRefusesOnlyRaces ==
    \A r \in Req :
        pc[r] = "write" /\ CheckFails(NewVersion(r))
        => call[r].op # "create" /\ rows[Subject(r)] # loaded[r]

\* Soft deletion is final: no PATCH of a SIP, although it may set is_active
\* and its UPDATE selects by id alone, makes a deleted SIP active again.
SoftDeleteIsFinal ==
    [][\A x \in RowId :
          rows[x] # None /\ ~rows[x].is_active => ~rows'[x].is_active]_vars

-----------------------------------------------------------------------------
(* The inductive invariant behind the properties, in parts.                *)

\* Where a request can be, given its call, and what its session then holds:
\* a row of its table that was active and, if it is to be patched, obeyed the
\* rule together with the payload.
ControlAt(r) ==
    /\ pc[r] = "idle" => call[r] = None
    /\ Running(r) => call[r] # None
    /\ pc[r] = "load" => call[r].op \in {"update", "delete"}
    /\ pc[r] \in {"write", "commit"}
       => call[r].op = "create" \/ loaded[r] # None
    /\ r \in committed => pc[r] \in {"refresh", "done"}
    /\ rows[r] # None => r \in committed
    /\ pc[r] = "refresh" => rows[Subject(r)] # None
    /\ loaded[r] # None
       => /\ call[r] # None /\ call[r].op \in {"update", "delete"}
          /\ rows[call[r].id] # None
          /\ rows[call[r].id].table = call[r].table
          /\ loaded[r].table = call[r].table
          /\ loaded[r].is_active
          /\ call[r].op = "update"
             => ObeysRule(call[r].table,
                          Effective(call[r].cols, loaded[r].cols))

\* A flushed row is what the call makes of the committed one, passes the CHECK
\* constraints and is locked; an INSERT has always flushed one.
WriteAt(r) ==
    /\ pc[r] = "commit" /\ call[r].op = "create" => write[r] # None
    /\ write[r] # None
       => /\ pc[r] = "commit"
          /\ write[r] = [id |-> Subject(r), row |-> NewVersion(r)]
          /\ ~CheckFails(write[r].row)
          /\ ~RowLocked(r, write[r].id)

\* The tables obey their rules; without concurrency, all of them, because the
\* only session that works has the rows as they are.
SerialHolds ==
    /\ LicenseHasNumber
    /\ \A r, o \in Req : Running(r) /\ Running(o) => r = o
    /\ \A r \in Req :
         pc[r] \in {"write", "commit"} /\ loaded[r] # None
         => loaded[r] = rows[call[r].id]

PatchRulesInv ==
    /\ TypeOK
    /\ \A r \in Req : ControlAt(r) /\ WriteAt(r)
    /\ SipDatesOrdered
    /\ Serial => SerialHolds

=============================================================================
