-------------------------- MODULE PatchRules_proofs --------------------------
(***************************************************************************)
(* Theorems about PatchRules, for any requests, dates, numbers, stored     *)
(* rows and workload: PatchRulesInv is inductive, and a rule is broken, or *)
(* refused by the table, only when two requests race.                      *)
(***************************************************************************)
EXTENDS PatchRules, TLAPS

-----------------------------------------------------------------------------
(* Calls, rows and versions.                                               *)

\* The columns of a row, by table.
LEMMA RowShape ==
    ASSUME NEW x \in Row
    PROVE  /\ x.table \in Table
           /\ x.cols \in [Columns[x.table] -> Values[x.table]]
           /\ x.cols[Required[x.table]] # None
           /\ x.is_active \in BOOLEAN
           /\ x \in RowOf(x.table)
<1>1. CASE x \in RowOf("sips")
  BY <1>1 DEF RowOf, Cols, Table
<1>2. CASE x \in RowOf("advisors")
  BY <1>2 DEF RowOf, Cols, Table
<1>3. QED
  BY <1>1, <1>2 DEF Row

\* Columns that fit a table make a row of it.
LEMMA RowOfColumns ==
    ASSUME NEW t \in Table, NEW k \in Cols(t), NEW b \in BOOLEAN
    PROVE  [table |-> t, cols |-> k, is_active |-> b] \in Row
<1>1. CASE t = "sips"
  BY <1>1 DEF Row, RowOf
<1>2. CASE t = "advisors"
  BY <1>2 DEF Row, RowOf
<1>3. QED
  BY <1>1, <1>2 DEF Table

\* What a call is, by its operation.
LEMMA CallShape ==
    ASSUME NEW q \in Call
    PROVE  /\ q.op \in {"create", "update", "delete"}
           /\ q.table \in Table
           /\ q.op = "create"
              => q.cols \in Cols(q.table) /\ ObeysRule(q.table, q.cols)
           /\ q.op # "create"
              => /\ q.id \in RowId
                 /\ DOMAIN q.cols \subseteq Columns[q.table]
                 /\ \A c \in DOMAIN q.cols : q.cols[c] \in Values[q.table]
                 /\ Required[q.table] \in DOMAIN q.cols
                    => q.cols[Required[q.table]] # None
                 /\ q.is_active \in BOOLEAN \cup {None}
           /\ q.op = "delete"
              => q.table = "sips" /\ DOMAIN q.cols = {} /\ q.is_active = FALSE
<1>1. ASSUME NEW t \in Table, q \in CreateOf(t)
      PROVE  /\ q.op = "create" /\ q.table = t
             /\ q.cols \in Cols(t) /\ ObeysRule(t, q.cols)
  BY <1>1 DEF CreateOf
<1>2. ASSUME NEW t \in Table, q \in UpdateOf(t)
      PROVE  /\ q.op = "update" /\ q.table = t /\ q.id \in RowId
             /\ q.cols \in Patch(t)
             /\ q.is_active \in BOOLEAN \cup {None}
  BY <1>2 DEF UpdateOf
<1>3. ASSUME NEW t \in Table, NEW p \in Patch(t)
      PROVE  /\ DOMAIN p \subseteq Columns[t]
             /\ \A c \in DOMAIN p : p[c] \in Values[t]
             /\ Required[t] \in DOMAIN p => p[Required[t]] # None
  BY DEF Patch
<1>4. CASE \E t \in Table : q \in CreateOf(t)
  BY <1>1, <1>4
<1>5. CASE \E t \in Table : q \in UpdateOf(t)
  BY <1>2, <1>3, <1>5
<1>6. CASE q \in SipDelete
  <2>1. /\ q.op = "delete" /\ q.table = "sips" /\ q.id \in RowId
        /\ q.cols = <<>> /\ q.is_active = FALSE
    BY <1>6 DEF SipDelete
  <2>2. DOMAIN q.cols = {}
    BY <2>1
  <2>3. "sips" \in Table
    BY DEF Table
  <2>4. QED
    BY <2>1, <2>2, <2>3
<1>7. QED
  BY <1>4, <1>5, <1>6 DEF Call, CallOf, Table

\* A request whose row is loaded makes a version of its table.
LEMMA UpdatedRow ==
    ASSUME NEW r \in Req, NEW row \in Row,
           call[r] \in Call, call[r].op # "create",
           loaded[r] \in Row, row.table = call[r].table
    PROVE  /\ Updated(r, row) \in Row
           /\ Updated(r, row).table = row.table
           /\ Updated(r, row).is_active
              = IF DirtyFlag(r) THEN call[r].is_active ELSE row.is_active
           /\ Updated(r, row).cols
              = [c \in Columns[row.table] |->
                   IF c \in DirtyColumns(r) THEN call[r].cols[c]
                   ELSE row.cols[c]]
<1> DEFINE t == row.table
           k == [c \in Columns[t] |->
                   IF c \in DirtyColumns(r) THEN call[r].cols[c]
                   ELSE row.cols[c]]
           b == IF DirtyFlag(r) THEN call[r].is_active ELSE row.is_active
<1>1. /\ t \in Table
      /\ row.cols \in [Columns[t] -> Values[t]]
      /\ row.cols[Required[t]] # None
      /\ row.is_active \in BOOLEAN
  BY RowShape
<1>2. DirtyColumns(r) \subseteq DOMAIN call[r].cols
  BY DEF DirtyColumns
<1>3. k \in [Columns[t] -> Values[t]]
  BY <1>1, <1>2, CallShape
<1>4. Required[t] \in Columns[t]
  BY <1>1 DEF Required, Columns, Table
<1>5. k[Required[t]] # None
  BY <1>1, <1>2, <1>4, CallShape
<1>6. b \in BOOLEAN
  BY <1>1, CallShape DEF DirtyFlag
<1>7. Updated(r, row) = [table |-> t, cols |-> k, is_active |-> b]
  BY DEF Updated
<1>8. k \in Cols(t)
  BY <1>3, <1>5 DEF Cols
<1> HIDE DEF k, b
<1>9. Updated(r, row) \in Row
  BY <1>1, <1>6, <1>7, <1>8, RowOfColumns
<1>10. QED
  BY <1>7, <1>9 DEF k, b

\* On the row the session has loaded, the UPDATE writes what was validated.
LEMMA UpdateIsEffective ==
    ASSUME NEW r \in Req, call[r] \in Call, call[r].op # "create",
           loaded[r] \in Row, loaded[r].table = call[r].table
    PROVE  Updated(r, loaded[r]).cols
           = Effective(call[r].cols, loaded[r].cols)
<1> DEFINE t == loaded[r].table
<1>1. loaded[r].cols \in [Columns[t] -> Values[t]]
  BY RowShape
<1>2. DOMAIN loaded[r].cols = Columns[t]
  BY <1>1
<1>3. ASSUME NEW c \in Columns[t]
      PROVE  (IF c \in DirtyColumns(r) THEN call[r].cols[c]
              ELSE loaded[r].cols[c])
             = (IF c \in DOMAIN call[r].cols THEN call[r].cols[c]
                ELSE loaded[r].cols[c])
  BY DEF DirtyColumns
<1>4. QED
  BY <1>2, <1>3, UpdatedRow DEF Effective

\* A row that an INSERT makes is a row that obeys its rule.
LEMMA CreatedRow ==
    ASSUME NEW r \in Req, call[r] \in Call, call[r].op = "create"
    PROVE  /\ NewVersion(r) \in Row
           /\ NewVersion(r).table = call[r].table
           /\ NewVersion(r).cols = call[r].cols
           /\ ObeysRule(call[r].table, call[r].cols)
BY CallShape, RowOfColumns DEF NewVersion

-----------------------------------------------------------------------------
(* Type correctness: TypeOK with ControlAt of every request is inductive.  *)

ControlInv == \A r \in Req : ControlAt(r)
WriteInv == \A r \in Req : WriteAt(r)
TypeInv == TypeOK /\ ControlInv

\* The initial state is typed, and no request has started.
LEMMA TypeInit == Init => TypeInv
<1> SUFFICES ASSUME Init PROVE TypeInv
  OBVIOUS
<1>1. TypeOK
  BY SeedAssumption DEF Init, TypeOK, RowId
<1>2. ControlInv
  BY DEF Init, ControlInv, ControlAt, Running, RowId
<1>3. QED
  BY <1>1, <1>2 DEF TypeInv

\* What the types and the control state say of a request that can write.
LEMMA VersionTypes ==
    ASSUME TypeInv, NEW r \in Req, pc[r] \in {"write", "commit"}
    PROVE  /\ call[r] \in Call
           /\ Subject(r) \in RowId
           /\ NewVersion(r) \in Row
           /\ NewVersion(r).table = call[r].table
           /\ call[r].op = "create" => Subject(r) = r /\ rows[r] = None
           /\ call[r].op # "create"
              => /\ loaded[r] \in Row
                 /\ loaded[r].table = call[r].table
                 /\ Subject(r) = call[r].id
                 /\ rows[call[r].id] \in Row
                 /\ rows[call[r].id].table = call[r].table
                 /\ NewVersion(r) = Updated(r, rows[call[r].id])
<1>1. call[r] \in Call /\ r \in RowId /\ r \notin committed
  BY DEF TypeInv, TypeOK, ControlInv, ControlAt, RowId, Running
<1>2. CASE call[r].op = "create"
  BY <1>1, <1>2, CreatedRow DEF Subject, TypeInv, ControlInv, ControlAt
<1>3. CASE call[r].op # "create"
  <2>1. call[r].id \in RowId
    BY <1>1, <1>3, CallShape
  <2>2. /\ loaded[r] \in Row
        /\ loaded[r].table = call[r].table
        /\ rows[call[r].id] \in Row
        /\ rows[call[r].id].table = call[r].table
    BY <1>3, <2>1 DEF TypeInv, TypeOK, ControlInv, ControlAt
  <2>3. QED
    BY <1>1, <1>3, <2>1, <2>2, UpdatedRow DEF Subject, NewVersion
<1>4. QED
  BY <1>2, <1>3

\* What a step of another request leaves a request.
LEMMA OtherKeepsControl ==
    ASSUME TypeOK, NEW o \in Req, ControlAt(o),
           pc'[o] = pc[o], call'[o] = call[o], loaded'[o] = loaded[o],
           o \in committed' <=> o \in committed,
           rows'[o] = rows[o] \/ rows[o] # None,
           \A x \in RowId : rows[x] # None => /\ rows'[x] # None
                                              /\ rows'[x].table = rows[x].table
    PROVE  ControlAt(o)'
<1>1. call[o] # None /\ call[o].op # "create" => call[o].id \in RowId
  BY CallShape DEF TypeOK
<1>2. call[o] # None => Subject(o) \in RowId /\ Subject(o)' = Subject(o)
  BY <1>1 DEF Subject, RowId
<1>3. Running(o)' <=> Running(o)
  BY DEF Running
<1>4. pc[o] = "refresh" => call[o] # None
  BY DEF ControlAt, Running
<1>5. QED
  BY <1>1, <1>2, <1>3, <1>4 DEF ControlAt

\* A request that is answered without a commit keeps the types.
LEMMA AnswerKeepsTypes ==
    ASSUME TypeInv, NEW r \in Req,
           NEW answer \in {"ok", "client_error", "unavailable",
                           "server_error"},
           Close(r, answer), UNCHANGED <<rows, committed>>
    PROVE  TypeInv'
<1>1. TypeOK'
  BY DEF TypeInv, TypeOK, Close
<1>2. ASSUME NEW o \in Req PROVE ControlAt(o)'
  <2>1. CASE o = r
    BY <2>1 DEF TypeInv, TypeOK, ControlInv, ControlAt, Close, Running
  <2>2. CASE o # r
    BY <2>2, OtherKeepsControl DEF TypeInv, TypeOK, ControlInv, Close
  <2>3. QED
    BY <2>1, <2>2
<1>3. QED
  BY <1>1, <1>2 DEF TypeInv, ControlInv

\* A received call starts by writing or by loading its row.
LEMMA ReceiveKeepsTypes ==
    ASSUME TypeInv, NEW r \in Req, NEW q \in Workload, Receive(r, q)
    PROVE  TypeInv'
<1>1. q \in Call /\ q # None
  BY RequestAssumption, NoneAssumption
<1>2. TypeOK'
  BY <1>1 DEF TypeInv, TypeOK, Receive
<1>3. ASSUME NEW o \in Req PROVE ControlAt(o)'
  <2>1. CASE o = r
    <3>1. loaded[r] = None /\ r \notin committed /\ rows[r] = None
      BY DEF TypeInv, ControlInv, ControlAt, Receive
    <3>2. QED
      BY <1>1, <2>1, <3>1, CallShape
         DEF TypeInv, TypeOK, ControlAt, Receive, Running
  <2>2. CASE o # r
    BY <2>2, OtherKeepsControl DEF TypeInv, TypeOK, ControlInv, Receive
  <2>3. QED
    BY <2>1, <2>2
<1>4. QED
  BY <1>2, <1>3 DEF TypeInv, ControlInv

\* A row is loaded only if it is active and, for a PATCH, fits the payload.
LEMMA LoadKeepsTypes ==
    ASSUME TypeInv, NEW r \in Req, Load(r)
    PROVE  TypeInv'
<1>1. CASE Reject(r)
  BY <1>1, AnswerKeepsTypes DEF Reject
<1>2. CASE ~Reject(r)
  <2> DEFINE q == call[r]
  <2>1. /\ pc[r] = "load"
        /\ Visible(q.table, q.id)
        /\ q.op = "update"
           => ObeysRule(q.table, Effective(q.cols, rows[q.id].cols))
        /\ loaded' = [loaded EXCEPT ![r] = rows[q.id]]
        /\ Continue(r, "write")
        /\ UNCHANGED write
    BY <1>2 DEF Load
  <2>2. /\ q \in Call /\ q # None
        /\ q.op \in {"update", "delete"}
        /\ q.id \in RowId
    <3>1. q \in Call /\ q # None /\ q.op \in {"update", "delete"}
      BY <2>1 DEF TypeInv, TypeOK, ControlInv, ControlAt, Running
    <3>2. QED
      BY <3>1, CallShape
  <2>3. /\ rows[q.id] \in Row /\ rows[q.id] # None
        /\ rows[q.id].table = q.table /\ rows[q.id].is_active
    BY <2>1, <2>2 DEF Visible, TypeInv, TypeOK
  <2>4. TypeOK'
    BY <2>1, <2>3 DEF TypeInv, TypeOK, Continue
  <2>5. ASSUME NEW o \in Req PROVE ControlAt(o)'
    <3>1. CASE o = r
      BY <2>1, <2>2, <2>3, <3>1
         DEF TypeInv, TypeOK, ControlInv, ControlAt, Continue, Running
    <3>2. CASE o # r
      BY <2>1, <3>2, OtherKeepsControl
         DEF TypeInv, TypeOK, ControlInv, Continue
    <3>3. QED
      BY <3>1, <3>2
  <2>6. QED
    BY <2>4, <2>5 DEF TypeInv, ControlInv
<1>3. QED
  BY <1>1, <1>2

\* What INSERT and UPDATE have in common: the version is stored under the row
\* lock and passes the CHECK constraints, or there is nothing to write, or the
\* request is answered with an error.
LEMMA WriteCases ==
    ASSUME TypeInv, NEW r \in Req, Insert(r) \/ Update(r)
    PROVE  /\ pc[r] = "write"
           /\ \/ Reject(r) \/ Unavailable(r)
              \/ /\ Continue(r, "commit") /\ UNCHANGED <<loaded, write>>
                 /\ call[r].op # "create"
              \/ /\ Continue(r, "commit") /\ UNCHANGED loaded
                 /\ write' = [write EXCEPT ![r] = [id |-> Subject(r),
                                                   row |-> NewVersion(r)]]
                 /\ ~CheckFails(NewVersion(r))
                 /\ call[r].op # "create" => ~RowLocked(r, Subject(r))
<1>1. CASE Insert(r)
  BY <1>1 DEF Insert, Store
<1>2. CASE Update(r)
  BY <1>2 DEF Update, Store, Subject
<1>3. QED
  BY <1>1, <1>2

\* Storing a version, or nothing, keeps the types.
LEMMA WriteKeepsTypes ==
    ASSUME TypeInv, NEW r \in Req, Insert(r) \/ Update(r)
    PROVE  TypeInv'
<1>1. CASE Reject(r) \/ Unavailable(r)
  BY <1>1, AnswerKeepsTypes DEF Reject, Unavailable
<1>2. CASE ~(Reject(r) \/ Unavailable(r))
  <2>1. /\ pc[r] = "write"
        /\ Continue(r, "commit")
        /\ UNCHANGED loaded
        /\ \/ UNCHANGED write
           \/ write' = [write EXCEPT ![r] = [id |-> Subject(r),
                                             row |-> NewVersion(r)]]
    BY <1>2, WriteCases
  <2>2. TypeOK'
    BY <2>1, VersionTypes DEF TypeInv, TypeOK, Continue
  <2>3. ASSUME NEW o \in Req PROVE ControlAt(o)'
    <3>1. CASE o = r
      BY <2>1, <3>1
         DEF TypeInv, TypeOK, ControlInv, ControlAt, Continue, Running
    <3>2. CASE o # r
      BY <2>1, <3>2, OtherKeepsControl
         DEF TypeInv, TypeOK, ControlInv, Continue
    <3>3. QED
      BY <3>1, <3>2
  <2>4. QED
    BY <2>2, <2>3 DEF TypeInv, ControlInv
<1>3. QED
  BY <1>1, <1>2

\* A COMMIT installs the flushed version: a new row for a create, and a row of
\* the same table otherwise.
LEMMA CommitEffect ==
    ASSUME TypeInv, NEW r \in Req, WriteAt(r), Commit(r)
    PROVE  /\ pc[r] = "commit" /\ call[r] # None
           /\ write[r] = None => rows' = rows /\ call[r].op # "create"
           /\ write[r] # None
              => /\ write[r].id = Subject(r) /\ write[r].row = NewVersion(r)
                 /\ rows' = [rows EXCEPT ![Subject(r)] = NewVersion(r)]
           /\ rows' \in [RowId -> Row \cup {None}]
           /\ \A x \in RowId :
                rows[x] # None => /\ rows'[x] # None
                                  /\ rows'[x].table = rows[x].table
           /\ \A o \in Req : rows'[o] = rows[o] \/ rows[o] # None \/ o = r
           /\ rows'[Subject(r)] # None
<1>1. pc[r] = "commit" /\ call[r] # None
  BY DEF Commit, TypeInv, ControlInv, ControlAt, Running
<1>2. /\ Subject(r) \in RowId
      /\ NewVersion(r) \in Row /\ NewVersion(r).table = call[r].table
      /\ call[r].op = "create" => Subject(r) = r /\ rows[r] = None
      /\ call[r].op # "create"
         => /\ rows[Subject(r)] \in Row
            /\ rows[Subject(r)].table = call[r].table
  BY <1>1, VersionTypes
<1>3. None \notin Row
  BY NoneAssumption
<1>4. write[r] # None
      => write[r].id = Subject(r) /\ write[r].row = NewVersion(r)
  <2>1. write[r] # None
        => write[r] = [id |-> Subject(r), row |-> NewVersion(r)]
    BY DEF WriteAt
  <2>2. QED
    BY <2>1
<1>5. /\ write[r] = None => rows' = rows /\ call[r].op # "create"
      /\ write[r] # None
         => rows' = [rows EXCEPT ![Subject(r)] = NewVersion(r)]
  BY <1>1, <1>4 DEF Commit, WriteAt
<1>6. rows \in [RowId -> Row \cup {None}]
  BY DEF TypeInv, TypeOK
<1>7. ASSUME NEW x \in RowId
      PROVE  rows'[x] = IF write[r] # None /\ x = Subject(r)
                        THEN NewVersion(r) ELSE rows[x]
  BY <1>5, <1>6
<1>8. rows' \in [RowId -> Row \cup {None}]
  BY <1>2, <1>5, <1>6
<1>9. ASSUME NEW x \in RowId, rows[x] # None
      PROVE  rows'[x] # None /\ rows'[x].table = rows[x].table
  BY <1>2, <1>3, <1>7, <1>9
<1>10. ASSUME NEW o \in Req
       PROVE  rows'[o] = rows[o] \/ rows[o] # None \/ o = r
  <2>1. o \in RowId
    BY DEF RowId
  <2>2. QED
    BY <1>2, <1>3, <1>7, <2>1
<1>11. rows'[Subject(r)] # None
  BY <1>2, <1>3, <1>5, <1>7
<1>12. QED
  BY <1>1, <1>4, <1>5, <1>8, <1>9, <1>10, <1>11

\* A COMMIT keeps the types.
LEMMA CommitKeepsTypes ==
    ASSUME TypeInv, NEW r \in Req, WriteAt(r), Commit(r)
    PROVE  TypeInv'
<1>1. /\ pc[r] = "commit" /\ call[r] # None
      /\ rows' \in [RowId -> Row \cup {None}]
      /\ \A x \in RowId :
           rows[x] # None => /\ rows'[x] # None
                             /\ rows'[x].table = rows[x].table
      /\ \A o \in Req : rows'[o] = rows[o] \/ rows[o] # None \/ o = r
      /\ rows'[Subject(r)] # None
  BY CommitEffect
<1>2. /\ call' = call
      /\ committed' = committed \cup {r}
      /\ \/ Close(r, "ok")
         \/ /\ pc' = [pc EXCEPT ![r] = "refresh"]
            /\ write' = [write EXCEPT ![r] = None]
            /\ UNCHANGED <<loaded, response>>
  BY DEF Commit, Close
<1>3. TypeOK'
  BY <1>1, <1>2 DEF TypeInv, TypeOK, Close
<1>4. ASSUME NEW o \in Req PROVE ControlAt(o)'
  <2>1. CASE o = r
    <3>1. /\ pc'[r] \in {"refresh", "done"}
          /\ loaded'[r] = None \/ loaded'[r] = loaded[r]
      BY <1>1, <1>2 DEF TypeInv, TypeOK, Close
    <3>2. loaded[r] # None => call[r] \in Call /\ call[r].id \in RowId
      <4>1. call[r] \in Call
        BY <1>1 DEF TypeInv, TypeOK
      <4>2. loaded[r] # None => call[r].op # "create"
        BY DEF TypeInv, ControlInv, ControlAt
      <4>3. QED
        BY <4>1, <4>2, CallShape
    <3>3. Subject(r)' = Subject(r)
      BY <1>2 DEF Subject
    <3>4. QED
      BY <1>1, <1>2, <2>1, <3>1, <3>2, <3>3
         DEF TypeInv, ControlInv, ControlAt, Running
  <2>2. CASE o # r
    BY <1>1, <1>2, <2>2, OtherKeepsControl
       DEF TypeInv, TypeOK, ControlInv, Close
  <2>3. QED
    BY <2>1, <2>2
<1>5. QED
  BY <1>3, <1>4 DEF TypeInv, ControlInv

\* What a request may do in a step.
Works(r) ==
    \/ \E q \in Workload : Receive(r, q)
    \/ Refuse(r) \/ Load(r) \/ Insert(r) \/ Update(r)
    \/ Commit(r) \/ Refresh(r) \/ Fail(r)

\* Every step keeps the types, given what a commit finds.
LEMMA TypeStep ==
    ASSUME TypeInv, WriteInv, [Next]_vars
    PROVE  TypeInv'
<1>1. ASSUME NEW r \in Req, Works(r) PROVE TypeInv'
  <2>1. CASE \E q \in Workload : Receive(r, q)
    BY <2>1, ReceiveKeepsTypes
  <2>2. CASE Refuse(r) \/ Fail(r)
    BY <2>2, AnswerKeepsTypes DEF Refuse, Fail, Reject, Unavailable
  <2>3. CASE Load(r)
    BY <2>3, LoadKeepsTypes
  <2>4. CASE Insert(r) \/ Update(r)
    BY <2>4, WriteKeepsTypes
  <2>5. CASE Commit(r)
    BY <2>5, CommitKeepsTypes DEF WriteInv
  <2>6. CASE Refresh(r)
    BY <2>6, AnswerKeepsTypes DEF Refresh
  <2>7. QED
    BY <1>1, <2>1, <2>2, <2>3, <2>4, <2>5, <2>6 DEF Works
<1>2. CASE UNCHANGED vars
  BY <1>2 DEF vars, TypeInv, TypeOK, ControlInv, ControlAt, Running, Subject
<1>3. QED
  BY <1>1, <1>2 DEF Next, Quiescent, Works

-----------------------------------------------------------------------------
(* Flushed versions: a request that has flushed one has locked its row, and *)
(* the version stays what the call makes of the row.                       *)

\* A step that leaves a request, the row it works on and that row's lock alone
\* keeps what the request has flushed.
LEMMA OtherKeepsWrite ==
    ASSUME NEW o \in Req, WriteAt(o),
           write'[o] = write[o], pc'[o] = pc[o], call'[o] = call[o],
           loaded'[o] = loaded[o],
           write[o] # None
           => /\ call[o].op # "create"
                 => rows'[call[o].id] = rows[call[o].id]
              /\ ~RowLocked(o, write[o].id)'
    PROVE  WriteAt(o)'
<1> SUFFICES ASSUME write[o] # None PROVE WriteAt(o)'
  BY DEF WriteAt
<1>1. DirtyColumns(o)' = DirtyColumns(o) /\ (DirtyFlag(o)' <=> DirtyFlag(o))
  BY DEF DirtyColumns, DirtyFlag
<1>2. ASSUME call[o].op # "create"
      PROVE  Updated(o, rows[call[o].id])' = Updated(o, rows[call[o].id])
  <2> DEFINE x == rows[call[o].id]
             K == [c \in Columns[x.table] |->
                     IF c \in DirtyColumns(o) THEN call[o].cols[c]
                     ELSE x.cols[c]]
             F == IF DirtyFlag(o) THEN call[o].is_active ELSE x.is_active
  <2>1. rows'[call[o].id] = rows[call[o].id]
    BY <1>2
  <2>2. K' = K
    BY <1>1, <2>1
  <2>3. F' = F
    BY <1>1, <2>1
  <2> HIDE DEF K, F
  <2>4. [table |-> x.table, cols |-> K, is_active |-> F]'
        = [table |-> x.table, cols |-> K, is_active |-> F]
    BY <2>1, <2>2, <2>3
  <2>5. QED
    BY <2>4 DEF Updated, K, F
<1>3. NewVersion(o)' = NewVersion(o) /\ Subject(o)' = Subject(o)
  BY <1>2 DEF NewVersion, Subject
<1>4. CheckFails(write[o].row)' <=> CheckFails(write[o].row)
  BY DEF CheckFails
<1>5. QED
  BY <1>3, <1>4 DEF WriteAt

\* A step that flushes and commits nothing keeps what is flushed.
LEMMA QuietStepKeepsWrites ==
    ASSUME WriteInv, NEW r \in Req,
           rows' = rows,
           \A o \in Req \ {r} : /\ write'[o] = write[o]
                                /\ pc'[o] = pc[o]
                                /\ call'[o] = call[o]
                                /\ loaded'[o] = loaded[o],
           write'[r] = None,
           pc'[r] = "commit" => call'[r].op # "create"
    PROVE  WriteInv'
<1>1. ASSUME NEW o \in Req PROVE WriteAt(o)'
  <2>1. CASE o = r
    BY <2>1 DEF WriteAt
  <2>2. CASE o # r
    <3>1. write[o] # None => ~RowLocked(o, write[o].id)'
      BY <2>2 DEF WriteInv, WriteAt, RowLocked
    <3>2. QED
      BY <2>2, <3>1, OtherKeepsWrite DEF WriteInv
  <2>3. QED
    BY <2>1, <2>2
<1>2. QED
  BY <1>1 DEF WriteInv

\* What is flushed is about a row of its own: the row of the uncommitted INSERT
\* or one that exists.
LEMMA WriteSubject ==
    ASSUME TypeInv, WriteInv, NEW o \in Req, write[o] # None
    PROVE  /\ write[o].id = Subject(o) /\ write[o].id \in RowId
           /\ call[o].op = "create" => write[o].id = o
           /\ call[o].op # "create"
              => write[o].id = call[o].id /\ rows[call[o].id] # None
<1>1. pc[o] = "commit" /\ write[o] = [id |-> Subject(o), row |-> NewVersion(o)]
  BY DEF WriteInv, WriteAt
<1>2. write[o].id = Subject(o)
  BY <1>1
<1>3. QED
  BY <1>1, <1>2, VersionTypes, NoneAssumption

\* A flush under the row lock keeps what is flushed.
LEMMA FlushKeepsWrites ==
    ASSUME TypeInv, WriteInv, NEW r \in Req,
           pc[r] = "write",
           Continue(r, "commit"), UNCHANGED loaded,
           write' = [write EXCEPT ![r] = [id |-> Subject(r),
                                          row |-> NewVersion(r)]],
           ~CheckFails(NewVersion(r)),
           call[r].op # "create" => ~RowLocked(r, Subject(r))
    PROVE  WriteInv'
<1> DEFINE w == [id |-> Subject(r), row |-> NewVersion(r)]
<1>1. /\ UNCHANGED <<rows, call, loaded>>
      /\ pc' = [pc EXCEPT ![r] = "commit"]
      /\ write'[r] = w /\ pc'[r] = "commit"
      /\ \A o \in Req \ {r} : write'[o] = write[o] /\ pc'[o] = pc[o]
  BY DEF Continue, TypeInv, TypeOK
<1>2. /\ w \in [id: RowId, row: Row] /\ w # None
      /\ w.id = Subject(r) /\ w.row = NewVersion(r)
      /\ call[r].op = "create" => Subject(r) = r /\ rows[r] = None
  BY VersionTypes, NoneAssumption
<1> HIDE DEF w
<1>3. ASSUME NEW o \in Req \ {r}, write[o] # None
      PROVE  write[o].id # Subject(r)
  <2>1. CASE call[r].op # "create"
    BY <1>3, <2>1 DEF RowLocked
  <2>2. CASE call[r].op = "create"
    BY <1>2, <1>3, <2>2, WriteSubject
  <2>3. QED
    BY <2>1, <2>2
<1>4. ASSUME NEW o \in Req PROVE WriteAt(o)'
  <2>1. CASE o = r
    <3>1. NewVersion(r)' = NewVersion(r) /\ Subject(r)' = Subject(r)
      BY <1>1 DEF NewVersion, Subject, Updated, DirtyColumns, DirtyFlag
    <3>2. ~RowLocked(r, write[r].id)'
      BY <1>1, <1>2, <1>3 DEF RowLocked
    <3>3. ~CheckFails(write[r].row)'
      BY <1>1, <1>2 DEF CheckFails
    <3>4. (write[r] = [id |-> Subject(r), row |-> NewVersion(r)])'
      BY <1>1, <3>1 DEF w
    <3>5. QED
      BY <1>1, <2>1, <3>2, <3>3, <3>4, <1>2 DEF WriteAt
  <2>2. CASE o # r
    <3>1. write[o] # None => ~RowLocked(o, write[o].id)'
      <4>1. SUFFICES ASSUME write[o] # None, NEW p \in Req \ {o},
                            write'[p] # None
                     PROVE  write'[p].id # write'[o].id
        BY DEF RowLocked
      <4>2. write'[o] = write[o] /\ o \in Req \ {r}
        BY <1>1, <2>2
      <4>3. CASE p = r
        BY <1>1, <1>2, <1>3, <4>1, <4>2, <4>3
      <4>4. CASE p # r
        BY <1>1, <4>1, <4>2, <4>4 DEF WriteInv, WriteAt, RowLocked
      <4>5. QED
        BY <4>3, <4>4
    <3>2. QED
      BY <1>1, <2>2, <3>1, OtherKeepsWrite DEF WriteInv
  <2>3. QED
    BY <2>1, <2>2
<1>5. QED
  BY <1>4 DEF WriteInv

\* A commit releases one lock and changes one row, which nobody else has
\* flushed.
LEMMA CommitKeepsWrites ==
    ASSUME TypeInv, WriteInv, NEW r \in Req, Commit(r)
    PROVE  WriteInv'
<1>1. /\ write'[r] = None /\ pc'[r] # "commit" /\ call' = call
      /\ \A o \in Req \ {r} : /\ write'[o] = write[o]
                              /\ pc'[o] = pc[o]
                              /\ loaded'[o] = loaded[o]
  BY DEF Commit, Close, TypeInv, TypeOK
<1>2. CASE write[r] = None
  BY <1>1, <1>2, QuietStepKeepsWrites DEF Commit
<1>3. CASE write[r] # None
  <2>1. ASSUME NEW x \in RowId, x # write[r].id PROVE rows'[x] = rows[x]
    BY <1>3, <2>1 DEF Commit, TypeInv, TypeOK
  <2>2. ASSUME NEW o \in Req PROVE WriteAt(o)'
    <3>1. CASE o = r
      BY <1>1, <3>1 DEF WriteAt
    <3>2. CASE o # r
      <4>1. SUFFICES ASSUME write[o] # None PROVE WriteAt(o)'
        BY <1>1, <3>2 DEF WriteInv, WriteAt
      <4>2. ~RowLocked(o, write[o].id) /\ write[o].id # write[r].id
        BY <1>3, <3>2, <4>1 DEF WriteInv, WriteAt, RowLocked
      <4>3. ~RowLocked(o, write[o].id)'
        BY <1>1, <4>2 DEF RowLocked
      <4>4. call[o].op # "create" => rows'[call[o].id] = rows[call[o].id]
        BY <2>1, <4>1, <4>2, WriteSubject
      <4>5. QED
        BY <1>1, <3>2, <4>3, <4>4, OtherKeepsWrite DEF WriteInv
    <3>3. QED
      BY <3>1, <3>2
  <2>3. QED
    BY <2>2 DEF WriteInv
<1>4. QED
  BY <1>2, <1>3

\* Every step keeps what is flushed.
LEMMA WriteStep ==
    ASSUME TypeInv, WriteInv, [Next]_vars
    PROVE  WriteInv'
<1>1. ASSUME NEW r \in Req, Works(r) PROVE WriteInv'
  <2>1. CASE Commit(r)
    BY <2>1, CommitKeepsWrites
  <2>2. CASE Insert(r) \/ Update(r)
    <3>1. CASE Reject(r) \/ Unavailable(r)
      BY <3>1, QuietStepKeepsWrites
         DEF Reject, Unavailable, Close, TypeInv, TypeOK
    <3>2. CASE /\ Continue(r, "commit") /\ UNCHANGED <<loaded, write>>
               /\ call[r].op # "create"
      <4>1. write[r] = None
        BY <2>2, WriteCases DEF WriteInv, WriteAt
      <4>2. QED
        BY <3>2, <4>1, QuietStepKeepsWrites DEF Continue, TypeInv, TypeOK
    <3>3. QED
      BY <2>2, <3>1, <3>2, WriteCases, FlushKeepsWrites
  <2>3. CASE Load(r) \/ \E q \in Workload : Receive(r, q)
    <3>1. write[r] = None
      BY <2>3 DEF Load, Receive, WriteInv, WriteAt
    <3>2. CASE Reject(r)
      BY <3>2, QuietStepKeepsWrites DEF Reject, Close, TypeInv, TypeOK
    <3>3. CASE ~Reject(r)
      <4>1. /\ rows' = rows /\ write' = write /\ pc'[r] # "commit"
            /\ \A o \in Req \ {r} : /\ pc'[o] = pc[o]
                                    /\ call'[o] = call[o]
                                    /\ loaded'[o] = loaded[o]
        BY <2>3, <3>3 DEF Load, Receive, Continue, TypeInv, TypeOK
      <4>2. QED
        BY <3>1, <4>1, QuietStepKeepsWrites
    <3>4. QED
      BY <3>2, <3>3
  <2>4. CASE Refuse(r) \/ Fail(r) \/ Refresh(r)
    BY <2>4, QuietStepKeepsWrites
       DEF Refuse, Fail, Refresh, Reject, Unavailable, Close, TypeInv, TypeOK
  <2>5. QED
    BY <1>1, <2>1, <2>2, <2>3, <2>4 DEF Works
<1>2. CASE UNCHANGED vars
  <2>1. ASSUME NEW o \in Req PROVE WriteAt(o)'
    <3>1. write[o] # None => ~RowLocked(o, write[o].id)'
      BY <1>2 DEF vars, WriteInv, WriteAt, RowLocked
    <3>2. QED
      BY <1>2, <3>1, OtherKeepsWrite DEF vars, WriteInv
  <2>2. QED
    BY <2>1 DEF WriteInv
<1>3. QED
  BY <1>1, <1>2 DEF Next, Quiescent, Works

\* Only a commit changes rows, and it changes the one its session has flushed.
LEMMA RowsChangeByCommit ==
    ASSUME TypeInv, WriteInv, [Next]_vars, NEW x \in RowId, rows'[x] # rows[x]
    PROVE  \E r \in Req : /\ Commit(r) /\ pc[r] = "commit"
                          /\ write[r] # None /\ write[r].id = x
                          /\ write[r].row = NewVersion(r)
                          /\ rows'[x] = NewVersion(r)
                          /\ ~CheckFails(NewVersion(r))
<1>1. PICK r \in Req : Commit(r)
  BY DEF vars, Next, Quiescent, Receive, Refuse, Load, Insert, Update, Store,
         Refresh, Fail, Reject, Unavailable, Continue
<1>2. /\ pc[r] = "commit"
      /\ write[r] = None => rows' = rows
      /\ write[r] # None
         => /\ write[r].id = Subject(r) /\ write[r].row = NewVersion(r)
            /\ rows' = [rows EXCEPT ![Subject(r)] = NewVersion(r)]
  BY <1>1, CommitEffect DEF WriteInv
<1>3. write[r] # None /\ x = Subject(r) /\ rows'[x] = NewVersion(r)
  BY <1>2 DEF TypeInv, TypeOK
<1>4. QED
  BY <1>1, <1>2, <1>3 DEF WriteInv, WriteAt

\* SIPs stay ordered: what a commit installs has passed the CHECK constraints.
LEMMA DatesStep ==
    ASSUME TypeInv, WriteInv, SipDatesOrdered, [Next]_vars
    PROVE  SipDatesOrdered'
<1>1. ASSUME NEW x \in RowId, rows'[x] # None, rows'[x].table = "sips"
      PROVE  DatesOrdered(rows'[x].cols)
  <2>1. CASE rows'[x] = rows[x]
    BY <1>1, <2>1 DEF SipDatesOrdered
  <2>2. CASE rows'[x] # rows[x]
    BY <1>1, <2>2, RowsChangeByCommit DEF CheckFails
  <2>3. QED
    BY <2>1, <2>2
<1>2. QED
  BY <1>1 DEF SipDatesOrdered

-----------------------------------------------------------------------------
(* The rules: a version of the row that was loaded obeys what was validated. *)

\* If the row is as the session has loaded it, the version keeps the rule.
LEMMA UnracedVersion ==
    ASSUME TypeInv, NEW r \in Req, pc[r] \in {"write", "commit"},
           call[r].op # "create" => rows[call[r].id] = loaded[r],
           call[r].op = "delete"
           => ObeysRule(loaded[r].table, loaded[r].cols)
    PROVE  ObeysRule(NewVersion(r).table, NewVersion(r).cols)
<1>1. call[r] \in Call
  BY VersionTypes
<1>2. CASE call[r].op = "create"
  BY <1>1, <1>2, CreatedRow
<1>3. CASE call[r].op # "create"
  <2>1. /\ loaded[r] \in Row /\ loaded[r].table = call[r].table
        /\ NewVersion(r) = Updated(r, loaded[r])
        /\ NewVersion(r).table = call[r].table
    BY <1>3, VersionTypes
  <2>2. NewVersion(r).cols = Effective(call[r].cols, loaded[r].cols)
    BY <1>1, <1>3, <2>1, UpdateIsEffective
  <2>3. CASE call[r].op = "update"
    <3>1. loaded[r] # None
      BY <2>1, NoneAssumption
    <3>2. QED
      BY <2>1, <2>2, <2>3, <3>1 DEF TypeInv, ControlInv, ControlAt
  <2>4. CASE call[r].op = "delete"
    <3>1. loaded[r].cols \in [Columns[loaded[r].table]
                             -> Values[loaded[r].table]]
      BY <2>1, RowShape
    <3>2. DOMAIN call[r].cols = {}
      BY <1>1, <2>4, CallShape
    <3>3. Effective(call[r].cols, loaded[r].cols) = loaded[r].cols
      BY <3>1, <3>2 DEF Effective
    <3>4. QED
      BY <2>1, <2>2, <2>4, <3>3
  <2>5. QED
    BY <1>1, <1>3, <2>3, <2>4, CallShape
<1>4. QED
  BY <1>2, <1>3

\* Commits of sessions that have seen the row as it is keep its rule.
LEMMA RulesStep ==
    ASSUME TypeInv, WriteInv, [Next]_vars, NEW x \in RowId,
           rows[x] # None,
           ObeysRule(rows[x].table, rows[x].cols),
           ~ObeysRule(rows'[x].table, rows'[x].cols)
    PROVE  \E r \in Req : /\ write[r] # None /\ write[r].id = x
                          /\ loaded[r] # rows[x]
<1>1. rows'[x] # rows[x]
  OBVIOUS
<1>2. PICK r \in Req : /\ pc[r] = "commit"
                       /\ write[r] # None /\ write[r].id = x
                       /\ rows'[x] = NewVersion(r)
  BY <1>1, RowsChangeByCommit
<1>3. call[r].op # "create" /\ x = call[r].id
  BY <1>2, WriteSubject, VersionTypes
<1>4. loaded[r] # rows[x]
  BY <1>2, <1>3, UnracedVersion
<1>5. QED
  BY <1>2, <1>4

\* A refusal by a CHECK constraint is a race.
LEMMA RefusalIsRace ==
    ASSUME TypeInv, SipDatesOrdered
    PROVE  ConstraintRefusesOnlyRaces
<1> SUFFICES ASSUME NEW r \in Req, pc[r] = "write", CheckFails(NewVersion(r)),
                    call[r].op = "create" \/ rows[Subject(r)] = loaded[r]
             PROVE  FALSE
  BY DEF ConstraintRefusesOnlyRaces
<1>1. ~ObeysRule(NewVersion(r).table, NewVersion(r).cols)
  BY DEF CheckFails, ObeysRule
<1>2. call[r] \in Call
  BY VersionTypes
<1>3. call[r].op # "create" => rows[call[r].id] = loaded[r]
  BY VersionTypes
<1>4. CASE call[r].op = "delete"
  <2>1. /\ call[r].id \in RowId /\ rows[call[r].id] # None
        /\ loaded[r].table = "sips"
    BY <1>2, <1>4, CallShape, VersionTypes, NoneAssumption
  <2>2. ObeysRule(loaded[r].table, loaded[r].cols)
    BY <1>3, <1>4, <2>1 DEF SipDatesOrdered, ObeysRule
  <2>3. QED
    BY <1>1, <1>3, <2>2, UnracedVersion
<1>5. CASE call[r].op # "delete"
  BY <1>1, <1>3, <1>5, UnracedVersion
<1>6. QED
  BY <1>4, <1>5

\* A commit leaves a deleted row deleted: its session has loaded an active row,
\* so TRUE is not dirty.
LEMMA DeletionStep ==
    ASSUME TypeInv, WriteInv, [Next]_vars, NEW x \in RowId,
           rows[x] # None, ~rows[x].is_active
    PROVE  ~rows'[x].is_active
<1>1. CASE rows'[x] = rows[x]
  BY <1>1
<1>2. CASE rows'[x] # rows[x]
  <2>1. PICK r \in Req : /\ pc[r] = "commit"
                         /\ write[r] # None /\ write[r].id = x
                         /\ rows'[x] = NewVersion(r)
    BY <1>2, RowsChangeByCommit
  <2>2. call[r].op # "create" /\ x = call[r].id
    BY <2>1, WriteSubject, VersionTypes
  <2>3. /\ call[r] \in Call /\ loaded[r] \in Row /\ rows[x] \in Row
        /\ rows[x].table = call[r].table
        /\ NewVersion(r) = Updated(r, rows[x])
    BY <2>1, <2>2, VersionTypes
  <2>4. loaded[r].is_active
    BY <2>3, NoneAssumption DEF TypeInv, ControlInv, ControlAt
  <2>5. loaded[r].is_active = TRUE /\ rows[x].is_active = FALSE
    BY <2>3, <2>4, RowShape
  <2>6. rows'[x].is_active = IF DirtyFlag(r) THEN call[r].is_active
                             ELSE rows[x].is_active
    <3>1. Updated(r, rows[x]).is_active
          = IF DirtyFlag(r) THEN call[r].is_active ELSE rows[x].is_active
      BY <2>2, <2>3, UpdatedRow
    <3>2. rows'[x] = Updated(r, rows[x])
      BY <2>1, <2>3
    <3>3. QED
      BY <3>1, <3>2
  <2>7. DirtyFlag(r) => call[r].is_active = FALSE
    <3>1. call[r].is_active \in BOOLEAN \cup {None}
      BY <2>2, <2>3, CallShape
    <3>2. QED
      BY <2>5, <3>1 DEF DirtyFlag
  <2>8. rows'[x].is_active = FALSE
    BY <2>5, <2>6, <2>7
  <2>9. QED
    BY <2>8
<1>3. QED
  BY <1>1, <1>2

-----------------------------------------------------------------------------
(* Without concurrency.                                                    *)

\* The initial rows obey their rules, and no request runs.
LEMMA SerialInit == Init => SipDatesOrdered /\ SerialHolds /\ WriteInv
<1> SUFFICES ASSUME Init PROVE SipDatesOrdered /\ SerialHolds /\ WriteInv
  OBVIOUS
<1>1. ASSUME NEW x \in RowId, rows[x] # None
      PROVE  ObeysRule(rows[x].table, rows[x].cols)
  BY <1>1, SeedAssumption DEF Init, RowId
<1>2. SipDatesOrdered /\ LicenseHasNumber
  BY <1>1 DEF SipDatesOrdered, LicenseHasNumber, ObeysRule
<1>3. QED
  BY <1>2 DEF Init, SerialHolds, Running, WriteInv, WriteAt

\* A request runs after a step if it ran before or has just been received.
LEMMA RunningStep ==
    ASSUME TypeInv, [Next]_vars, NEW o \in Req, Running(o)'
    PROVE  \/ Running(o)
           \/ /\ \E q \in Workload : Receive(o, q)
              /\ pc'[o] \in {"load", "write"}
              /\ UNCHANGED <<rows, loaded>>
              /\ \A p \in Req \ {o} : pc'[p] = pc[p]
<1>1. ASSUME NEW r \in Req, NEW q \in Workload, Receive(r, q), ~Running(o)
      PROVE  r = o /\ pc'[o] \in {"load", "write"}
             /\ UNCHANGED <<rows, loaded>>
             /\ \A p \in Req \ {o} : pc'[p] = pc[p]
  BY <1>1 DEF Receive, Running, TypeInv, TypeOK
<1>2. ASSUME NEW r \in Req,
             \/ Refuse(r) \/ Load(r) \/ Insert(r) \/ Update(r)
             \/ Commit(r) \/ Refresh(r) \/ Fail(r)
      PROVE  Running(o)
  BY <1>2 DEF Refuse, Load, Insert, Update, Store, Commit, Refresh, Fail,
              Reject, Unavailable, Continue, Close, Running, TypeInv, TypeOK
<1>3. CASE UNCHANGED vars
  BY <1>3 DEF vars, Running
<1>4. QED
  BY <1>1, <1>2, <1>3 DEF Next, Quiescent

\* Requests that come one after the other keep every rule.
LEMMA SerialStep ==
    ASSUME TypeInv, WriteInv, SerialHolds, Serial, [Next]_vars
    PROVE  SerialHolds'
<1>1. ASSUME NEW r \in Req, NEW o \in Req, Running(r)', Running(o)'
      PROVE  r = o
  <2>1. CASE Running(r) /\ Running(o)
    BY <2>1 DEF SerialHolds
  <2>2. ASSUME NEW p \in Req, \E q \in Workload : Receive(p, q),
               \A z \in Req \ {p} : pc'[z] = pc[z],
               NEW z \in Req, Running(z)'
        PROVE  z = p
    BY <2>2 DEF Receive, Running
  <2>3. CASE ~Running(r)
    BY <1>1, <2>2, <2>3, RunningStep
  <2>4. CASE ~Running(o)
    BY <1>1, <2>2, <2>4, RunningStep
  <2>5. QED
    BY <2>1, <2>3, <2>4
<1>2. ASSUME NEW r \in Req, pc'[r] \in {"write", "commit"}, loaded'[r] # None
      PROVE  loaded'[r] = rows'[call'[r].id]
  <2>1. Running(r)'
    BY <1>2 DEF Running
  <2>2. CASE ~Running(r)
    BY <1>2, <2>1, <2>2, RunningStep
       DEF TypeInv, ControlInv, ControlAt, Running, Receive
  <2>3. CASE Running(r)
    <3>1. pc[r] \in {"write", "commit"} /\ loaded[r] # None
          => loaded[r] = rows[call[r].id]
      BY DEF SerialHolds
    <3>2. ASSUME NEW o \in Req, Works(o), o # r
          PROVE  Refuse(o)
      <4>1. ~Running(o)
        BY <2>3, <3>2 DEF SerialHolds
      <4>2. ~\E q \in Workload : Receive(o, q)
        BY <2>3 DEF Receive
      <4>3. QED
        BY <3>2, <4>1, <4>2 DEF Works, Running, Load, Insert, Update, Commit,
                                Refresh, Fail
    <3>3. ASSUME NEW o \in Req, Refuse(o), o # r
          PROVE  UNCHANGED <<pc[r], loaded[r], rows, call>>
      BY <3>3 DEF Refuse, Reject, Close, TypeInv, TypeOK
    <3>4. CASE Works(r)
      <4>1. CASE Load(r)
        BY <1>2, <4>1 DEF Load, Reject, Close, Continue, TypeInv, TypeOK
      <4>2. CASE Insert(r) \/ Update(r)
        <5>1. pc[r] = "write"
          BY <4>2, WriteCases
        <5>2. UNCHANGED <<loaded, rows, call>>
          BY <1>2, <4>2, WriteCases
             DEF Reject, Unavailable, Close, Continue, TypeInv, TypeOK
        <5>3. QED
          BY <1>2, <3>1, <5>1, <5>2
      <4>3. CASE \/ Refuse(r) \/ Commit(r) \/ Refresh(r) \/ Fail(r)
        BY <1>2, <4>3 DEF Refuse, Commit, Refresh, Fail, Reject, Unavailable,
                          Close, TypeInv, TypeOK
      <4>4. QED
        BY <2>3, <3>4, <4>1, <4>2, <4>3 DEF Works, Receive, Running
    <3>5. CASE UNCHANGED vars
      BY <1>2, <3>1, <3>5 DEF vars
    <3>6. QED
      BY <1>2, <3>1, <3>2, <3>3, <3>4, <3>5 DEF Next, Quiescent, Works
  <2>4. QED
    BY <2>2, <2>3
<1>3. ASSUME NEW x \in RowId, rows'[x] # None, rows'[x].table = "advisors"
      PROVE  Licensed(rows'[x].cols)
  <2>1. CASE rows'[x] = rows[x]
    BY <1>3, <2>1 DEF SerialHolds, LicenseHasNumber
  <2>2. CASE rows'[x] # rows[x]
    <3>1. PICK r \in Req : pc[r] = "commit" /\ rows'[x] = NewVersion(r)
      BY <2>2, RowsChangeByCommit
    <3>2. call[r] \in Call /\ call[r].table = "advisors"
      BY <1>3, <3>1, VersionTypes
    <3>3. call[r].op # "delete"
      BY <3>2, CallShape
    <3>4. call[r].op # "create" => rows[call[r].id] = loaded[r]
      BY <3>1, VersionTypes, NoneAssumption DEF SerialHolds
    <3>5. ObeysRule(NewVersion(r).table, NewVersion(r).cols)
      BY <3>1, <3>3, <3>4, UnracedVersion
    <3>6. QED
      BY <1>3, <3>1, <3>5 DEF ObeysRule
  <2>3. QED
    BY <2>1, <2>2
<1>4. QED
  BY <1>1, <1>2, <1>3 DEF SerialHolds, LicenseHasNumber

-----------------------------------------------------------------------------
(* The theorems.                                                           *)

\* For any requests, stored rows and calls: the types, the control state, the
\* flushed versions with their locks and the rules are an invariant.
THEOREM RulesInvariant == Spec => []PatchRulesInv
<1> DEFINE Inv == /\ TypeInv /\ WriteInv /\ SipDatesOrdered
                  /\ Serial => SerialHolds
<1>1. Init => Inv
  BY TypeInit, SerialInit
<1>2. Inv /\ [Next]_vars => Inv'
  BY TypeStep, WriteStep, DatesStep, SerialStep
<1>3. Inv => PatchRulesInv
  BY DEF TypeInv, ControlInv, WriteInv, PatchRulesInv
<1>4. QED
  BY <1>1, <1>2, <1>3, PTL DEF Spec

\* The variables keep their types.
THEOREM TypeCorrect == Spec => []TypeOK
<1>1. PatchRulesInv => TypeOK
  BY DEF PatchRulesInv
<1>2. QED
  BY <1>1, RulesInvariant, PTL

\* PatchRulesInv has what the steps need.
LEMMA InvariantParts == PatchRulesInv => TypeInv /\ WriteInv /\ SipDatesOrdered
BY DEF TypeInv, ControlInv, WriteInv, PatchRulesInv

\* Whatever PATCHes race, no SIP ends or is due before it starts.
THEOREM SipDatesStayOrdered == Spec => []SipDatesOrdered
<1>1. PatchRulesInv => SipDatesOrdered
  BY InvariantParts
<1>2. QED
  BY <1>1, RulesInvariant, PTL

\* A CHECK constraint refuses only what has raced with another request.
THEOREM RefusalsAreRaces == Spec => []ConstraintRefusesOnlyRaces
<1>1. PatchRulesInv => ConstraintRefusesOnlyRaces
  BY InvariantParts, RefusalIsRace
<1>2. QED
  BY <1>1, RulesInvariant, PTL

\* A rule is broken only by a session whose row others have changed since it
\* loaded it.
THEOREM BrokenRulesAreRaces == Spec => RulesBreakOnlyInRaces
<1>1. PatchRulesInv /\ [Next]_vars
      => [\A x \in RowId :
            /\ rows[x] # None
            /\ ObeysRule(rows[x].table, rows[x].cols)
            /\ ~ObeysRule(rows'[x].table, rows'[x].cols)
            => \E r \in Req : /\ write[r] # None /\ write[r].id = x
                              /\ loaded[r] # rows[x]]_vars
  BY InvariantParts, RulesStep
<1>2. QED
  BY <1>1, RulesInvariant, PTL DEF Spec, RulesBreakOnlyInRaces

\* A deleted SIP stays deleted, however stale the PATCH.
THEOREM SipDeletionIsFinal == Spec => SoftDeleteIsFinal
<1>1. PatchRulesInv /\ [Next]_vars
      => [\A x \in RowId :
            rows[x] # None /\ ~rows[x].is_active => ~rows'[x].is_active]_vars
  BY InvariantParts, DeletionStep
<1>2. QED
  BY <1>1, RulesInvariant, PTL DEF Spec, SoftDeleteIsFinal

\* Requests that come one after the other leave every advisor with the numbers
\* its licence type asks for.
THEOREM LicencesHoldSerially ==
    ASSUME Serial
    PROVE  Spec => []LicenseHasNumber
<1>1. PatchRulesInv => LicenseHasNumber
  BY DEF PatchRulesInv, SerialHolds
<1>2. QED
  BY <1>1, RulesInvariant, PTL

=============================================================================
