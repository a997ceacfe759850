--------------------------- MODULE Registry_proofs ---------------------------
(***************************************************************************)
(* Theorems about Registry, for any requests, keys, stored rows and        *)
(* workload: RegistryInv is inductive, and every step is a step of         *)
(* UniqueTable or leaves its state alone.                                  *)
(***************************************************************************)
EXTENDS Registry, TLAPS

-----------------------------------------------------------------------------
(* Calls, rows and conflicts.                                              *)

\* Every call names an operation and a table, and its fields are typed.
LEMMA CallShape ==
    ASSUME NEW q \in Call
    PROVE  /\ q.op \in {"create", "update", "delete"}
           /\ q.table \in Table
           /\ q.op = "create" => NewRow(q) \in Row
           /\ q.op \in {"update", "delete"} => q.id \in RowId
           /\ Given(q) \subseteq Column
           /\ \A c \in Given(q) : q.keys[c] \in Key \cup {None}
           /\ q.op # "create" => NewFlag(q) \in BOOLEAN \cup {None}
           /\ q.op = "create" => q.keys \in Keys
<1>1. CASE q.op = "create"
  BY <1>1 DEF Call, NewRow, Row, Given
<1>2. CASE q.op = "update"
  BY <1>2 DEF Call, NewFlag, Given, Keys
<1>3. CASE q.op = "delete"
  BY <1>3 DEF Call, NewFlag, Given
<1>4. QED
  BY <1>1, <1>2, <1>3 DEF Call

\* What a service looks up is a set of columns.
LEMMA LookupColumns ==
    ASSUME NEW t \in Table
    PROVE  /\ Tables[t].lookups.create \subseteq Column
           /\ Tables[t].lookups.update \subseteq Column
<1>1. CASE t = "users"
  BY <1>1 DEF Tables, Users, Column
<1>2. CASE t = "advisors"
  BY <1>2 DEF Tables, Advisors, Column
<1>3. CASE t = "customers"
  BY <1>3 DEF Tables, Customers, Column
<1>4. CASE t = "schemes"
  BY <1>4 DEF Tables, Schemes, Column
<1>5. CASE t = "folios"
  BY <1>5 DEF Tables, Folios, Column
<1>6. CASE t = "navs"
  BY <1>6 DEF Tables, Navs, Column
<1>7. QED
  BY <1>1, <1>2, <1>3, <1>4, <1>5, <1>6 DEF Table

\* A conflict is mutual.
LEMMA ConflictIsMutual ==
    ASSUME NEW a, NEW b
    PROVE  Conflict(a, b) <=> Conflict(b, a)
<1>1. Conflict(a, b) => Conflict(b, a)
  BY DEF Conflict
<1>2. Conflict(b, a) => Conflict(a, b)
  BY DEF Conflict
<1>3. QED
  BY <1>1, <1>2

\* The row an UPDATE leaves is a row of the same table.
LEMMA UpdatedRow ==
    ASSUME NEW r \in Req, NEW row \in Row,
           call[r] \in Call, call[r].op \in {"update", "delete"},
           loaded[r] \in Row
    PROVE  /\ Updated(r, row) \in Row
           /\ Updated(r, row).table = row.table
<1> DEFINE k == [c \in Column |-> IF c \in DirtyKeys(r) THEN call[r].keys[c]
                                  ELSE row.keys[c]]
           f == IF DirtyFlag(r) THEN NewFlag(call[r]) ELSE row.is_active
<1>1. k \in Keys
  BY CallShape DEF DirtyKeys, Keys, Row
<1>2. f \in BOOLEAN
  BY CallShape DEF DirtyFlag, Row
<1>3. Updated(r, row) = [row EXCEPT !.keys = k, !.is_active = f]
  BY DEF Updated, Row
<1>4. QED
  BY <1>1, <1>2, <1>3 DEF Row

\* The stored rows are typed: seeds for the seeded ids, none for requests.
LEMMA SeedRows ==
    \A x \in RowId : x \notin Req => InitialRows[x] \in Row
BY SeedAssumption DEF RowId

-----------------------------------------------------------------------------
(* Type correctness: TypeOK with ControlAt of every request is inductive.  *)

ControlInv == \A r \in Req : ControlAt(r)
TypeInv == TypeOK /\ ControlInv

\* The initial state is typed, and no request has started.
LEMMA TypeInit == Init => TypeInv
<1> SUFFICES ASSUME Init PROVE TypeInv
  OBVIOUS
<1>1. TypeOK
  BY SeedRows DEF Init, TypeOK
<1>2. ControlInv
  BY DEF Init, ControlInv, ControlAt, RowId
<1>3. QED
  BY <1>1, <1>2 DEF TypeInv

\* What a step of another request, or the end of one's own, leaves a request.
LEMMA OtherKeepsControl ==
    ASSUME NEW o \in Req, ControlAt(o),
           pc'[o] = pc[o], call'[o] = call[o], todo'[o] = todo[o],
           loaded'[o] = loaded[o], response'[o] = response[o],
           o \in committed' <=> o \in committed,
           rows'[o] = rows[o] \/ rows[o] # None,
           \A x \in RowId : rows[x] # None => /\ rows'[x] # None
                                              /\ rows'[x].table = rows[x].table,
           TypeOK
    PROVE  ControlAt(o)'
<1>1. call[o] # None /\ call[o].op \in {"update", "delete"}
      => call[o].id \in RowId
  BY CallShape DEF TypeOK
<1>2. QED
  BY <1>1 DEF ControlAt

\* A request that is answered without a commit keeps the types.
LEMMA AnswerKeepsTypes ==
    ASSUME TypeInv, NEW r \in Req,
           NEW answer \in {"ok", "client_error", "unavailable"},
           Close(r, answer), UNCHANGED <<rows, committed>>,
           r \in committed => call[r] # None
    PROVE  TypeInv'
<1>1. TypeOK'
  BY DEF TypeInv, TypeOK, Close
<1>2. ASSUME NEW o \in Req PROVE ControlAt(o)'
  <2>1. CASE o = r
    BY <2>1 DEF TypeInv, TypeOK, ControlInv, ControlAt, Close
  <2>2. CASE o # r
    BY <2>2, OtherKeepsControl DEF TypeInv, TypeOK, ControlInv, Close
  <2>3. QED
    BY <2>1, <2>2
<1>3. QED
  BY <1>1, <1>2 DEF TypeInv, ControlInv

\* An error answer keeps the types.
LEMMA RollbackKeepsTypes ==
    ASSUME TypeInv, NEW r \in Req, Reject(r) \/ Unavailable(r)
    PROVE  TypeInv'
<1>1. r \in committed => call[r] # None
  BY DEF TypeInv, ControlInv, ControlAt
<1>2. QED
  BY <1>1, AnswerKeepsTypes DEF Reject, Unavailable

\* A received call starts with its lookups or by loading its row.
LEMMA ReceiveKeepsTypes ==
    ASSUME TypeInv, NEW r \in Req, NEW q \in Workload, Receive(r, q)
    PROVE  TypeInv'
<1>1. q \in Call /\ q # None
  BY RequestAssumption, NoneAssumption
<1>2. q.table \in Table
  BY <1>1, CallShape
<1>3. TypeOK'
  BY <1>1, <1>2, LookupColumns
     DEF TypeInv, TypeOK, Receive, LookupOrWrite
<1>4. ASSUME NEW o \in Req PROVE ControlAt(o)'
  <2>1. CASE o = r
    BY <1>1, <2>1
       DEF TypeInv, TypeOK, ControlInv, ControlAt, Receive, LookupOrWrite
  <2>2. CASE o # r
    BY <2>2, OtherKeepsControl DEF TypeInv, TypeOK, ControlInv, Receive
  <2>3. QED
    BY <2>1, <2>2
<1>5. QED
  BY <1>3, <1>4 DEF TypeInv, ControlInv

\* Loading the row keeps the types.
LEMMA LoadKeepsTypes ==
    ASSUME TypeInv, NEW r \in Req, Load(r)
    PROVE  TypeInv'
<1>1. CASE Reject(r)
  BY <1>1, RollbackKeepsTypes
<1>2. CASE ~Reject(r)
  <2> DEFINE columns == IF call[r].op = "update"
                        THEN Tables[call[r].table].lookups.update
                             \cap Given(call[r])
                        ELSE {}
  <2>1. /\ call[r] \in Call
        /\ call[r].op \in {"update", "delete"}
        /\ call[r].id \in RowId
        /\ call[r].table \in Table
    BY CallShape DEF Load, TypeInv, TypeOK, ControlInv, ControlAt
  <2>2. /\ pc[r] = "load"
        /\ Visible(call[r].table, call[r].id)
        /\ loaded' = [loaded EXCEPT ![r] = rows[call[r].id]]
        /\ todo' = [todo EXCEPT ![r] = columns]
        /\ Continue(r, LookupOrWrite(columns))
        /\ UNCHANGED write
    BY <1>2 DEF Load
  <2>3. rows[call[r].id] \in Row
    BY <2>1, <2>2 DEF Visible, TypeInv, TypeOK
  <2>4. columns \subseteq Column /\ columns \subseteq Given(call[r])
        /\ (call[r].op = "delete" => columns = {})
        /\ (call[r].op = "update"
            => columns \subseteq Tables[call[r].table].lookups[call[r].op])
    BY <2>1, LookupColumns
  <2> HIDE DEF columns
  <2>5. TypeOK'
    BY <2>2, <2>3, <2>4 DEF TypeInv, TypeOK, Continue, LookupOrWrite
  <2>6. ASSUME NEW o \in Req PROVE ControlAt(o)'
    <3>1. CASE o = r
      BY <2>1, <2>2, <2>3, <2>4, <3>1, NoneAssumption
         DEF TypeInv, TypeOK, ControlInv, ControlAt, Continue, Visible,
             LookupOrWrite
    <3>2. CASE o # r
      BY <2>2, <3>2, OtherKeepsControl
         DEF TypeInv, TypeOK, ControlInv, Continue
    <3>3. QED
      BY <3>1, <3>2
  <2>7. QED
    BY <2>5, <2>6 DEF TypeInv, ControlInv
<1>3. QED
  BY <1>1, <1>2

\* An existence check keeps the types.
LEMMA LookupKeepsTypes ==
    ASSUME TypeInv, NEW r \in Req, Lookup(r)
    PROVE  TypeInv'
<1>1. CASE Reject(r)
  BY <1>1, RollbackKeepsTypes
<1>2. CASE ~Reject(r)
  <2>1. PICK c \in todo[r] :
          /\ pc[r] = "lookup"
          /\ todo' = [todo EXCEPT ![r] = @ \ {c}]
          /\ Continue(r, LookupOrWrite(todo[r] \ {c}))
          /\ UNCHANGED <<loaded, write>>
    BY <1>2 DEF Lookup
  <2>2. TypeOK'
    BY <2>1 DEF TypeInv, TypeOK, Continue, LookupOrWrite
  <2>3. ASSUME NEW o \in Req PROVE ControlAt(o)'
    <3>1. CASE o = r
      BY <2>1, <3>1
         DEF TypeInv, TypeOK, ControlInv, ControlAt, Continue, LookupOrWrite
    <3>2. CASE o # r
      BY <2>1, <3>2, OtherKeepsControl
         DEF TypeInv, TypeOK, ControlInv, Continue
    <3>3. QED
      BY <3>1, <3>2
  <2>4. QED
    BY <2>2, <2>3 DEF TypeInv, ControlInv
<1>3. QED
  BY <1>1, <1>2

\* The row an INSERT or UPDATE is about to store, and its id.
StoredId(r) == IF call[r].op = "create" THEN r ELSE call[r].id
StoredRow(r) ==
    IF call[r].op = "create" THEN NewRow(call[r])
    ELSE Updated(r, rows[call[r].id])

\* They are typed while the request can write.
LEMMA StoredTypes ==
    ASSUME TypeInv, NEW r \in Req, pc[r] \in {"write", "commit"}
    PROVE  /\ call[r] \in Call
           /\ StoredId(r) \in RowId
           /\ StoredRow(r) \in Row
           /\ StoredRow(r).table = call[r].table
           /\ call[r].op # "create"
              => /\ loaded[r] \in Row
                 /\ rows[call[r].id] \in Row
                 /\ rows[call[r].id].table = call[r].table
<1>1. call[r] \in Call /\ r \in RowId
  BY DEF TypeInv, TypeOK, ControlInv, ControlAt, RowId
<1>2. CASE call[r].op = "create"
  BY <1>1, <1>2, CallShape DEF StoredId, StoredRow, NewRow
<1>3. CASE call[r].op # "create"
  <2>1. /\ call[r].op \in {"update", "delete"}
        /\ call[r].id \in RowId
    BY <1>1, <1>3, CallShape
  <2>2. /\ loaded[r] \in Row
        /\ rows[call[r].id] \in Row
        /\ rows[call[r].id].table = call[r].table
    BY <1>3, <2>1 DEF TypeInv, TypeOK, ControlInv, ControlAt
  <2>3. QED
    BY <1>1, <1>3, <2>1, <2>2, UpdatedRow DEF StoredId, StoredRow
<1>4. QED
  BY <1>2, <1>3

\* What INSERT and UPDATE have in common: the row is stored under its locks,
\* or there is nothing to write, or the request is answered with an error.
LEMMA WriteCases ==
    ASSUME TypeInv, NEW r \in Req, Insert(r) \/ Update(r)
    PROVE  /\ pc[r] = "write"
           /\ \/ Reject(r) \/ Unavailable(r)
              \/ /\ Continue(r, "commit") /\ UNCHANGED session
                 /\ call[r].op # "create"
              \/ /\ Continue(r, "commit")
                 /\ UNCHANGED <<todo, loaded>>
                 /\ write' = [write EXCEPT ![r] = [id |-> StoredId(r),
                                                   row |-> StoredRow(r)]]
                 /\ ~KeyBusy(r, StoredId(r), StoredRow(r))
                 /\ ~KeyTaken(StoredId(r), StoredRow(r))
                 /\ call[r].op # "create" => ~RowLocked(r, StoredId(r))
<1>1. CASE Insert(r)
  BY <1>1 DEF Insert, Store, StoredId, StoredRow
<1>2. CASE Update(r)
  BY <1>2 DEF Update, Store, StoredId, StoredRow
<1>3. QED
  BY <1>1, <1>2

\* Storing a row, or nothing, keeps the types.
LEMMA WriteKeepsTypes ==
    ASSUME TypeInv, NEW r \in Req, Insert(r) \/ Update(r)
    PROVE  TypeInv'
<1>1. CASE Reject(r) \/ Unavailable(r)
  BY <1>1, RollbackKeepsTypes
<1>2. CASE ~(Reject(r) \/ Unavailable(r))
  <2>1. /\ pc[r] = "write"
        /\ Continue(r, "commit")
        /\ UNCHANGED <<todo, loaded>>
        /\ \/ UNCHANGED write
           \/ write' = [write EXCEPT ![r] = [id |-> StoredId(r),
                                             row |-> StoredRow(r)]]
    BY <1>2, WriteCases DEF session
  <2>2. TypeOK'
    BY <2>1, StoredTypes DEF TypeInv, TypeOK, Continue
  <2>3. ASSUME NEW o \in Req PROVE ControlAt(o)'
    <3>1. CASE o = r
      BY <2>1, <3>1 DEF TypeInv, TypeOK, ControlInv, ControlAt, Continue
    <3>2. CASE o # r
      BY <2>1, <3>2, OtherKeepsControl
         DEF TypeInv, TypeOK, ControlInv, Continue
    <3>3. QED
      BY <3>1, <3>2
  <2>4. QED
    BY <2>2, <2>3 DEF TypeInv, ControlInv
<1>3. QED
  BY <1>1, <1>2

\* A COMMIT installs the flushed row, a new one for a create and a version of
\* the same table's row otherwise.
LEMMA CommitEffect ==
    ASSUME TypeInv, NEW r \in Req, WriteAt(r), Commit(r)
    PROVE  /\ rows' = IF write[r] = None THEN rows
                      ELSE [rows EXCEPT ![StoredId(r)] = StoredRow(r)]
           /\ rows' \in [RowId -> Row \cup {None}]
           /\ \A x \in RowId :
                rows[x] # None => /\ rows'[x] # None
                                  /\ rows'[x].table = rows[x].table
           /\ \A o \in Req : rows'[o] = rows[o] \/ rows[o] # None \/ o = r
           /\ pc[r] = "commit" /\ call[r] # None
           /\ committed' = committed \cup {r}
<1>1. /\ pc[r] = "commit" /\ call[r] # None
      /\ r \notin committed /\ rows[r] = None
  BY DEF Commit, TypeInv, ControlInv, ControlAt
<1>2. write[r] # None
      => write[r].id = StoredId(r) /\ write[r].row = StoredRow(r)
  <2>1. write[r] # None
        => write[r] = [id |-> StoredId(r), row |-> StoredRow(r)]
    BY DEF WriteAt, StoredId, StoredRow
  <2>2. QED
    BY <2>1
<1>3. rows' = IF write[r] = None THEN rows
              ELSE [rows EXCEPT ![StoredId(r)] = StoredRow(r)]
  BY <1>2 DEF Commit
<1>4. /\ StoredId(r) \in RowId
      /\ StoredRow(r) \in Row
      /\ call[r].op = "create" => StoredId(r) = r
      /\ call[r].op # "create"
         => /\ StoredId(r) = call[r].id
            /\ rows[StoredId(r)] \in Row
            /\ rows[StoredId(r)].table = StoredRow(r).table
  BY <1>1, StoredTypes DEF StoredId
<1>5. None \notin Row
  BY NoneAssumption
<1>6. rows \in [RowId -> Row \cup {None}]
  BY DEF TypeInv, TypeOK
<1>7. rows' \in [RowId -> Row \cup {None}]
  BY <1>3, <1>4, <1>6
<1>8. ASSUME NEW x \in RowId, rows[x] # None
      PROVE  rows'[x] # None /\ rows'[x].table = rows[x].table
  <2>1. CASE write[r] = None \/ x # StoredId(r)
    <3>1. rows'[x] = rows[x]
      BY <1>3, <1>6, <2>1
    <3>2. QED
      BY <1>8, <3>1
  <2>2. CASE write[r] # None /\ x = StoredId(r)
    <3>1. rows'[x] = StoredRow(r)
      BY <1>3, <1>6, <2>2
    <3>2. call[r].op # "create"
      BY <1>1, <1>4, <1>8, <2>2
    <3>3. QED
      BY <1>4, <1>5, <2>2, <3>1, <3>2
  <2>3. QED
    BY <2>1, <2>2
<1>9. ASSUME NEW o \in Req
      PROVE  rows'[o] = rows[o] \/ rows[o] # None \/ o = r
  <2>1. o \in RowId
    BY DEF RowId
  <2>2. CASE write[r] = None \/ o # StoredId(r)
    BY <1>3, <1>6, <2>1, <2>2
  <2>3. CASE o = StoredId(r)
    BY <1>4, <1>5, <2>3
  <2>4. QED
    BY <2>2, <2>3
<1>10. QED
  BY <1>1, <1>3, <1>7, <1>8, <1>9 DEF Commit

\* A COMMIT keeps the types.
LEMMA CommitKeepsTypes ==
    ASSUME TypeInv, NEW r \in Req, WriteAt(r), Commit(r)
    PROVE  TypeInv'
<1>1. /\ rows' \in [RowId -> Row \cup {None}]
      /\ \A x \in RowId :
           rows[x] # None => /\ rows'[x] # None
                             /\ rows'[x].table = rows[x].table
      /\ \A o \in Req : rows'[o] = rows[o] \/ rows[o] # None \/ o = r
      /\ pc[r] = "commit" /\ call[r] # None
      /\ committed' = committed \cup {r}
  BY CommitEffect
<1>2. /\ call' = call
      /\ \/ Close(r, "ok")
         \/ /\ pc' = [pc EXCEPT ![r] = "refresh"]
            /\ write' = [write EXCEPT ![r] = None]
            /\ UNCHANGED <<todo, loaded, response>>
  BY DEF Commit, Close
<1>3. TypeOK'
  BY <1>1, <1>2 DEF TypeInv, TypeOK, Close
<1>4. ASSUME NEW o \in Req PROVE ControlAt(o)'
  <2>1. CASE o = r
    <3>1. /\ pc'[r] \in {"refresh", "done"}
          /\ response'[r] # "none" => pc'[r] = "done"
          /\ loaded'[r] = None \/ loaded'[r] = loaded[r]
      BY <1>1, <1>2 DEF TypeInv, TypeOK, ControlInv, ControlAt, Close
    <3>2. loaded[r] # None => call[r] \in Call /\ call[r].id \in RowId
      BY <1>1, CallShape DEF TypeInv, TypeOK, ControlInv, ControlAt
    <3>3. r \in committed'
      BY <1>1
    <3>4. QED
      BY <1>1, <1>2, <2>1, <3>1, <3>2, <3>3
         DEF TypeInv, ControlInv, ControlAt
  <2>2. CASE o # r
    BY <1>1, <1>2, <2>2, OtherKeepsControl
       DEF TypeInv, TypeOK, ControlInv, Close
  <2>3. QED
    BY <2>1, <2>2
<1>5. QED
  BY <1>3, <1>4 DEF TypeInv, ControlInv

\* What a step does to the table and to other sessions, by its kind.
Works(r) ==
    \/ \E q \in Workload : Receive(r, q)
    \/ Refuse(r) \/ Step(r) \/ Fail(r)

WriteInv == \A r \in Req : WriteAt(r)

\* Every step keeps the types, given what a commit finds.
LEMMA TypeStep ==
    ASSUME TypeInv, WriteInv, [Next]_vars
    PROVE  TypeInv'
<1>1. ASSUME NEW r \in Req, Works(r) PROVE TypeInv'
  <2>1. CASE \E q \in Workload : Receive(r, q)
    BY <2>1, ReceiveKeepsTypes
  <2>2. CASE Refuse(r) \/ Fail(r)
    BY <2>2, RollbackKeepsTypes DEF Refuse, Fail
  <2>3. CASE Load(r) \/ Lookup(r)
    BY <2>3, LoadKeepsTypes, LookupKeepsTypes
  <2>4. CASE Insert(r) \/ Update(r)
    BY <2>4, WriteKeepsTypes
  <2>5. CASE Commit(r)
    BY <2>5, CommitKeepsTypes DEF WriteInv
  <2>6. CASE Refresh(r)
    <3>1. call[r] # None
      BY <2>6 DEF Refresh, TypeInv, ControlInv, ControlAt
    <3>2. QED
      BY <2>6, <3>1, AnswerKeepsTypes DEF Refresh
  <2>7. QED
    BY <1>1, <2>1, <2>2, <2>3, <2>4, <2>5, <2>6 DEF Works, Step
<1>2. CASE UNCHANGED vars
  BY <1>2 DEF vars, TypeInv, TypeOK, ControlInv, ControlAt
<1>3. QED
  BY <1>1, <1>2 DEF Next, Quiescent, Works

-----------------------------------------------------------------------------
(* Unique keys: a flushed row has its id and its keys to itself.           *)

KeyInv ==
    /\ KeysUnique
    /\ WriteInv
    /\ \A r \in Req : Exclusive(r)

\* The seeds have no conflict, and nothing is flushed.
LEMMA KeyInit == Init => KeyInv
<1> SUFFICES ASSUME Init PROVE KeyInv
  OBVIOUS
<1>1. KeysUnique
  BY SeedAssumption DEF Init, KeysUnique, RowId
<1>2. QED
  BY <1>1 DEF Init, KeyInv, WriteInv, WriteAt, Exclusive

\* A step that leaves a request and the row it changes alone keeps what the
\* request has flushed.
LEMMA OtherKeepsWrite ==
    ASSUME NEW o \in Req, WriteAt(o),
           write'[o] = write[o], pc'[o] = pc[o], call'[o] = call[o],
           loaded'[o] = loaded[o],
           write[o] # None /\ call[o].op # "create"
           => rows'[call[o].id] = rows[call[o].id]
    PROVE  WriteAt(o)'
<1> SUFFICES ASSUME write[o] # None PROVE WriteAt(o)'
  BY DEF WriteAt
<1>1. DirtyKeys(o)' = DirtyKeys(o) /\ (DirtyFlag(o)' <=> DirtyFlag(o))
  BY DEF DirtyKeys, DirtyFlag
<1>2. ASSUME call[o].op # "create"
      PROVE  Updated(o, rows[call[o].id])' = Updated(o, rows[call[o].id])
  <2> DEFINE K == [c \in Column |->
                     IF c \in DirtyKeys(o) THEN call[o].keys[c]
                     ELSE rows[call[o].id].keys[c]]
             F == IF DirtyFlag(o) THEN NewFlag(call[o])
                  ELSE rows[call[o].id].is_active
  <2>1. rows'[call[o].id] = rows[call[o].id]
    BY <1>2
  <2>2. K' = K
    BY <1>1, <2>1
  <2>3. F' = F
    BY <1>1, <2>1
  <2> HIDE DEF K, F
  <2>4. [rows[call[o].id] EXCEPT !.keys = K, !.is_active = F]'
        = [rows[call[o].id] EXCEPT !.keys = K, !.is_active = F]
    BY <2>1, <2>2, <2>3
  <2>5. QED
    BY <2>4 DEF Updated, K, F
<1>3. QED
  BY <1>2 DEF WriteAt

\* A step that flushes and commits nothing keeps the keys apart.
LEMMA QuietStepKeepsKeys ==
    ASSUME TypeInv, KeyInv, NEW r \in Req,
           rows' = rows,
           \A o \in Req \ {r} : /\ write'[o] = write[o]
                                /\ pc'[o] = pc[o]
                                /\ call'[o] = call[o]
                                /\ loaded'[o] = loaded[o],
           write'[r] = None,
           pc'[r] = "commit" => call'[r].op # "create"
    PROVE  KeyInv'
<1>1. KeysUnique'
  BY DEF KeyInv, KeysUnique
<1>2. ASSUME NEW o \in Req PROVE WriteAt(o)'
  <2>1. CASE o = r
    BY <2>1 DEF WriteAt
  <2>2. CASE o # r
    BY <2>2, OtherKeepsWrite DEF KeyInv, WriteInv
  <2>3. QED
    BY <2>1, <2>2
<1>3. ASSUME NEW o \in Req PROVE Exclusive(o)'
  BY DEF KeyInv, Exclusive, RowLocked, KeyTaken
<1>4. QED
  BY <1>1, <1>2, <1>3 DEF KeyInv, WriteInv

\* A flush keeps the keys apart: the statement has waited for every session
\* with the row or the key, and found no committed row with the key.
LEMMA FlushKeepsKeys ==
    ASSUME TypeInv, KeyInv, NEW r \in Req,
           pc[r] = "write",
           Continue(r, "commit"),
           UNCHANGED <<todo, loaded>>,
           write' = [write EXCEPT ![r] = [id |-> StoredId(r),
                                          row |-> StoredRow(r)]],
           ~KeyBusy(r, StoredId(r), StoredRow(r)),
           ~KeyTaken(StoredId(r), StoredRow(r)),
           call[r].op # "create" => ~RowLocked(r, StoredId(r))
    PROVE  KeyInv'
<1> DEFINE w == [id |-> StoredId(r), row |-> StoredRow(r)]
<1>1. /\ UNCHANGED <<rows, call, loaded>>
      /\ pc' = [pc EXCEPT ![r] = "commit"]
      /\ write'[r] = w
      /\ \A o \in Req \ {r} : write'[o] = write[o]
  BY DEF Continue, TypeInv, TypeOK
<1>2. KeysUnique'
  BY <1>1 DEF KeyInv, KeysUnique
<1>3. ASSUME NEW o \in Req PROVE WriteAt(o)'
  <2>1. CASE o = r
    <3>1. Updated(r, rows[call[r].id])' = Updated(r, rows[call[r].id])
      BY <1>1 DEF Updated, DirtyKeys, DirtyFlag
    <3>2. pc'[r] = "commit"
      BY <1>1 DEF TypeInv, TypeOK
    <3>3. w # None
      <4>1. w \in [id: RowId, row: Row]
        BY StoredTypes
      <4>2. QED
        BY <4>1, NoneAssumption
    <3>4. QED
      BY <1>1, <2>1, <3>1, <3>2, <3>3 DEF WriteAt, StoredId, StoredRow
  <2>2. CASE o # r
    BY <1>1, <2>2, OtherKeepsWrite
       DEF KeyInv, WriteInv, TypeInv, TypeOK
  <2>3. QED
    BY <2>1, <2>2
<1>4. ASSUME NEW o \in Req \ {r}, write[o] # None
      PROVE  write[o].id # w.id /\ ~Conflict(write[o].row, w.row)
  <2>1. write[o].id # w.id
    <3>1. CASE call[r].op # "create"
      BY <1>4, <3>1 DEF RowLocked
    <3>2. CASE call[r].op = "create"
      <4>1. w.id = r /\ rows[r] = None
        BY <3>2 DEF StoredId, TypeInv, ControlInv, ControlAt
      <4>2. write[o].id = o \/ rows[write[o].id] # None
        <5>1. pc[o] = "commit" /\ WriteAt(o) /\ ControlAt(o)
          BY <1>4 DEF KeyInv, WriteInv, WriteAt, TypeInv, ControlInv
        <5>2. CASE call[o].op = "create"
          <6>1. write[o] = [id |-> o, row |-> NewRow(call[o])]
            BY <1>4, <5>1, <5>2 DEF WriteAt
          <6>2. QED
            BY <6>1
        <5>3. CASE call[o].op # "create"
          <6>1. write[o] = [id |-> call[o].id,
                            row |-> Updated(o, rows[call[o].id])]
            BY <1>4, <5>1, <5>3 DEF WriteAt
          <6>2. rows[call[o].id] # None
            BY <5>1, <5>3 DEF ControlAt
          <6>3. QED
            BY <6>1, <6>2
        <5>4. QED
          BY <5>2, <5>3
      <4>3. QED
        BY <4>1, <4>2
    <3>3. QED
      BY <3>1, <3>2
  <2>2. QED
    BY <1>4, <2>1 DEF KeyBusy
<1>5. ASSUME NEW o \in Req PROVE Exclusive(o)'
  <2>1. CASE o = r
    BY <1>1, <1>4, <2>1 DEF Exclusive, RowLocked, KeyTaken
  <2>2. CASE o # r
    <3>1. SUFFICES ASSUME write[o] # None PROVE Exclusive(o)'
      BY <1>1, <2>2 DEF Exclusive
    <3>2. ~RowLocked(o, write[o].id)'
      BY <1>1, <1>4, <2>2, <3>1 DEF KeyInv, Exclusive, RowLocked
    <3>3. ~KeyTaken(write[o].id, write[o].row)'
      BY <1>1, <3>1, <2>2 DEF KeyInv, Exclusive, KeyTaken
    <3>4. ~Conflict(w.row, write[o].row)
      BY <1>4, <2>2, <3>1, ConflictIsMutual
    <3>5. QED
      BY <1>1, <2>2, <3>1, <3>2, <3>3, <3>4 DEF KeyInv, Exclusive
  <2>3. QED
    BY <2>1, <2>2
<1>6. QED
  BY <1>2, <1>3, <1>5 DEF KeyInv, WriteInv

\* A commit keeps the keys apart: what it installs was exclusive.
LEMMA CommitKeepsKeys ==
    ASSUME TypeInv, KeyInv, NEW r \in Req, Commit(r)
    PROVE  KeyInv'
<1>1. /\ WriteAt(r)
      /\ write'[r] = None /\ pc'[r] # "commit"
      /\ call' = call
      /\ \A o \in Req \ {r} : /\ write'[o] = write[o]
                              /\ pc'[o] = pc[o]
                              /\ loaded'[o] = loaded[o]
  BY DEF KeyInv, WriteInv, Commit, Close, TypeInv, TypeOK
<1>2. CASE write[r] = None
  BY <1>1, <1>2, QuietStepKeepsKeys DEF Commit
<1>3. CASE write[r] # None
  <2> DEFINE id == write[r].id
             row == write[r].row
  <2>1. /\ id \in RowId
        /\ rows' = [rows EXCEPT ![id] = row]
        /\ ~KeyTaken(id, row)
        /\ ~RowLocked(r, id)
    BY <1>3 DEF Commit, KeyInv, Exclusive, TypeInv, TypeOK
  <2>2. \A x \in RowId : rows'[x] = IF x = id THEN row ELSE rows[x]
    BY <2>1 DEF TypeInv, TypeOK
  <2>3. KeysUnique'
    <3>1. ASSUME NEW x \in RowId, x # id, rows[x] # None
          PROVE  ~Conflict(rows[x], row) /\ ~Conflict(row, rows[x])
      BY <2>1, <3>1, ConflictIsMutual DEF KeyTaken
    <3>2. QED
      BY <2>2, <3>1 DEF KeyInv, KeysUnique
  <2>4. ASSUME NEW o \in Req PROVE WriteAt(o)'
    <3>1. CASE o = r
      BY <1>1, <3>1 DEF WriteAt
    <3>2. CASE o # r
      <4>1. write[o] # None => write[o].id # id
        BY <2>1, <3>2 DEF RowLocked
      <4>2. call[o].op # "create" /\ write[o] # None
            => /\ write[o].id = call[o].id
               /\ call[o].id \in RowId
               /\ rows'[call[o].id] = rows[call[o].id]
        <5>1. SUFFICES ASSUME call[o].op # "create", write[o] # None
                       PROVE  /\ write[o].id = call[o].id
                              /\ call[o].id \in RowId
                              /\ rows'[call[o].id] = rows[call[o].id]
          OBVIOUS
        <5>2. write[o] = [id |-> call[o].id,
                          row |-> Updated(o, rows[call[o].id])]
          BY <5>1 DEF KeyInv, WriteInv, WriteAt
        <5>3. write[o].id \in RowId
          BY <5>1 DEF TypeInv, TypeOK
        <5>4. QED
          BY <2>2, <4>1, <5>1, <5>2, <5>3
      <4>3. QED
        BY <1>1, <3>2, <4>2, OtherKeepsWrite DEF KeyInv, WriteInv
    <3>3. QED
      BY <3>1, <3>2
  <2>5. ASSUME NEW o \in Req PROVE Exclusive(o)'
    <3>1. CASE o = r
      BY <1>1, <3>1 DEF Exclusive
    <3>2. CASE o # r /\ write[o] = None
      BY <1>1, <3>2 DEF Exclusive
    <3>3. CASE o # r /\ write[o] # None
      <4>1. ~Conflict(row, write[o].row)
        BY <1>3, <3>3 DEF KeyInv, Exclusive
      <4>2. ~KeyTaken(write[o].id, write[o].row)'
        BY <1>1, <2>2, <3>3, <4>1 DEF KeyInv, Exclusive, KeyTaken
      <4>3. QED
        BY <1>1, <3>3, <4>2 DEF KeyInv, Exclusive, RowLocked
    <3>4. QED
      BY <3>1, <3>2, <3>3
  <2>6. QED
    BY <2>3, <2>4, <2>5 DEF KeyInv, WriteInv
<1>4. QED
  BY <1>2, <1>3

\* Every step keeps the keys apart.
LEMMA KeyStep ==
    ASSUME TypeInv, KeyInv, [Next]_vars
    PROVE  KeyInv'
<1>1. ASSUME NEW r \in Req, Works(r) PROVE KeyInv'
  <2>1. CASE Commit(r)
    BY <2>1, CommitKeepsKeys
  <2>2. CASE Insert(r) \/ Update(r)
    <3>1. CASE Reject(r) \/ Unavailable(r)
      BY <3>1, QuietStepKeepsKeys
         DEF Reject, Unavailable, Close, TypeInv, TypeOK
    <3>2. CASE /\ Continue(r, "commit") /\ UNCHANGED session
               /\ call[r].op # "create"
      <4>1. write[r] = None
        BY <2>2, WriteCases DEF KeyInv, WriteInv, WriteAt
      <4>2. QED
        BY <3>2, <4>1, QuietStepKeepsKeys
           DEF Continue, session, TypeInv, TypeOK
    <3>3. QED
      BY <2>2, <3>1, <3>2, WriteCases, FlushKeepsKeys
  <2>3. CASE Load(r) \/ Lookup(r) \/ \E q \in Workload : Receive(r, q)
    <3>1. write[r] = None
      BY <2>3 DEF Load, Lookup, Receive, KeyInv, WriteInv, WriteAt
    <3>2. CASE Reject(r)
      BY <3>2, QuietStepKeepsKeys DEF Reject, Close, TypeInv, TypeOK
    <3>3. CASE ~Reject(r)
      <4>1. /\ rows' = rows /\ write' = write /\ pc'[r] # "commit"
            /\ \A o \in Req \ {r} : /\ pc'[o] = pc[o]
                                    /\ call'[o] = call[o]
                                    /\ loaded'[o] = loaded[o]
        BY <2>3, <3>3 DEF Load, Lookup, Receive, Continue, LookupOrWrite,
                              TypeInv, TypeOK
      <4>2. QED
        BY <3>1, <4>1, QuietStepKeepsKeys
    <3>4. QED
      BY <3>2, <3>3
  <2>4. CASE Refuse(r) \/ Fail(r) \/ Refresh(r)
    BY <2>4, QuietStepKeepsKeys
       DEF Refuse, Fail, Refresh, Reject, Unavailable, Close, TypeInv, TypeOK
  <2>5. QED
    BY <1>1, <2>1, <2>2, <2>3, <2>4 DEF Works, Step
<1>2. CASE UNCHANGED vars
  <2>1. KeysUnique'
    BY <1>2 DEF vars, KeyInv, KeysUnique
  <2>2. WriteInv'
    BY <1>2, OtherKeepsWrite DEF vars, KeyInv, WriteInv
  <2>3. \A r \in Req : Exclusive(r)'
    BY <1>2 DEF vars, KeyInv, Exclusive, RowLocked, KeyTaken
  <2>4. QED
    BY <2>1, <2>2, <2>3 DEF KeyInv
<1>3. QED
  BY <1>1, <1>2 DEF Next, Quiescent, Works

\* The parts together are an inductive invariant of the specification.
THEOREM RegistryInvariant == Spec => []RegistryInv
<1> DEFINE Inv == TypeInv /\ KeyInv
<1>1. Init => Inv
  BY TypeInit, KeyInit
<1>2. Inv /\ [Next]_vars => Inv'
  BY TypeStep, KeyStep DEF KeyInv
<1>3. Inv => RegistryInv
  BY DEF TypeInv, ControlInv, KeyInv, WriteInv, RegistryInv
<1>4. QED
  BY <1>1, <1>2, <1>3, PTL DEF Spec

\* The variables keep their types.
THEOREM TypeCorrect == Spec => []TypeOK
<1>1. RegistryInv => TypeOK
  BY DEF RegistryInv
<1>2. QED
  BY <1>1, RegistryInvariant, PTL

\* Two rows of a table, active or not, never share a unique key.
THEOREM UniqueKeys == Spec => []KeysUnique
<1>1. RegistryInv => KeysUnique
  BY DEF RegistryInv
<1>2. QED
  BY <1>1, RegistryInvariant, PTL

-----------------------------------------------------------------------------
(* What a commit makes of the row, whatever became of it since the load.   *)

\* Only tables whose SELECTs ask for is_active have a DELETE, and of the
\* others only users have a PATCH that sets is_active.
LEMMA FlagRules ==
    ASSUME NEW t \in Table, t # "users", Tables[t].all_rows
    PROVE  ~Tables[t].flagged /\ ~Tables[t].deletable
<1>1. t = "advisors"
  <2>1. ~Customers.all_rows /\ ~Schemes.all_rows /\ ~Folios.all_rows
        /\ ~Navs.all_rows
    BY DEF Customers, Schemes, Folios, Navs
  <2>2. QED
    BY <2>1 DEF Table, Tables
<1>2. QED
  BY <1>1 DEF Tables, Advisors

\* An UPDATE makes an inactive row active only in users.
LEMMA UpdateNeverRestores ==
    ASSUME TypeInv, NEW r \in Req, pc[r] = "commit", call[r].op # "create",
           ~rows[call[r].id].is_active, call[r].table # "users"
    PROVE  ~Updated(r, rows[call[r].id]).is_active
<1> DEFINE row == rows[call[r].id]
<1>1. /\ call[r] \in Call /\ loaded[r] \in Row /\ row \in Row
      /\ call[r].op \in {"update", "delete"}
      /\ call[r].table \in Table
      /\ Tables[call[r].table].all_rows \/ loaded[r].is_active
  BY StoredTypes, CallShape DEF TypeInv, ControlInv, ControlAt
<1>2. CASE Tables[call[r].table].all_rows
  <2>1. /\ ~Tables[call[r].table].flagged
        /\ ~Tables[call[r].table].deletable
    BY <1>1, <1>2, FlagRules
  <2>2. NewFlag(call[r]) = None
    BY <1>1, <2>1 DEF Call, PatchFits, NewFlag
  <2>3. ~DirtyFlag(r)
    BY <2>2 DEF DirtyFlag
  <2>4. QED
    BY <1>1, <2>3 DEF Updated, Row
<1>3. CASE loaded[r].is_active
  <2>1. DirtyFlag(r) => NewFlag(call[r]) = FALSE
    <3>1. NewFlag(call[r]) \in BOOLEAN \cup {None}
      BY <1>1, CallShape
    <3>2. loaded[r].is_active = TRUE
      BY <1>1, <1>3 DEF Row
    <3>3. QED
      BY <3>1, <3>2 DEF DirtyFlag
  <2>2. QED
    BY <1>1, <2>1 DEF Updated, Row
<1>4. QED
  BY <1>1, <1>2, <1>3

\* A step that does not commit leaves the table alone.
LEMMA OnlyCommitWrites ==
    ASSUME NEW r \in Req, Works(r)
    PROVE  Commit(r) \/ UNCHANGED <<rows, committed>>
BY DEF Works, Step, Receive, Refuse, Fail, Load, Lookup, Insert, Update,
       Refresh, Store, Reject, Unavailable, Continue

\* One step never makes a deleted row active.
LEMMA SoftDeleteStep ==
    ASSUME TypeInv, KeyInv, [Next]_vars,
           NEW x \in RowId, rows[x] # None, rows[x].table # "users",
           ~rows[x].is_active
    PROVE  ~rows'[x].is_active
<1>1. ASSUME NEW r \in Req, Commit(r) PROVE ~rows'[x].is_active
  <2>1. /\ rows' = IF write[r] = None THEN rows
                   ELSE [rows EXCEPT ![StoredId(r)] = StoredRow(r)]
        /\ pc[r] = "commit"
    BY <1>1, CommitEffect DEF KeyInv, WriteInv
  <2>2. CASE write[r] = None \/ x # StoredId(r)
    BY <2>1, <2>2 DEF TypeInv, TypeOK
  <2>3. CASE write[r] # None /\ x = StoredId(r)
    <3>1. call[r].op # "create"
      BY <2>1, <2>3
         DEF StoredId, TypeInv, ControlInv, ControlAt
    <3>2. rows'[x] = Updated(r, rows[call[r].id]) /\ x = call[r].id
      BY <2>1, <2>3, <3>1 DEF StoredId, StoredRow, TypeInv, TypeOK
    <3>3. call[r].table = rows[x].table
      BY <2>1, <3>1, <3>2, StoredTypes
    <3>4. QED
      BY <2>1, <3>1, <3>2, <3>3, UpdateNeverRestores
  <2>4. QED
    BY <2>2, <2>3
<1>2. ASSUME rows' = rows PROVE ~rows'[x].is_active
  BY <1>2
<1>3. QED
  BY <1>1, <1>2, OnlyCommitWrites DEF Next, Quiescent, Works, vars

\* A deleted customer, scheme, folio or NAV stays deleted: a PATCH that loaded
\* the row before the DELETE does not bring it back.
THEOREM SoftDeletionIsFinal == Spec => SoftDeleteIsFinal
<1> DEFINE Inv == TypeInv /\ KeyInv
           Final == \A x \in RowId :
                       /\ rows[x] # None
                       /\ rows[x].table # "users"
                       /\ ~rows[x].is_active
                       => ~rows'[x].is_active
<1>1. Init => Inv
  BY TypeInit, KeyInit
<1>2. Inv /\ [Next]_vars => Inv'
  BY TypeStep, KeyStep DEF KeyInv
<1>3. Inv /\ [Next]_vars => [Final]_vars
  BY SoftDeleteStep
<1>4. QED
  BY <1>1, <1>2, <1>3, PTL DEF Spec, SoftDeleteIsFinal

-----------------------------------------------------------------------------
(* Registry implements UniqueTable.                                        *)

\* UniqueTable reads the tables, calls and conflicts as Registry does.
LEMMA SameTables ==
    /\ Abstract!Column = Column
    /\ Abstract!Tables = Tables
    /\ Abstract!RowId = RowId
    /\ \A q : Abstract!Given(q) = Given(q)
    /\ \A q : Abstract!NewRow(q) = NewRow(q)
    /\ \A q : Abstract!NewFlag(q) = NewFlag(q)
    /\ \A a, b : Abstract!Conflict(a, b) <=> Conflict(a, b)
    /\ \A q : Abstract!MayBreakRule(q) <=> MayBreakRule(q)
<1>1. Abstract!Column = Column
  BY DEF Abstract!Column, Column
<1>2. Abstract!Tables = Tables
  BY DEF Abstract!Tables, Tables, Abstract!Users, Users,
         Abstract!Advisors, Advisors, Abstract!Customers, Customers,
         Abstract!Schemes, Schemes, Abstract!Folios, Folios,
         Abstract!Navs, Navs
<1>3. Abstract!RowId = RowId
  BY DEF Abstract!RowId, RowId
<1>4. ASSUME NEW q PROVE Abstract!Given(q) = Given(q)
  BY <1>1 DEF Abstract!Given, Given
<1>5. ASSUME NEW q PROVE Abstract!NewRow(q) = NewRow(q)
  BY DEF Abstract!NewRow, NewRow
<1>6. ASSUME NEW q PROVE Abstract!NewFlag(q) = NewFlag(q)
  BY DEF Abstract!NewFlag, NewFlag
<1>7. ASSUME NEW a, NEW b PROVE Abstract!Conflict(a, b) <=> Conflict(a, b)
  BY <1>1 DEF Abstract!Conflict, Conflict
<1>8. ASSUME NEW q PROVE Abstract!MayBreakRule(q) <=> MayBreakRule(q)
  BY <1>2 DEF Abstract!MayBreakRule, MayBreakRule
<1>9. QED
  BY <1>1, <1>2, <1>3, <1>4, <1>5, <1>6, <1>7, <1>8

\* The initial states correspond.
LEMMA InitImplements == Init => Abstract!Init
<1> SUFFICES ASSUME Init PROVE Abstract!Init
  OBVIOUS
<1>1. Outcome = [r \in Req |-> "none"]
  BY DEF Init, Outcome
<1>2. QED
  BY <1>1, SameTables DEF Init, Abstract!Init

\* A column that is looked up is never NULL in the call.
LEMMA LookupsHaveValues ==
    ASSUME NEW q \in Call, q.op \in {"create", "update"},
           NEW c \in Tables[q.table].lookups[q.op],
           q.op = "update" => c \in Given(q)
    PROVE  q.keys[c] # None /\ c \in Column
<1> DEFINE T == Tables[q.table]
<1>1. q.table \in Table
  BY CallShape
<1>2. /\ T.lookups.create \subseteq T.unique \ T.nullable
      /\ T.lookups.update \subseteq T.unique \ T.nullable
  <2>1. CASE q.table = "users"
    BY <2>1 DEF Tables, Users
  <2>2. CASE q.table = "advisors"
    BY <2>2 DEF Tables, Advisors
  <2>3. CASE q.table = "customers"
    BY <2>3 DEF Tables, Customers
  <2>4. CASE q.table = "schemes"
    BY <2>4 DEF Tables, Schemes
  <2>5. CASE q.table = "folios"
    BY <2>5 DEF Tables, Folios
  <2>6. CASE q.table = "navs"
    BY <2>6 DEF Tables, Navs
  <2>7. QED
    BY <1>1, <2>1, <2>2, <2>3, <2>4, <2>5, <2>6 DEF Table
<1>3. c \in Column
  BY <1>1, LookupColumns
<1>4. CASE q.op = "create"
  <2>1. KeysFit(q.table, q.keys)
    BY <1>4 DEF Call
  <2>2. c \in T.unique \ T.nullable
    BY <1>2, <1>4
  <2>3. QED
    BY <1>3, <2>1, <2>2 DEF KeysFit
<1>5. CASE q.op = "update"
  <2>1. PatchFits(q)
    BY <1>5 DEF Call
  <2>2. c \in T.unique \ T.nullable
    BY <1>2, <1>5
  <2>3. QED
    BY <1>3, <1>5, <2>1, <2>2 DEF PatchFits
<1>6. QED
  BY <1>3, <1>4, <1>5

\* What UniqueTable sees of a step that ends request r with a 4xx answer.
LEMMA RejectIsRefusal ==
    ASSUME TypeInv, NEW r \in Req, pc[r] \in {"load", "lookup", "write"},
           Reject(r),
           \/ Abstract!KeyInUse(call[r]) \/ Abstract!Missing(call[r])
           \/ Abstract!MayBreakRule(call[r])
    PROVE  Abstract!Refuse(r)
<1>1. call[r] # None /\ r \notin committed /\ response[r] = "none"
  BY DEF TypeInv, TypeOK, ControlInv, ControlAt
<1>2. /\ rows' = rows /\ call' = call /\ committed' = committed
      /\ response' = [response EXCEPT ![r] = "client_error"]
  BY DEF Reject, Close
<1>3. Outcome' = [Outcome EXCEPT ![r] = "refused"]
  BY <1>1, <1>2 DEF Outcome, TypeInv, TypeOK
<1>4. Abstract!Pending(r)
  BY <1>1 DEF Abstract!Pending, Outcome
<1>5. QED
  BY <1>2, <1>3, <1>4 DEF Abstract!Refuse

\* A step that answers nothing, or answers without a 4xx, and commits nothing
\* is not seen.
LEMMA SilentStep ==
    ASSUME TypeInv, NEW r \in Req, pc[r] # "done",
           UNCHANGED <<rows, call, committed>>,
           \/ response' = response
           \/ \E answer \in {"ok", "unavailable"} :
                response' = [response EXCEPT ![r] = answer]
    PROVE  UNCHANGED Abstract!vars
<1>1. response[r] = "none"
  BY DEF TypeInv, TypeOK, ControlInv, ControlAt
<1>2. \A o \in Req : response'[o] = "client_error"
                     <=> response[o] = "client_error"
  BY <1>1 DEF TypeInv, TypeOK
<1>3. Outcome' = Outcome
  BY <1>2 DEF Outcome
<1>4. QED
  BY <1>3 DEF Abstract!vars

\* Accepting a call is receiving it.
LEMMA ReceiveImplements ==
    ASSUME TypeInv, NEW r \in Req, NEW q \in Workload, Receive(r, q)
    PROVE  Abstract!Receive(r, q)
<1>1. call[r] = None /\ r \notin committed /\ response[r] = "none"
  BY DEF Receive, TypeInv, TypeOK, ControlInv, ControlAt
<1>2. /\ rows' = rows /\ committed' = committed /\ response' = response
      /\ call' = [call EXCEPT ![r] = q]
  BY DEF Receive
<1>3. \A o \in Req \ {r} : call'[o] = call[o]
  BY <1>2 DEF TypeInv, TypeOK
<1>4. Outcome' = Outcome
  BY <1>1, <1>2, <1>3 DEF Outcome
<1>5. QED
  BY <1>1, <1>2, <1>4 DEF Abstract!Receive

\* Loading a row is not seen, and not finding it is a true refusal.
LEMMA LoadImplements ==
    ASSUME TypeInv, NEW r \in Req, Load(r)
    PROVE  Abstract!Refuse(r) \/ UNCHANGED Abstract!vars
<1>1. pc[r] = "load" /\ call[r].op \in {"update", "delete"}
  BY DEF Load, TypeInv, ControlInv, ControlAt
<1>2. CASE \E columns : Continue(r, LookupOrWrite(columns))
  BY <1>1, <1>2, SilentStep DEF Continue
<1>3. CASE Reject(r) /\ ~Visible(call[r].table, call[r].id)
  <2>1. Abstract!Missing(call[r])
    BY <1>1, <1>3, SameTables DEF Visible, Abstract!Missing
  <2>2. QED
    BY <1>1, <1>3, <2>1, RejectIsRefusal
<1>4. CASE Reject(r) /\ MayBreakRule(call[r])
  BY <1>1, <1>4, SameTables, RejectIsRefusal
<1>5. QED
  BY <1>2, <1>3, <1>4 DEF Load

\* A lookup is not seen, and a hit is a true refusal.
LEMMA LookupImplements ==
    ASSUME TypeInv, NEW r \in Req, Lookup(r)
    PROVE  Abstract!Refuse(r) \/ UNCHANGED Abstract!vars
<1>1. /\ pc[r] = "lookup" /\ call[r] \in Call
      /\ call[r].op \in {"create", "update"}
      /\ todo[r] \subseteq Tables[call[r].table].lookups[call[r].op]
      /\ call[r].op = "update" => todo[r] \subseteq Given(call[r])
  BY DEF Lookup, TypeInv, TypeOK, ControlInv, ControlAt
<1>2. CASE Reject(r) /\ \E c \in todo[r] : Duplicates(r, c) # {}
  <2>1. PICK c \in todo[r] : Duplicates(r, c) # {}
    BY <1>2
  <2>2. call[r].keys[c] # None /\ c \in Column
    BY <1>1, LookupsHaveValues
  <2>3. PICK x \in Duplicates(r, c) : TRUE
    BY <2>1
  <2>4. /\ x \in RowId
        /\ rows[x] # None /\ rows[x].table = call[r].table
        /\ rows[x].keys[c] = call[r].keys[c]
        /\ call[r].op = "update" => x # call[r].id \/ call[r].table = "navs"
    BY <1>1, <2>3 DEF Duplicates, Hits, Visible
  <2>5. Abstract!KeyInUse(call[r])
    BY <1>1, <2>2, <2>4, SameTables DEF Abstract!KeyInUse
  <2>6. QED
    BY <1>1, <1>2, <2>5, RejectIsRefusal
<1>3. CASE ~(Reject(r) /\ \E c \in todo[r] : Duplicates(r, c) # {})
  BY <1>1, <1>3, SilentStep DEF Lookup, Continue
<1>4. QED
  BY <1>2, <1>3

\* A flush is not seen, and a constraint error is a true refusal: the key that
\* is taken is one the call asks for, as the row's own keys were unique.
LEMMA WriteImplements ==
    ASSUME TypeInv, KeyInv, NEW r \in Req, Insert(r) \/ Update(r)
    PROVE  Abstract!Refuse(r) \/ UNCHANGED Abstract!vars
<1>1. pc[r] = "write"
  BY WriteCases
<1>2. CASE Reject(r) /\ KeyTaken(StoredId(r), StoredRow(r))
  <2>1. PICK y \in RowId \ {StoredId(r)} :
               rows[y] # None /\ Conflict(rows[y], StoredRow(r))
    BY <1>2 DEF KeyTaken
  <2>2. PICK c \in Column : /\ rows[y].keys[c] # None
                            /\ rows[y].keys[c] = StoredRow(r).keys[c]
    BY <2>1 DEF Conflict
  <2>3. rows[y].table = call[r].table
    BY <1>1, <2>1, StoredTypes DEF Conflict
  <2>4. CASE call[r].op = "create"
    <3>1. StoredRow(r).keys[c] = call[r].keys[c]
      BY <2>4 DEF StoredRow, NewRow
    <3>2. Abstract!KeyInUse(call[r])
      BY <2>1, <2>2, <2>3, <2>4, <3>1, SameTables DEF Abstract!KeyInUse
    <3>3. QED
      BY <1>1, <1>2, <3>2, RejectIsRefusal
  <2>5. CASE call[r].op # "create"
    <3>1. /\ call[r] \in Call /\ call[r].id \in RowId
          /\ StoredId(r) = call[r].id
          /\ StoredRow(r) = Updated(r, rows[call[r].id])
          /\ rows[call[r].id] \in Row
          /\ rows[call[r].id].table = call[r].table
      BY <1>1, <2>5, StoredTypes DEF StoredId, StoredRow
    <3>2. StoredRow(r).keys[c] = IF c \in DirtyKeys(r) THEN call[r].keys[c]
                                 ELSE rows[call[r].id].keys[c]
      BY <3>1 DEF Updated, Row
    <3>3. c \in DirtyKeys(r)
      <4>1. SUFFICES ASSUME c \notin DirtyKeys(r) PROVE FALSE
        OBVIOUS
      <4>2. Conflict(rows[y], rows[call[r].id])
        BY <2>2, <2>3, <3>1, <3>2, <4>1 DEF Conflict
      <4>3. QED
        BY <2>1, <3>1, <4>2, NoneAssumption DEF KeyInv, KeysUnique
    <3>4. c \in Given(call[r]) /\ rows[y].keys[c] = call[r].keys[c]
      BY <2>2, <3>2, <3>3 DEF DirtyKeys
    <3>5. Abstract!KeyInUse(call[r])
      BY <2>1, <2>2, <2>3, <3>1, <3>4, SameTables DEF Abstract!KeyInUse
    <3>6. QED
      BY <1>1, <1>2, <3>5, RejectIsRefusal
  <2>6. QED
    BY <2>4, <2>5
<1>3. CASE ~(Reject(r) /\ KeyTaken(StoredId(r), StoredRow(r)))
  <2>1. Unavailable(r) \/ Continue(r, "commit")
    BY <1>3 DEF Insert, Update, Store, StoredId, StoredRow
  <2>2. QED
    BY <1>1, <2>1, SilentStep DEF Unavailable, Continue, Close
<1>4. QED
  BY <1>2, <1>3

\* What counts as a change of a row: some of the given columns are set.
LEMMA ChangeOf ==
    ASSUME NEW r \in Req, Abstract!Pending(r),
           call[r].op \in {"update", "delete"},
           NEW id, id = call[r].id, rows[id] # None,
           rows[id].table = call[r].table,
           NEW S \in SUBSET Given(call[r]),
           NEW a \in {rows[id].is_active, NewFlag(call[r])} \ {None},
           a /\ ~rows[id].is_active => rows[id].table = "users",
           NEW new, new = Abstract!Result(rows[id], call[r], S, a),
           Abstract!Free(id, new),
           rows' = [rows EXCEPT ![id] = new],
           Outcome' = [Outcome EXCEPT ![r] = "applied"],
           call' = call
    PROVE  Abstract!Change(r)
BY SameTables DEF Abstract!Change

\* A commit applies the call in one step.
LEMMA CommitImplements ==
    ASSUME TypeInv, KeyInv, NEW r \in Req, Commit(r)
    PROVE  Abstract!Create(r) \/ Abstract!Change(r)
<1>1. /\ rows' = IF write[r] = None THEN rows
                 ELSE [rows EXCEPT ![StoredId(r)] = StoredRow(r)]
      /\ pc[r] = "commit" /\ call[r] # None
      /\ committed' = committed \cup {r}
  BY CommitEffect DEF KeyInv, WriteInv
<1>2. call' = call
  BY DEF Commit, Close
<1>3. r \notin committed /\ response[r] = "none" /\ rows[r] = None
  BY <1>1 DEF TypeInv, TypeOK, ControlInv, ControlAt
<1>4. \A o \in Req \ {r} : response'[o] = response[o]
  BY DEF Commit, Close, TypeInv, TypeOK
<1>5. Outcome' = [Outcome EXCEPT ![r] = "applied"]
  BY <1>1, <1>2, <1>4 DEF Outcome
<1>6. Abstract!Pending(r)
  BY <1>1, <1>3 DEF Abstract!Pending, Outcome
<1>7. write[r] # None
      => /\ write[r].id = StoredId(r) /\ write[r].row = StoredRow(r)
         /\ ~KeyTaken(StoredId(r), StoredRow(r))
  <2>1. write[r] # None
        => write[r] = [id |-> StoredId(r), row |-> StoredRow(r)]
    BY DEF KeyInv, WriteInv, WriteAt, StoredId, StoredRow
  <2>2. write[r] # None => ~KeyTaken(write[r].id, write[r].row)
    BY DEF KeyInv, Exclusive
  <2>3. QED
    BY <2>1, <2>2
<1>8. CASE call[r].op = "create"
  <2>1. write[r] # None /\ StoredId(r) = r /\ StoredRow(r) = NewRow(call[r])
    BY <1>1, <1>8 DEF KeyInv, WriteInv, WriteAt, StoredId, StoredRow
  <2>2. Abstract!Free(r, NewRow(call[r]))
    BY <1>7, <2>1, SameTables DEF KeyTaken, Abstract!Free
  <2>3. QED
    BY <1>1, <1>2, <1>3, <1>5, <1>6, <1>8, <2>1, <2>2, SameTables
       DEF Abstract!Create
<1>9. CASE call[r].op # "create"
  <2> DEFINE id == call[r].id
             row == rows[id]
  <2>1. /\ call[r] \in Call /\ call[r].op \in {"update", "delete"}
        /\ id \in RowId /\ loaded[r] \in Row /\ row \in Row
        /\ row.table = call[r].table
        /\ StoredId(r) = id /\ StoredRow(r) = Updated(r, row)
    BY <1>1, <1>9, StoredTypes, CallShape DEF StoredId, StoredRow
  <2>2. row # None
    BY <2>1, NoneAssumption
  <2>3. CASE write[r] = None
    <3>1. rows' = [rows EXCEPT ![id] = row]
      BY <1>1, <2>1, <2>3 DEF TypeInv, TypeOK
    <3>2. Abstract!Free(id, row)
      BY <2>1, <2>2, SameTables DEF KeyInv, KeysUnique, Abstract!Free
    <3>3. row = Abstract!Result(row, call[r], {}, row.is_active)
      BY <2>1, SameTables DEF Abstract!Result, Row, Keys
    <3>4. row.is_active # None
      BY <2>1, NoneAssumption DEF Row
    <3>5. QED
      BY <1>2, <1>5, <1>6, <2>1, <2>2, <3>1, <3>2, <3>3, <3>4, ChangeOf
  <2>4. CASE write[r] # None
    <3> DEFINE new == Updated(r, row)
    <3>1. rows' = [rows EXCEPT ![id] = new]
      BY <1>1, <2>1, <2>4
    <3>2. Abstract!Free(id, new)
      BY <1>7, <2>1, <2>4, SameTables DEF KeyTaken, Abstract!Free
    <3> DEFINE a == IF DirtyFlag(r) THEN NewFlag(call[r]) ELSE row.is_active
    <3>3. DirtyKeys(r) \in SUBSET Given(call[r])
      BY DEF DirtyKeys
    <3>4. a \in {row.is_active, NewFlag(call[r])} \ {None}
      BY <2>1, NoneAssumption DEF DirtyFlag, Row
    <3>5. new = Abstract!Result(row, call[r], DirtyKeys(r), a)
      BY SameTables DEF Updated, Abstract!Result
    <3>6. a /\ ~row.is_active => row.table = "users"
      <4>1. new.is_active = a
        BY <2>1 DEF Updated, Row
      <4>2. QED
        BY <1>1, <1>9, <2>1, <4>1, UpdateNeverRestores
    <3> HIDE DEF a, new
    <3>7. QED
      BY <1>2, <1>5, <1>6, <2>1, <2>2, <3>1, <3>2, <3>3, <3>4, <3>5, <3>6,
         ChangeOf
  <2>5. QED
    BY <2>3, <2>4
<1>10. QED
  BY <1>8, <1>9

\* Every step is a step of UniqueTable or is not seen.
LEMMA StepImplements ==
    ASSUME TypeInv, KeyInv, [Next]_vars
    PROVE  [Abstract!Next]_Abstract!vars
<1>1. ASSUME NEW r \in Req, Works(r) PROVE [Abstract!Next]_Abstract!vars
  <2>1. CASE \E q \in Workload : Receive(r, q)
    BY <2>1, ReceiveImplements DEF Abstract!Next
  <2>2. CASE Load(r) \/ Lookup(r) \/ Insert(r) \/ Update(r)
    BY <2>2, LoadImplements, LookupImplements, WriteImplements
       DEF Abstract!Next
  <2>3. CASE Commit(r)
    BY <2>3, CommitImplements DEF Abstract!Next
  <2>4. CASE Refresh(r) \/ Fail(r)
    <3>1. /\ pc[r] # "done"
          /\ UNCHANGED <<rows, call, committed>>
          /\ \E answer \in {"ok", "unavailable"} :
               response' = [response EXCEPT ![r] = answer]
      BY <2>4 DEF Refresh, Fail, Unavailable, Close
    <3>2. QED
      BY <3>1, SilentStep
  <2>5. CASE Refuse(r)
    <3>1. call[r] = None /\ r \notin committed
      BY <2>5 DEF Refuse, TypeInv, ControlInv, ControlAt
    <3>2. /\ UNCHANGED <<rows, call, committed>>
          /\ \A o \in Req \ {r} : response'[o] = response[o]
      BY <2>5 DEF Refuse, Reject, Close, TypeInv, TypeOK
    <3>3. Outcome' = Outcome
      BY <3>1, <3>2 DEF Outcome
    <3>4. QED
      BY <3>2, <3>3 DEF Abstract!vars
  <2>6. QED
    BY <1>1, <2>1, <2>2, <2>3, <2>4, <2>5 DEF Works, Step
<1>2. CASE UNCHANGED vars
  BY <1>2 DEF vars, Abstract!vars, Outcome
<1>3. QED
  BY <1>1, <1>2 DEF Next, Quiescent, Works

\* The services, their lookups and the constraints together implement the
\* atomic table: a call is applied once and as a whole or not at all, and a
\* 4xx answer is true of the rows at the moment it is given.
THEOREM RegistryImplementsUniqueTable == Spec => ImplementsUniqueTable
<1> DEFINE Inv == TypeInv /\ KeyInv
<1>1. Init => Inv
  BY TypeInit, KeyInit
<1>2. Inv /\ [Next]_vars => Inv'
  BY TypeStep, KeyStep DEF KeyInv
<1>3. Inv /\ [Next]_vars => [Abstract!Next]_Abstract!vars
  BY StepImplements
<1>4. Init => Abstract!Init
  BY InitImplements
<1>5. QED
  BY <1>1, <1>2, <1>3, <1>4, PTL DEF Spec, ImplementsUniqueTable,
     Abstract!Spec

=============================================================================
