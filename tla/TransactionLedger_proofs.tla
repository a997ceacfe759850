----------------------- MODULE TransactionLedger_proofs -----------------------
(***************************************************************************)
(* Theorems about TransactionLedger, for any requests, positions, seeds    *)
(* and workload.  LedgerInv is inductive; its parts are proved in turn,    *)
(* each from the ones before it.                                           *)
(***************************************************************************)
EXTENDS TransactionLedger, TLAPS

-----------------------------------------------------------------------------
(* What a call carries, by operation.                                      *)

\* Every call names an operation, and the fields its steps read are typed.
LEMMA CallShape ==
    ASSUME NEW q \in Call
    PROVE  /\ q.op \in {"create_transaction", "update_transaction",
                        "delete_transaction", "create_holding",
                        "update_holding", "delete_holding"}
           /\ q.op = "create_transaction"
              => /\ q.position \in Position
                 /\ q.transaction_type \in TransactionType
                 /\ q.transaction_status \in TransactionStatus
                 /\ q.units \in Nat \ {0}
           /\ q.op = "update_transaction"
              => /\ q.id \in TransactionId
                 /\ q.transaction_status \in TransactionStatus \cup {None}
                 /\ q.is_active \in BOOLEAN \cup {None}
           /\ q.op = "delete_transaction" => q.id \in TransactionId
           /\ q.op = "create_holding"
              => q.position \in Position /\ q.units \in Nat
           /\ q.op = "update_holding"
              => /\ q.id \in HoldingId
                 /\ q.units \in Nat \cup {None}
                 /\ q.is_active \in BOOLEAN \cup {None}
           /\ q.op = "delete_holding" => q.id \in HoldingId
BY DEF Call

\* The initial rows are typed: seeds for the seeded ids, none for requests.
LEMMA InitialRows ==
    /\ \A t \in TransactionId :
          t \notin Req => InitialTransactions[t] \in Transaction
    /\ \A h \in HoldingId :
          h \notin Req => /\ InitialHoldings[h] \in Holding
                          /\ InitialHoldings[h].units >= 0
BY SeedAssumption DEF TransactionId, HoldingId

\* The row a request creates or changes is a transaction row.
LEMMA SubjectType ==
    ASSUME TypeOK, ControlInv, NEW r \in Req,
           pc[r] \notin {"idle", "load_transaction", "done"},
           call[r].op \in {"create_transaction", "update_transaction",
                           "delete_transaction"}
    PROVE  /\ Subject(r) \in Transaction
           /\ SubjectId(r) \in TransactionId
           /\ Signed(Subject(r)) \in Int
<1>1. call[r] \in Call
  BY DEF TypeOK, ControlInv, ControlAt
<1>2. CASE call[r].op = "create_transaction"
  BY <1>1, <1>2, CallShape
     DEF Subject, SubjectId, Signed, Transaction, TransactionId
<1>3. CASE call[r].op # "create_transaction"
  <2>1. loaded[r] \in Transaction /\ call[r].op # "create_transaction"
    BY <1>3 DEF TypeOK, ControlInv, ControlAt
  <2>2. PatchedTransaction(loaded[r], call[r]) \in Transaction
    BY <1>1, <1>3, <2>1, CallShape DEF PatchedTransaction, Transaction
  <2>3. SubjectId(r) \in TransactionId
    BY <1>1, <1>3, CallShape DEF SubjectId
  <2>4. QED
    BY <1>3, <2>2, <2>3 DEF Subject, Signed, Transaction
<1>4. QED
  BY <1>2, <1>3

\* Merging the dirty columns into a stored row gives a typed row.
LEMMA CommittedRowTypes ==
    /\ \A old \in Transaction \cup {None}, w \in TransactionWrite :
          CommittedTransaction(old, w) \in Transaction
    /\ \A old \in Holding \cup {None}, w \in HoldingWrite :
          CommittedHolding(old, w) \in Holding
BY DEF CommittedTransaction, CommittedHolding, TransactionWrite, HoldingWrite,
       Transaction, Holding

-----------------------------------------------------------------------------
(* Type correctness: TypeOK with ControlInv is inductive.                  *)

TypeInv == TypeOK /\ ControlInv

\* A request that is answered keeps the types: its session is emptied.
LEMMA CloseKeepsTypes ==
    ASSUME TypeInv, NEW r \in Req,
           NEW answer \in {"none", "ok", "client_error", "unavailable"},
           Close(r, answer),
           transactions' \in [TransactionId -> Transaction \cup {None}],
           holdings' \in [HoldingId -> Holding \cup {None}],
           booked' \in [HoldingId -> Int],
           applied' \in [TransactionId -> Nat]
    PROVE  TypeInv'
<1>1. TypeOK'
  BY DEF TypeInv, TypeOK, Close, Steps
<1>2. ControlInv'
  BY DEF TypeInv, TypeOK, ControlInv, ControlAt, Close, IsTransactionCall
<1>3. QED
  BY <1>1, <1>2 DEF TypeInv

\* An error answer keeps the types: the tables stay as they are.
LEMMA RollbackKeepsTypes ==
    ASSUME TypeInv, NEW r \in Req, Reject(r) \/ Unavailable(r)
    PROVE  TypeInv'
<1>1. UNCHANGED <<tables, history>>
  BY DEF Reject, Unavailable
<1>2. /\ transactions' \in [TransactionId -> Transaction \cup {None}]
      /\ holdings' \in [HoldingId -> Holding \cup {None}]
      /\ booked' \in [HoldingId -> Int]
      /\ applied' \in [TransactionId -> Nat]
  BY <1>1 DEF tables, history, TypeInv, TypeOK
<1>3. QED
  BY <1>2, CloseKeepsTypes DEF Reject, Unavailable

\* The initial state is typed, and no request has started.
LEMMA TypeInit == Init => TypeInv
<1> SUFFICES ASSUME Init PROVE TypeInv
  OBVIOUS
<1>1. TypeOK
  <2>1. booked \in [HoldingId -> Int]
    BY InitialRows DEF Init, Holding
  <2>2. /\ transactions \in [TransactionId -> Transaction \cup {None}]
        /\ holdings \in [HoldingId -> Holding \cup {None}]
    BY InitialRows DEF Init
  <2>3. applied \in [TransactionId -> Nat]
    BY DEF Init
  <2>4. QED
    BY <2>1, <2>2, <2>3 DEF Init, TypeOK, Steps
<1>2. ControlInv
  BY DEF Init, ControlInv, ControlAt
<1>3. QED
  BY <1>1, <1>2 DEF TypeInv

\* A received call starts at the first step of its service method.
LEMMA ReceiveKeepsTypes ==
    ASSUME TypeInv, NEW r \in Req, NEW q \in Workload, Receive(r, q)
    PROVE  TypeInv'
<1>1. q \in Call
  BY RequestAssumption
<1>2. FirstStep(q) \in Steps
  BY <1>1, CallShape DEF FirstStep, Steps
<1>3. TypeOK'
  BY <1>1, <1>2 DEF TypeInv, TypeOK, Receive, tables, session, history
<1>4. ControlInv'
  <2>1. q # None
    BY <1>1, NoneAssumption, WriteAssumption
  <2>2. SUFFICES ASSUME NEW o \in Req PROVE ControlAt(o)'
    BY DEF ControlInv
  <2>3. CASE o = r
    BY <1>1, <2>1, <2>3, CallShape
       DEF TypeInv, TypeOK, ControlAt, Receive, FirstStep,
           IsTransactionCall
  <2>4. CASE o # r
    BY <2>4
       DEF TypeInv, TypeOK, ControlInv, ControlAt, Receive,
           session, IsTransactionCall
  <2>5. QED
    BY <2>3, <2>4
<1>5. QED
  BY <1>3, <1>4 DEF TypeInv

\* The availability check keeps the types.
LEMMA AvailableUnitsKeepsTypes ==
    ASSUME TypeInv, NEW r \in Req, AvailableUnits(r)
    PROVE  TypeInv'
<1>1. CASE Reject(r)
  BY <1>1, RollbackKeepsTypes
<1>2. CASE ~Reject(r)
  <2> DEFINE next == IF call[r].op = "create_transaction"
                     THEN "insert_transaction" ELSE "apply_completed"
  <2>1. /\ pc[r] = "available_units"
        /\ Continue(r, next)
        /\ UNCHANGED <<loaded, txnWrite, holdingWrite>>
        /\ \/ UNCHANGED seen
           \/ \E h \in ActiveHoldings(Subject(r).position) :
                 seen' = [seen EXCEPT ![r] = [id |-> h, row |-> holdings[h]]]
    BY <1>2 DEF AvailableUnits, session
  <2>2. seen' \in [Req -> LoadedHolding \cup {None}]
    <3>1. \A h \in ActiveHoldings(Subject(r).position) :
            h \in HoldingId /\ holdings[h] \in Holding
      BY DEF ActiveHoldings, IsActive, TypeInv, TypeOK
    <3>2. QED
      BY <2>1, <3>1 DEF TypeInv, TypeOK, LoadedHolding
  <2>3. TypeOK'
    BY <2>1, <2>2
       DEF TypeInv, TypeOK, Continue, Steps, tables, history
  <2>4. ControlInv'
    <3>1. call[r].op \in {"create_transaction", "update_transaction"}
      BY <2>1 DEF TypeInv, ControlInv, ControlAt, IsTransactionCall
    <3>2. QED
      BY <2>1, <3>1
         DEF TypeInv, TypeOK, ControlInv, ControlAt, Continue, IsTransactionCall
  <2>5. QED
    BY <2>3, <2>4 DEF TypeInv
<1>3. QED
  BY <1>1, <1>2

\* The INSERT of a transaction keeps the types.
LEMMA InsertTransactionKeepsTypes ==
    ASSUME TypeInv, NEW r \in Req, InsertTransaction(r)
    PROVE  TypeInv'
<1>1. /\ Subject(r) \in Transaction
      /\ call[r].op = "create_transaction"
  BY SubjectType DEF TypeInv, ControlInv, ControlAt, InsertTransaction
<1>2. txnWrite' \in [Req -> TransactionWrite \cup {None}]
  BY <1>1 DEF InsertTransaction, TypeInv, TypeOK, TransactionWrite,
              TransactionId
<1>3. TypeOK'
  BY <1>2 DEF InsertTransaction, TypeInv, TypeOK, Continue, Steps, tables, history
<1>4. ControlInv'
  BY <1>1 DEF InsertTransaction, TypeInv, TypeOK, ControlInv, ControlAt, Continue,
              IsTransactionCall
<1>5. QED
  BY <1>3, <1>4 DEF TypeInv

\* Loading a transaction keeps the types.
LEMMA LoadTransactionKeepsTypes ==
    ASSUME TypeInv, NEW r \in Req, LoadTransaction(r)
    PROVE  TypeInv'
<1>1. CASE Reject(r)
  BY <1>1, RollbackKeepsTypes
<1>2. CASE ~Reject(r)
  <2>1. /\ call[r] \in Call
        /\ call[r].op \in {"update_transaction", "delete_transaction"}
    BY DEF LoadTransaction, TypeInv, TypeOK, ControlInv, ControlAt
  <2>2. transactions[call[r].id] \in Transaction
    BY <1>2, <2>1, CallShape DEF LoadTransaction, IsActive, TypeInv, TypeOK
  <2>3. TypeOK'
    BY <1>2, <2>2
       DEF LoadTransaction, TypeInv, TypeOK, Continue, Steps, tables, history
  <2>4. transactions[call[r].id] # None
    BY <1>2 DEF LoadTransaction, IsActive
  <2>5. ControlInv'
    BY <1>2, <2>1, <2>4
       DEF LoadTransaction, TypeInv, TypeOK, ControlInv, ControlAt, Continue,
           IsTransactionCall
  <2>6. QED
    BY <2>3, <2>5 DEF TypeInv
<1>3. QED
  BY <1>1, <1>2

\* The UPDATE of a transaction keeps the types.
LEMMA FlushTransactionKeepsTypes ==
    ASSUME TypeInv, NEW r \in Req, FlushTransaction(r)
    PROVE  TypeInv'
<1>1. /\ call[r].op \in {"update_transaction", "delete_transaction"}
      /\ pc[r] = "flush_transaction"
      /\ loaded[r] # None
  BY DEF FlushTransaction, TypeInv, ControlInv, ControlAt
<1>2. Subject(r) \in Transaction /\ call[r].id \in TransactionId
  BY <1>1, SubjectType DEF TypeInv, SubjectId
<1>3. txnWrite' \in [Req -> TransactionWrite \cup {None}]
  <2> DEFINE w == [id |-> call[r].id, row |-> Subject(r),
                   dirty |-> DirtyTransaction(loaded[r], Subject(r))]
  <2>1. w \in TransactionWrite
    BY <1>2 DEF TransactionWrite, DirtyTransaction
  <2>2. txnWrite' = txnWrite \/ txnWrite' = [txnWrite EXCEPT ![r] = w]
    BY DEF FlushTransaction
  <2>3. QED
    BY <2>1, <2>2 DEF TypeInv, TypeOK
<1>4. /\ AfterFlush(loaded[r], Subject(r))
           \in {"available_units", "apply_completed", "commit"}
      /\ call[r].op = "delete_transaction"
         => AfterFlush(loaded[r], Subject(r)) = "commit"
  <2>1. loaded[r] \in Transaction
    BY <1>1 DEF TypeInv, TypeOK
  <2>2. CASE call[r].op = "delete_transaction"
    <3>1. Subject(r).transaction_status = loaded[r].transaction_status
      BY <2>1, <2>2 DEF Subject, PatchedTransaction, Transaction
    <3>2. QED
      BY <3>1 DEF AfterFlush
  <2>3. QED
    BY <2>2 DEF AfterFlush
<1>5. TypeOK'
  BY <1>3, <1>4
     DEF FlushTransaction, TypeInv, TypeOK, Continue, Steps, tables, history
<1>6. ControlInv'
  BY <1>1, <1>4
     DEF FlushTransaction, TypeInv, TypeOK, ControlInv, ControlAt, Continue,
         IsTransactionCall
<1>7. QED
  BY <1>5, <1>6 DEF TypeInv

\* The apply step keeps the types.
LEMMA ApplyCompletedKeepsTypes ==
    ASSUME TypeInv, NEW r \in Req, ApplyCompleted(r)
    PROVE  TypeInv'
<1>1. CASE Reject(r)
  BY <1>1, RollbackKeepsTypes
<1>2. CASE ~Reject(r)
  <2>1. /\ pc[r] = "apply_completed"
        /\ call[r].op \in {"create_transaction", "update_transaction"}
    BY DEF ApplyCompleted, TypeInv, ControlInv, ControlAt, IsTransactionCall
  <2>2. \/ Continue(r, "insert_holding") /\ UNCHANGED session
        \/ \E h \in ActiveHoldings(Subject(r).position) :
           \E row \in SessionRows(r, h) :
              /\ seen' = [seen EXCEPT ![r] = [id |-> h, row |-> row]]
              /\ Continue(r, "flush_holding")
              /\ UNCHANGED <<loaded, txnWrite, holdingWrite>>
    BY <1>2 DEF ApplyCompleted
  <2>3. \A h \in ActiveHoldings(Subject(r).position) :
        \A row \in SessionRows(r, h) :
          [id |-> h, row |-> row] \in LoadedHolding
    BY DEF ActiveHoldings, IsActive, SessionRows, TypeInv, TypeOK,
           LoadedHolding
  <2>4. TypeOK'
    BY <2>2, <2>3
       DEF session, TypeInv, TypeOK, Continue, Steps, tables, history
  <2>5. None \notin LoadedHolding
    BY NoneAssumption, WriteAssumption
  <2>6. ControlInv'
    BY <2>1, <2>2, <2>3, <2>5
       DEF session, TypeInv, TypeOK, ControlInv, ControlAt, Continue,
           IsTransactionCall
  <2>7. QED
    BY <2>4, <2>6 DEF TypeInv
<1>3. QED
  BY <1>1, <1>2

\* The existence check of create_holding keeps the types.
LEMMA FindHoldingKeepsTypes ==
    ASSUME TypeInv, NEW r \in Req, FindHolding(r)
    PROVE  TypeInv'
<1>1. CASE Reject(r)
  BY <1>1, RollbackKeepsTypes
<1>2. CASE ~Reject(r)
  <2>1. /\ pc[r] = "find_holding"
        /\ call[r].op = "create_holding"
        /\ Continue(r, "insert_holding")
        /\ UNCHANGED session
    BY <1>2 DEF FindHolding, TypeInv, ControlInv, ControlAt
  <2>2. TypeOK'
    BY <2>1 DEF session, TypeInv, TypeOK, Continue, Steps, tables, history
  <2>3. ControlInv'
    BY <2>1 DEF session, TypeInv, TypeOK, ControlInv, ControlAt, Continue,
                IsTransactionCall
  <2>4. QED
    BY <2>2, <2>3 DEF TypeInv
<1>3. QED
  BY <1>1, <1>2

\* An inserted holding is a holding row.
LEMMA NewHoldingType ==
    ASSUME TypeInv, NEW r \in Req, pc[r] \in {"insert_holding", "commit"},
           pc[r] = "commit"
           => IsTransactionCall(r) \/ call[r].op = "create_holding"
    PROVE  NewHolding(r) \in Holding
<1>1. call[r] \in Call
  BY DEF TypeInv, TypeOK, ControlInv, ControlAt
<1>2. CASE call[r].op = "create_holding"
  BY <1>1, <1>2, CallShape DEF NewHolding, Holding
<1>3. CASE call[r].op # "create_holding"
  <2>1. Subject(r) \in Transaction /\ Signed(Subject(r)) \in Int
    BY <1>3, SubjectType DEF TypeInv, ControlInv, ControlAt, IsTransactionCall
  <2>2. QED
    BY <1>3, <2>1 DEF NewHolding, Holding, Transaction
<1>4. QED
  BY <1>2, <1>3

\* The INSERT of a holding keeps the types.
LEMMA InsertHoldingKeepsTypes ==
    ASSUME TypeInv, NEW r \in Req, InsertHolding(r)
    PROVE  TypeInv'
<1>1. CASE Reject(r) \/ Unavailable(r)
  BY <1>1, RollbackKeepsTypes
<1>2. CASE ~(Reject(r) \/ Unavailable(r))
  <2>1. /\ pc[r] = "insert_holding"
        /\ holdingWrite' = [holdingWrite EXCEPT ![r] =
                              [id |-> r, row |-> NewHolding(r),
                               dirty |-> HoldingColumns]]
        /\ Continue(r, "commit")
        /\ UNCHANGED <<loaded, seen, txnWrite>>
    BY <1>2 DEF InsertHolding
  <2>2. holdingWrite' \in [Req -> HoldingWrite \cup {None}]
    BY <2>1, NewHoldingType
       DEF TypeInv, TypeOK, HoldingWrite, HoldingId
  <2>3. TypeOK'
    BY <2>1, <2>2 DEF TypeInv, TypeOK, Continue, Steps, tables, history
  <2>4. ControlInv'
    BY <2>1 DEF TypeInv, TypeOK, ControlInv, ControlAt, Continue,
                IsTransactionCall
  <2>5. QED
    BY <2>3, <2>4 DEF TypeInv
<1>3. QED
  BY <1>1, <1>2

\* Loading a holding keeps the types.
LEMMA LoadHoldingKeepsTypes ==
    ASSUME TypeInv, NEW r \in Req, LoadHolding(r)
    PROVE  TypeInv'
<1>1. CASE Reject(r)
  BY <1>1, RollbackKeepsTypes
<1>2. CASE ~Reject(r)
  <2> DEFINE h == call[r].id
  <2>1. /\ pc[r] = "load_holding"
        /\ IsActive(holdings[h])
        /\ seen' = [seen EXCEPT ![r] = [id |-> h, row |-> holdings[h]]]
        /\ Continue(r, "flush_holding")
        /\ UNCHANGED <<loaded, txnWrite, holdingWrite>>
    BY <1>2 DEF LoadHolding
  <2>2. /\ call[r] \in Call
        /\ call[r].op \in {"update_holding", "delete_holding"}
    BY <2>1 DEF TypeInv, TypeOK, ControlInv, ControlAt
  <2>3. [id |-> h, row |-> holdings[h]] \in LoadedHolding
    BY <2>1, <2>2, CallShape DEF IsActive, TypeInv, TypeOK, LoadedHolding
  <2>4. TypeOK'
    BY <2>1, <2>3 DEF TypeInv, TypeOK, Continue, Steps, tables, history
  <2>5. seen'[r] # None
    BY <2>1, <2>3, NoneAssumption, WriteAssumption DEF TypeInv, TypeOK
  <2>6. ControlInv'
    BY <2>1, <2>2, <2>5
       DEF TypeInv, TypeOK, ControlInv, ControlAt, Continue,
           IsTransactionCall
  <2>7. QED
    BY <2>4, <2>6 DEF TypeInv
<1>3. QED
  BY <1>1, <1>2

\* A changed holding is a holding row of the same position.
LEMMA ChangedHoldingType ==
    ASSUME TypeInv, NEW r \in Req, pc[r] \in {"flush_holding", "commit"},
           pc[r] = "commit"
           => /\ seen[r] # None
              /\ \/ IsTransactionCall(r)
                 \/ call[r].op \in {"update_holding", "delete_holding"}
    PROVE  ChangedHolding(r) \in Holding
<1>1. /\ call[r] \in Call
      /\ seen[r] \in LoadedHolding
  BY DEF TypeInv, TypeOK, ControlInv, ControlAt
<1>2. seen[r].row \in Holding
  BY <1>1 DEF LoadedHolding
<1>3. CASE call[r].op = "delete_holding"
  BY <1>2, <1>3 DEF ChangedHolding, Holding
<1>4. CASE call[r].op = "update_holding"
  <2> DEFINE units == IF call[r].units = None THEN seen[r].row.units
                      ELSE call[r].units
             is_active == IF call[r].is_active = None
                          THEN seen[r].row.is_active ELSE call[r].is_active
  <2>1. units \in Int /\ is_active \in BOOLEAN
    BY <1>1, <1>2, <1>4, CallShape DEF Holding
  <2>2. ChangedHolding(r) =
          [seen[r].row EXCEPT !.units = units, !.is_active = is_active]
    BY <1>4 DEF ChangedHolding
  <2>3. QED
    BY <1>2, <2>1, <2>2 DEF Holding
<1>5. CASE IsTransactionCall(r)
  <2>1. Signed(Subject(r)) \in Int
    BY <1>5, SubjectType DEF TypeInv, IsTransactionCall
  <2>2. QED
    BY <1>2, <1>5, <2>1 DEF ChangedHolding, Holding, IsTransactionCall
<1>6. QED
  BY <1>3, <1>4, <1>5 DEF TypeInv, ControlInv, ControlAt

\* The UPDATE of a holding keeps the types.
LEMMA FlushHoldingKeepsTypes ==
    ASSUME TypeInv, NEW r \in Req, FlushHolding(r)
    PROVE  TypeInv'
<1> DEFINE w == [id |-> seen[r].id, row |-> ChangedHolding(r),
                 dirty |-> DirtyHolding(seen[r].row, ChangedHolding(r))]
<1>1. /\ pc[r] = "flush_holding"
      /\ holdingWrite' = holdingWrite
         \/ holdingWrite' = [holdingWrite EXCEPT ![r] = w]
      /\ Continue(r, "commit")
      /\ UNCHANGED <<loaded, seen, txnWrite>>
  BY DEF FlushHolding
<1>2. seen[r] \in LoadedHolding
  BY <1>1 DEF TypeInv, TypeOK, ControlInv, ControlAt
<1>3. w \in HoldingWrite
  BY <1>1, <1>2, ChangedHoldingType
     DEF HoldingWrite, LoadedHolding, DirtyHolding
<1>4. TypeOK'
  BY <1>1, <1>3 DEF TypeInv, TypeOK, Continue, Steps, tables, history
<1>5. ControlInv'
  BY <1>1 DEF TypeInv, TypeOK, ControlInv, ControlAt, Continue,
              IsTransactionCall
<1>6. QED
  BY <1>4, <1>5 DEF TypeInv

\* A commit keeps the types: it merges typed rows into the tables.
LEMMA CommitKeepsTypes ==
    ASSUME TypeInv, NEW r \in Req, Commit(r)
    PROVE  TypeInv'
<1>1. transactions' \in [TransactionId -> Transaction \cup {None}]
  BY CommittedRowTypes DEF Commit, TypeInv, TypeOK, TransactionWrite
<1>2. holdings' \in [HoldingId -> Holding \cup {None}]
  BY CommittedRowTypes DEF Commit, TypeInv, TypeOK, HoldingWrite
<1>3. booked' \in [HoldingId -> Int]
  <2>1. SetsUnits(r) => holdingWrite[r].row.units \in Int
    BY DEF SetsUnits, TypeInv, TypeOK, HoldingWrite, Holding
  <2>2. Completes(r) => Signed(txnWrite[r].row) \in Int
    BY DEF Completes, WritesCompleted, Signed, TypeInv, TypeOK, TransactionWrite, Transaction
  <2>3. QED
    BY <2>1, <2>2 DEF Commit, Book, TypeInv, TypeOK
<1>4. applied' \in [TransactionId -> Nat]
  <2>1. AppliesUnits(r) => SubjectId(r) \in TransactionId
    BY SubjectType DEF AppliesUnits, IsTransactionCall, TypeInv, Commit
  <2>2. QED
    BY <2>1 DEF Commit, TypeInv, TypeOK
<1>5. CASE Close(r, "ok")
  BY <1>1, <1>2, <1>3, <1>4, <1>5, CloseKeepsTypes
<1>6. CASE ~Close(r, "ok")
  <2>1. /\ pc' = [pc EXCEPT ![r] = "refresh"]
        /\ txnWrite' = [txnWrite EXCEPT ![r] = None]
        /\ holdingWrite' = [holdingWrite EXCEPT ![r] = None]
        /\ UNCHANGED <<call, response, loaded, seen>>
        /\ pc[r] = "commit"
    BY <1>6 DEF Commit
  <2>2. TypeOK'
    BY <1>1, <1>2, <1>3, <1>4, <2>1 DEF TypeInv, TypeOK, Steps
  <2>3. ControlInv'
    BY <2>1 DEF TypeInv, TypeOK, ControlInv, ControlAt, IsTransactionCall
  <2>4. QED
    BY <2>2, <2>3 DEF TypeInv
<1>7. QED
  BY <1>5, <1>6

\* Every step keeps the types and the control part of the invariant.
LEMMA TypeStep == TypeInv /\ [Next]_vars => TypeInv'
<1> SUFFICES ASSUME TypeInv, [Next]_vars PROVE TypeInv'
  OBVIOUS
<1>1. ASSUME NEW r \in Req, NEW q \in Workload, Receive(r, q)
      PROVE  TypeInv'
  BY <1>1, ReceiveKeepsTypes
<1>2. ASSUME NEW r \in Req, Refuse(r) \/ Fail(r)
      PROVE  TypeInv'
  BY <1>2, RollbackKeepsTypes DEF Refuse, Fail
<1>3. ASSUME NEW r \in Req, Refresh(r)
      PROVE  TypeInv'
  <2>1. /\ transactions' \in [TransactionId -> Transaction \cup {None}]
        /\ holdings' \in [HoldingId -> Holding \cup {None}]
        /\ booked' \in [HoldingId -> Int]
        /\ applied' \in [TransactionId -> Nat]
    BY <1>3 DEF Refresh, tables, history, TypeInv, TypeOK
  <2>2. QED
    BY <1>3, <2>1, CloseKeepsTypes DEF Refresh
<1>4. ASSUME NEW r \in Req, Step(r), ~Refresh(r)
      PROVE  TypeInv'
  BY <1>4, AvailableUnitsKeepsTypes, InsertTransactionKeepsTypes,
     LoadTransactionKeepsTypes, FlushTransactionKeepsTypes,
     ApplyCompletedKeepsTypes, FindHoldingKeepsTypes,
     InsertHoldingKeepsTypes, LoadHoldingKeepsTypes,
     FlushHoldingKeepsTypes, CommitKeepsTypes
     DEF Step
<1>5. CASE UNCHANGED vars
  BY <1>5 DEF vars, TypeInv, TypeOK, ControlInv, ControlAt, IsTransactionCall
<1>6. QED
  BY <1>1, <1>2, <1>3, <1>4, <1>5 DEF Next, Quiescent

\* The tables, the sessions and the answers are well typed in every state,
\* and a request is only where its service method can be.
THEOREM TypesAndControl == Spec => [](TypeOK /\ ControlInv)
<1>1. Init => TypeInv
  BY TypeInit
<1>2. TypeInv /\ [Next]_vars => TypeInv'
  BY TypeStep
<1>3. TypeInv => TypeOK /\ ControlInv
  BY DEF TypeInv
<1>4. QED
  BY <1>1, <1>2, <1>3, PTL DEF Spec

-----------------------------------------------------------------------------
(* A step of one request leaves the others where they are.                 *)

Untouched(o) ==
    /\ pc'[o] = pc[o]
    /\ call'[o] = call[o]
    /\ loaded'[o] = loaded[o]
    /\ seen'[o] = seen[o]
    /\ txnWrite'[o] = txnWrite[o]
    /\ holdingWrite'[o] = holdingWrite[o]

\* A step of one request leaves the sessions of the others alone.
LEMMA OthersUntouched ==
    ASSUME TypeInv, NEW r \in Req, NEW o \in Req \ {r},
           \/ \E q \in Workload : Receive(r, q)
           \/ Refuse(r) \/ Step(r) \/ Fail(r)
    PROVE  Untouched(o)
<1>1. CASE \E q \in Workload : Receive(r, q)
  BY <1>1 DEF Receive, session, Untouched, TypeInv, TypeOK
<1>2. CASE Refuse(r) \/ Fail(r) \/ Refresh(r)
  BY <1>2 DEF Refuse, Fail, Reject, Unavailable, Refresh, Close, Untouched,
              TypeInv, TypeOK
<1>3. CASE AvailableUnits(r) \/ InsertTransaction(r) \/ ApplyCompleted(r)
  BY <1>3 DEF AvailableUnits, InsertTransaction, ApplyCompleted, Reject,
              Close, Continue, session, Untouched, TypeInv, TypeOK
<1>4. CASE LoadTransaction(r) \/ FlushTransaction(r)
  BY <1>4 DEF LoadTransaction, FlushTransaction, Reject, Close, Continue,
              Untouched, TypeInv, TypeOK
<1>5. CASE FindHolding(r) \/ InsertHolding(r)
  BY <1>5 DEF FindHolding, InsertHolding, Reject, Unavailable, Close,
              Continue, session, Untouched, TypeInv, TypeOK
<1>6. CASE LoadHolding(r) \/ FlushHolding(r)
  BY <1>6 DEF LoadHolding, FlushHolding, Reject, Close, Continue, Untouched,
              TypeInv, TypeOK
<1>7. CASE Commit(r)
  BY <1>7 DEF Commit, Close, Untouched, TypeInv, TypeOK
<1>8. QED
  BY <1>1, <1>2, <1>3, <1>4, <1>5, <1>6, <1>7 DEF Step

\* Only a commit changes the tables.
LEMMA TablesUnchanged ==
    ASSUME NEW r \in Req,
           \/ \E q \in Workload : Receive(r, q)
           \/ Refuse(r) \/ Step(r) \/ Fail(r),
           ~Commit(r)
    PROVE  transactions' = transactions /\ holdings' = holdings
BY DEF Receive, Refuse, Step, Fail, AvailableUnits, InsertTransaction,
       ApplyCompleted, LoadTransaction, FlushTransaction, FindHolding,
       InsertHolding, LoadHolding, FlushHolding, Refresh, Reject, Unavailable,
       Continue, tables

-----------------------------------------------------------------------------
(* Units are never negative.                                               *)

\* A request whose call and loaded row stay works for the same row.
LEMMA SubjectSame ==
    ASSUME NEW o \in Req, Untouched(o)
    PROVE  /\ Subject(o)' = Subject(o)
           /\ SubjectId(o)' = SubjectId(o)
           /\ IsTransactionCall(o)' = IsTransactionCall(o)
BY DEF Untouched, Subject, SubjectId, IsTransactionCall

\* A request another one's step leaves alone keeps its part of UnitsInv.
LEMMA UntouchedUnits ==
    ASSUME NEW o \in Req, Untouched(o), UnitsAt(o)
    PROVE  UnitsAt(o)'
BY SubjectSame DEF UnitsAt, Untouched, Exceeds

\* The seeded holdings have no negative units.
LEMMA UnitsInit == Init => UnitsInv
<1> SUFFICES ASSUME Init PROVE UnitsInv
  OBVIOUS
<1>1. UnitsNonNegative
  BY InitialRows DEF Init, UnitsNonNegative
<1>2. \A r \in Req : UnitsAt(r)
  BY DEF Init, UnitsAt
<1>3. QED
  BY <1>1, <1>2 DEF UnitsInv

\* A commit installs the units of a flushed row, which are not negative.
LEMMA CommitKeepsUnits ==
    ASSUME TypeInv, UnitsInv, NEW r \in Req, Commit(r)
    PROVE  UnitsNonNegative' /\ UnitsAt(r)'
<1>1. UnitsNonNegative'
  <2> SUFFICES ASSUME NEW h \in HoldingId, holdings'[h] # None
               PROVE  holdings'[h].units >= 0
    BY DEF UnitsNonNegative
  <2>1. CASE holdingWrite[r] # None /\ h = holdingWrite[r].id
    <3>1. holdings'[h] = CommittedHolding(holdings[h], holdingWrite[r])
      BY <2>1 DEF Commit, TypeInv, TypeOK
    <3>2. holdingWrite[r].row.units >= 0
      BY <2>1 DEF UnitsInv, UnitsAt
    <3>3. holdings[h] # None => holdings[h].units >= 0
      BY DEF UnitsInv, UnitsNonNegative
    <3>4. holdings[h] \in Holding \cup {None}
      BY DEF TypeInv, TypeOK
    <3>5. QED
      BY <3>1, <3>2, <3>3, <3>4 DEF CommittedHolding, Holding
  <2>2. CASE ~(holdingWrite[r] # None /\ h = holdingWrite[r].id)
    <3>1. holdings'[h] = holdings[h]
      BY <2>2 DEF Commit, TypeInv, TypeOK
    <3>2. QED
      BY <3>1 DEF UnitsInv, UnitsNonNegative
  <2>3. QED
    BY <2>1, <2>2
<1>2. UnitsAt(r)'
  BY DEF Commit, Close, UnitsInv, UnitsAt, TypeInv, TypeOK
<1>3. QED
  BY <1>1, <1>2

\* Past the second comparison the units written are those of the row in the
\* session, less at most as many.
LEMMA FlushHoldingKeepsUnits ==
    ASSUME TypeInv, UnitsInv, NEW r \in Req, FlushHolding(r)
    PROVE  UnitsAt(r)'
<1>1. /\ pc[r] = "flush_holding"
      /\ call[r] \in Call
      /\ seen[r] \in LoadedHolding
      /\ seen[r] # None
  BY DEF FlushHolding, TypeInv, TypeOK, ControlInv, ControlAt
<1>2. seen[r].row \in Holding /\ seen[r].row.units >= 0
  BY <1>1 DEF LoadedHolding, UnitsInv, UnitsAt
<1>3. ChangedHolding(r).units >= 0
  <2>1. CASE call[r].op = "delete_holding"
    BY <1>2, <2>1 DEF ChangedHolding, Holding
  <2>2. CASE call[r].op = "update_holding"
    <3>1. call[r].units \in Nat \cup {None}
      BY <1>1, <2>2, CallShape
    <3>2. ChangedHolding(r).units =
            IF call[r].units = None THEN seen[r].row.units ELSE call[r].units
      BY <1>2, <2>2 DEF ChangedHolding, Holding
    <3>3. QED
      BY <1>2, <3>1, <3>2
  <2>3. CASE IsTransactionCall(r)
    <3>1. Subject(r) \in Transaction
      BY <1>1, <2>3, SubjectType DEF TypeInv, IsTransactionCall
    <3>2. ~Exceeds(Subject(r), seen[r].row)
      BY <1>1, <2>3 DEF UnitsInv, UnitsAt
    <3>3. seen[r].row.units + Signed(Subject(r)) >= 0
      BY <1>2, <3>1, <3>2 DEF Exceeds, Signed, Transaction, Holding
    <3>4. ChangedHolding(r).units = seen[r].row.units + Signed(Subject(r))
      BY <1>2, <2>3 DEF ChangedHolding, Holding, IsTransactionCall
    <3>5. QED
      BY <3>3, <3>4
  <2>4. QED
    BY <1>1, <2>1, <2>2, <2>3 DEF TypeInv, ControlInv, ControlAt
<1>4. QED
  BY <1>2, <1>3 DEF FlushHolding, Continue, UnitsInv, UnitsAt, TypeInv, TypeOK

\* An inserted holding has the units of an inflow, of a dividend (none) or of
\* the payload.
LEMMA InsertHoldingKeepsUnits ==
    ASSUME TypeInv, UnitsInv, NEW r \in Req, InsertHolding(r)
    PROVE  UnitsAt(r)'
<1>1. call[r] \in Call /\ pc[r] = "insert_holding"
  BY DEF InsertHolding, TypeInv, TypeOK, ControlInv, ControlAt
<1>2. NewHolding(r).units >= 0
  <2>1. CASE call[r].op = "create_holding"
    BY <1>1, <2>1, CallShape DEF NewHolding
  <2>2. CASE call[r].op # "create_holding"
    <3>1. IsTransactionCall(r)
      BY <1>1, <2>2 DEF TypeInv, ControlInv, ControlAt
    <3>2. /\ Subject(r) \in Transaction
          /\ Subject(r).transaction_type \notin OutflowTypes
      BY <1>1, <3>1, SubjectType
         DEF IsTransactionCall, TypeInv, UnitsInv, UnitsAt
    <3>3. QED
      BY <2>2, <3>2 DEF NewHolding, Signed, Transaction
  <2>3. QED
    BY <2>1, <2>2
<1>3. QED
  BY <1>2 DEF InsertHolding, Reject, Unavailable, Close, Continue, UnitsInv,
              UnitsAt, TypeInv, TypeOK

\* A request that is answered has no session left to constrain.
LEMMA CloseKeepsUnits ==
    ASSUME TypeInv, UnitsInv, NEW r \in Req, NEW answer, Close(r, answer)
    PROVE  UnitsAt(r)'
BY DEF Close, UnitsAt, TypeInv, TypeOK

\* Past the apply step an outflow does not exceed the row in the session.
LEMMA ApplyCompletedKeepsUnits ==
    ASSUME TypeInv, UnitsInv, NEW r \in Req, ApplyCompleted(r)
    PROVE  UnitsAt(r)'
<1>1. CASE Reject(r)
  BY <1>1, CloseKeepsUnits DEF Reject
<1>2. ASSUME Continue(r, "insert_holding"), UNCHANGED session,
             Subject(r).transaction_type \notin OutflowTypes
      PROVE  UnitsAt(r)'
  <2>1. Subject(r)' = Subject(r)
    BY <1>2 DEF Continue, session, Subject
  <2>2. QED
    BY <1>2, <2>1
       DEF Continue, session, UnitsInv, UnitsAt, TypeInv, TypeOK
<1>3. ASSUME NEW h \in ActiveHoldings(Subject(r).position),
             NEW row \in SessionRows(r, h),
             ~Exceeds(Subject(r), row),
             seen' = [seen EXCEPT ![r] = [id |-> h, row |-> row]],
             Continue(r, "flush_holding"),
             UNCHANGED <<loaded, txnWrite, holdingWrite>>
      PROVE  UnitsAt(r)'
  <2>1. Subject(r)' = Subject(r)
    BY <1>3 DEF Continue, Subject
  <2>2. row.units >= 0
    BY DEF SessionRows, ActiveHoldings, IsActive, UnitsInv, UnitsAt,
           UnitsNonNegative
  <2>3. seen'[r].row = row
    BY <1>3 DEF TypeInv, TypeOK
  <2>4. QED
    BY <1>3, <2>1, <2>2, <2>3
       DEF Continue, UnitsInv, UnitsAt, TypeInv, TypeOK, Exceeds
<1>4. QED
  BY <1>1, <1>2, <1>3 DEF ApplyCompleted

\* The steps that only read or write a transaction keep UnitsInv.
LEMMA ReadsKeepUnits ==
    ASSUME TypeInv, UnitsInv, NEW r \in Req,
           \/ AvailableUnits(r) \/ LoadHolding(r) \/ FindHolding(r)
           \/ InsertTransaction(r) \/ LoadTransaction(r)
           \/ FlushTransaction(r)
    PROVE  UnitsAt(r)'
<1>1. CASE Reject(r)
  BY <1>1, CloseKeepsUnits DEF Reject
<1>2. CASE ~Reject(r) /\ AvailableUnits(r)
  <2>1. \A h \in ActiveHoldings(Subject(r).position) :
          holdings[h].units >= 0
    BY DEF ActiveHoldings, IsActive, UnitsInv, UnitsNonNegative
  <2>2. QED
    BY <1>2, <2>1 DEF AvailableUnits, Continue, session, UnitsInv, UnitsAt,
                      TypeInv, TypeOK
<1>3. CASE ~Reject(r) /\ LoadHolding(r)
  <2>1. /\ call[r] \in Call
        /\ call[r].op \in {"update_holding", "delete_holding"}
        /\ holdings[call[r].id].units >= 0
    BY <1>3, CallShape
       DEF LoadHolding, IsActive, TypeInv, TypeOK, ControlInv, ControlAt,
           UnitsInv, UnitsNonNegative
  <2>2. QED
    BY <1>3, <2>1 DEF LoadHolding, Continue, UnitsInv, UnitsAt,
                      IsTransactionCall, TypeInv, TypeOK
<1>4. CASE ~Reject(r) /\ FindHolding(r)
  BY <1>4 DEF FindHolding, Continue, session, UnitsInv, UnitsAt,
              IsTransactionCall, TypeInv, TypeOK, ControlInv, ControlAt
<1>5. CASE ~Reject(r) /\ (InsertTransaction(r) \/ LoadTransaction(r))
  BY <1>5 DEF InsertTransaction, LoadTransaction, Continue, UnitsInv, UnitsAt,
              TypeInv, TypeOK
<1>6. CASE FlushTransaction(r)
  BY <1>6 DEF FlushTransaction, AfterFlush, Continue, UnitsInv, UnitsAt,
              TypeInv, TypeOK
<1>7. QED
  BY <1>1, <1>2, <1>3, <1>4, <1>5, <1>6

\* Every step keeps UnitsInv.
LEMMA UnitsStep == TypeInv /\ UnitsInv /\ [Next]_vars => UnitsInv'
<1> SUFFICES ASSUME TypeInv, UnitsInv, [Next]_vars PROVE UnitsInv'
  OBVIOUS
<1>1. ASSUME NEW r \in Req,
             \/ \E q \in Workload : Receive(r, q)
             \/ Refuse(r) \/ Step(r) \/ Fail(r)
      PROVE  UnitsInv'
  <2>1. \A o \in Req \ {r} : UnitsAt(o)'
    BY <1>1, OthersUntouched, UntouchedUnits DEF UnitsInv
  <2>2. UnitsNonNegative'
    <3>1. CASE Commit(r)
      BY <3>1, CommitKeepsUnits
    <3>2. CASE ~Commit(r)
      BY <1>1, <3>2, TablesUnchanged DEF UnitsInv, UnitsNonNegative
    <3>3. QED
      BY <3>1, <3>2
  <2>3. UnitsAt(r)'
    <3>1. CASE \E q \in Workload : Receive(r, q)
      <4>1. PICK q \in Workload : Receive(r, q)
        BY <3>1
      <4>2. pc'[r] \notin {"flush_holding", "insert_holding"}
        BY <4>1, RequestAssumption, CallShape
           DEF Receive, FirstStep, TypeInv, TypeOK
      <4>3. QED
        BY <4>1, <4>2 DEF Receive, session, UnitsInv, UnitsAt
    <3>2. CASE Refuse(r) \/ Fail(r) \/ Refresh(r)
      BY <3>2, CloseKeepsUnits
         DEF Refuse, Fail, Refresh, Reject, Unavailable
    <3>3. CASE Step(r) /\ ~Refresh(r)
      BY <3>3, ReadsKeepUnits, ApplyCompletedKeepsUnits,
         FlushHoldingKeepsUnits, InsertHoldingKeepsUnits, CommitKeepsUnits
         DEF Step
    <3>4. QED
      BY <1>1, <3>1, <3>2, <3>3
  <2>4. QED
    BY <2>1, <2>2, <2>3 DEF UnitsInv
<1>2. CASE UNCHANGED vars
  <2>1. \A o \in Req : Untouched(o)
    BY <1>2 DEF vars, Untouched
  <2>2. UnitsNonNegative'
    BY <1>2 DEF vars, UnitsInv, UnitsNonNegative
  <2>3. QED
    BY <2>1, <2>2, UntouchedUnits DEF UnitsInv
<1>3. QED
  BY <1>1, <1>2 DEF Next, Quiescent

\* No holding ever has negative units, whatever the interleaving.
THEOREM UnitsAreNonNegative == Spec => []UnitsNonNegative
<1>1. Init => TypeInv /\ UnitsInv
  BY TypeInit, UnitsInit
<1>2. TypeInv /\ UnitsInv /\ [Next]_vars => (TypeInv /\ UnitsInv)'
  BY TypeStep, UnitsStep
<1>3. TypeInv /\ UnitsInv => UnitsNonNegative
  BY DEF UnitsInv
<1>4. QED
  BY <1>1, <1>2, <1>3, PTL DEF Spec

-----------------------------------------------------------------------------
(* At most one active holding per position, and no row is reactivated.     *)

\* What a commit does to the rows of holdings.
LEMMA CommittedHoldings ==
    ASSUME TypeInv, IndexInv, NEW r \in Req, Commit(r), NEW h \in HoldingId
    PROVE  /\ holdings[h] # None
              => /\ holdings'[h] # None
                 /\ holdings'[h].position = holdings[h].position
                 /\ holdings'[h].is_active => holdings[h].is_active
           /\ holdings[h] = None /\ holdings'[h] # None
              => /\ h = r
                 /\ Inserting(r)
                 /\ holdings'[h] = holdingWrite[r].row
<1>1. CASE holdingWrite[r] # None /\ holdingWrite[r].id = h
  <2>1. /\ holdings'[h] = CommittedHolding(holdings[h], holdingWrite[r])
        /\ holdingWrite[r] \in HoldingWrite
        /\ holdings[h] \in Holding \cup {None}
    BY <1>1 DEF Commit, TypeInv, TypeOK
  <2>2. CASE holdings[h] = None
    BY <1>1, <2>1, <2>2
       DEF CommittedHolding, IndexInv, IndexAt, Inserting
  <2>3. CASE holdings[h] # None
    <3>1. "is_active" \in holdingWrite[r].dirty
          => ~holdingWrite[r].row.is_active
      BY <1>1, <2>3 DEF IndexInv, IndexAt, Inserting
    <3>2. holdings'[h] \in Holding
      BY <2>1, CommittedRowTypes
    <3>3. /\ holdings'[h].position = holdings[h].position
          /\ holdings'[h].is_active => holdings[h].is_active
      BY <2>1, <2>3, <3>1 DEF CommittedHolding, Holding, HoldingWrite
    <3>4. QED
      BY <2>3, <3>2, <3>3, NoneAssumption, WriteAssumption
  <2>4. QED
    BY <2>2, <2>3
<1>2. CASE ~(holdingWrite[r] # None /\ holdingWrite[r].id = h)
  <2>1. holdings'[h] = holdings[h]
    BY <1>2 DEF Commit, TypeInv, TypeOK
  <2>2. QED
    BY <2>1
<1>3. QED
  BY <1>1, <1>2

\* No two seeded active holdings share a position, and nothing is written.
LEMMA IndexInit == Init => IndexInv
<1> SUFFICES ASSUME Init PROVE IndexInv
  OBVIOUS
<1>1. OneActiveHolding
  BY SeedAssumption
     DEF Init, OneActiveHolding, ActiveHoldings, IsActive, HoldingId
<1>2. \A r \in Req : IndexAt(r)
  BY DEF Init, IndexAt, Inserting, HoldingId
<1>3. QED
  BY <1>1, <1>2 DEF IndexInv

\* A holding some session has read stays stored, and was read active.
LEMMA SeenHoldingsStay ==
    ASSUME TypeInv, IndexInv, NEW r \in Req, Commit(r), NEW o \in Req,
           seen[o] # None
    PROVE  holdings'[seen[o].id] # None /\ seen[o].row.is_active
<1>1. seen[o] \in LoadedHolding
  BY DEF TypeInv, TypeOK
<1>2. seen[o].id \in HoldingId
  BY <1>1 DEF LoadedHolding
<1>3. holdings[seen[o].id] # None /\ seen[o].row.is_active
  BY DEF IndexInv, IndexAt
<1>4. QED
  BY <1>2, <1>3, CommittedHoldings

\* A commit keeps IndexInv: an INSERT has its position to itself, an UPDATE
\* activates nothing.
LEMMA CommitKeepsIndex ==
    ASSUME TypeInv, IndexInv, NEW r \in Req, Commit(r)
    PROVE  IndexInv'
<1>1. OneActiveHolding'
  <2> SUFFICES ASSUME NEW p \in Position,
                      NEW g \in HoldingId, NEW h \in HoldingId,
                      IsActive(holdings'[g]), holdings'[g].position = p,
                      IsActive(holdings'[h]), holdings'[h].position = p
               PROVE  g = h
    BY DEF OneActiveHolding, ActiveHoldings, IsActive
  <2>1. CASE holdings[g] # None /\ holdings[h] # None
    <3>1. g \in ActiveHoldings(p) /\ h \in ActiveHoldings(p)
      BY <2>1, CommittedHoldings DEF ActiveHoldings, IsActive
    <3>2. QED
      BY <3>1 DEF IndexInv, OneActiveHolding
  <2>2. CASE holdings[g] = None /\ holdings[h] = None
    BY <2>2, CommittedHoldings DEF IsActive
  <2>3. ASSUME NEW new \in {g, h}, NEW old \in {g, h},
               holdings[new] = None, holdings[old] # None
        PROVE  FALSE
    <3>1. Inserting(r) /\ holdingWrite[r].row.position = p
      BY <2>3, CommittedHoldings DEF IsActive
    <3>2. ActiveHoldings(p) = {}
      BY <3>1 DEF IndexInv, IndexAt
    <3>3. old \in ActiveHoldings(p)
      BY <2>3, CommittedHoldings DEF ActiveHoldings, IsActive
    <3>4. QED
      BY <3>2, <3>3
  <2>4. QED
    BY <2>1, <2>2, <2>3
<1>2. ASSUME NEW o \in Req \ {r}
      PROVE  IndexAt(o)'
  <2>1. Untouched(o)
    BY OthersUntouched DEF Step
  <2>2. \A x \in Req \ {r} : Inserting(x)' = Inserting(x)
    <3> SUFFICES ASSUME NEW x \in Req \ {r}
                 PROVE  Inserting(x)' = Inserting(x)
      OBVIOUS
    <3>1. holdingWrite'[x] = holdingWrite[x]
      BY OthersUntouched DEF Step, Untouched
    <3>2. holdingWrite[x] # None => holdingWrite[x].id \in HoldingId
      BY DEF TypeInv, TypeOK, HoldingWrite
    <3>3. Inserting(x) => holdingWrite[x].id = x
      BY DEF IndexInv, IndexAt
    <3>4. QED
      BY <3>1, <3>2, <3>3, CommittedHoldings DEF Inserting
  <2>3. ~Inserting(r)'
    BY DEF Commit, Close, Inserting, TypeInv, TypeOK
  <2>4. holdings'[o] # None => holdings[o] # None
    BY CommittedHoldings DEF HoldingId
  <2>5. seen[o] # None => holdings'[seen[o].id] # None
    BY SeenHoldingsStay
  <2>6. ASSUME Inserting(o)
        PROVE  ActiveHoldings(holdingWrite[o].row.position)' = {}
    <3> DEFINE p == holdingWrite[o].row.position
    <3>1. SUFFICES ASSUME NEW h \in HoldingId, IsActive(holdings'[h]),
                          holdings'[h].position = p
                   PROVE  FALSE
      BY <2>1 DEF ActiveHoldings, IsActive, Untouched
    <3>2. ActiveHoldings(p) = {}
      BY <2>6 DEF IndexInv, IndexAt
    <3>3. holdings[h] = None
      BY <3>1, <3>2, CommittedHoldings DEF ActiveHoldings, IsActive
    <3>4. Inserting(r) /\ holdingWrite[r].row.position = p
      BY <3>1, <3>3, CommittedHoldings DEF IsActive
    <3>5. QED
      BY <2>6, <3>4 DEF IndexInv, IndexAt
  <2>7. IndexAt(o)
    BY DEF IndexInv
  <2>8. \A x \in Req \ {r} : holdingWrite'[x] = holdingWrite[x]
    BY OthersUntouched DEF Step, Untouched
  <2>9. Inserting(o)' =>
          /\ ActiveHoldings(holdingWrite[o].row.position)' = {}
          /\ \A x \in Req \ {o} :
                Inserting(x)' => holdingWrite'[x].row.position
                                 # holdingWrite'[o].row.position
    BY <2>2, <2>3, <2>6, <2>7, <2>8 DEF IndexAt
  <2>10. QED
    BY <2>1, <2>2, <2>4, <2>5, <2>7, <2>9 DEF IndexAt, Untouched
<1>3. IndexAt(r)'
  <2>1. holdingWrite'[r] = None /\ pc'[r] \in {"refresh", "done"}
    BY DEF Commit, Close, TypeInv, TypeOK
  <2>2. seen'[r] = seen[r] \/ seen'[r] = None
    BY DEF Commit, Close, TypeInv, TypeOK
  <2>3. seen[r] # None
        => holdings'[seen[r].id] # None /\ seen[r].row.is_active
    BY SeenHoldingsStay
  <2>4. QED
    BY <2>1, <2>2, <2>3 DEF IndexAt, Inserting
<1>4. QED
  BY <1>1, <1>2, <1>3 DEF IndexInv

\* A request that is answered keeps its part of IndexInv.
LEMMA CloseKeepsIndexAt ==
    ASSUME TypeInv, IndexInv, NEW r \in Req, NEW answer, Close(r, answer),
           holdings' = holdings
    PROVE  IndexAt(r)' /\ ~Inserting(r)'
BY DEF Close, IndexAt, Inserting, TypeInv, TypeOK

\* Before its commit a request has written no holding.
LEMMA NoWriteYet ==
    ASSUME IndexInv, NEW r \in Req, pc[r] # "commit"
    PROVE  holdingWrite[r] = None
BY DEF IndexInv, IndexAt

\* The steps that write no holding keep their part of IndexInv.
LEMMA ReadsKeepIndexAt ==
    ASSUME TypeInv, IndexInv, NEW r \in Req,
           \/ AvailableUnits(r) \/ ApplyCompleted(r) \/ LoadHolding(r)
           \/ FindHolding(r) \/ InsertTransaction(r) \/ LoadTransaction(r)
           \/ FlushTransaction(r)
    PROVE  IndexAt(r)' /\ ~Inserting(r)'
<1>1. CASE Reject(r)
  BY <1>1, CloseKeepsIndexAt DEF Reject, tables
<1>2. ASSUME holdingWrite'[r] = None, holdings' = holdings,
             holdings[r] = None,
             seen'[r] # None
             => seen'[r].row.is_active /\ holdings[seen'[r].id] # None
      PROVE  IndexAt(r)' /\ ~Inserting(r)'
  BY <1>2 DEF IndexAt, Inserting
<1>3. holdingWrite[r] = None /\ holdings[r] = None
  BY NoWriteYet DEF IndexInv, IndexAt, AvailableUnits, ApplyCompleted,
     LoadHolding, FindHolding, InsertTransaction, LoadTransaction,
     FlushTransaction
<1>4. seen[r] # None
      => seen[r].row.is_active /\ holdings[seen[r].id] # None
  BY DEF IndexInv, IndexAt
<1>5. CASE ~Reject(r) /\ AvailableUnits(r)
  <2>1. \A h \in ActiveHoldings(Subject(r).position) :
          holdings[h].is_active /\ holdings[h] # None
    BY DEF ActiveHoldings, IsActive
  <2>2. QED
    BY <1>2, <1>3, <1>4, <1>5, <2>1
       DEF AvailableUnits, Continue, session, tables, TypeInv, TypeOK
<1>6. CASE ~Reject(r) /\ ApplyCompleted(r)
  <2>1. \A h \in ActiveHoldings(Subject(r).position) :
          /\ \A row \in SessionRows(r, h) : row.is_active
          /\ holdings[h] # None
    BY <1>4 DEF ActiveHoldings, IsActive, SessionRows
  <2>2. QED
    BY <1>2, <1>3, <1>4, <1>6, <2>1
       DEF ApplyCompleted, Continue, session, tables, TypeInv, TypeOK
<1>7. CASE ~Reject(r) /\ LoadHolding(r)
  BY <1>2, <1>3, <1>7
     DEF LoadHolding, IsActive, Continue, tables, TypeInv, TypeOK
<1>8. CASE ~Reject(r) /\ (FindHolding(r) \/ LoadTransaction(r))
  BY <1>2, <1>3, <1>4, <1>8
     DEF FindHolding, LoadTransaction, Continue, session, tables
<1>9. CASE InsertTransaction(r) \/ FlushTransaction(r)
  BY <1>2, <1>3, <1>4, <1>9
     DEF InsertTransaction, FlushTransaction, Continue, tables
<1>10. QED
  BY <1>1, <1>5, <1>6, <1>7, <1>8, <1>9

\* The loaded row is active, so the UPDATE leaves is_active alone or clears it.
LEMMA FlushHoldingKeepsIndexAt ==
    ASSUME TypeInv, IndexInv, NEW r \in Req, FlushHolding(r)
    PROVE  IndexAt(r)' /\ ~Inserting(r)'
<1> DEFINE w == [id |-> seen[r].id, row |-> ChangedHolding(r),
                 dirty |-> DirtyHolding(seen[r].row, ChangedHolding(r))]
<1>1. /\ pc[r] = "flush_holding"
      /\ holdingWrite' = holdingWrite
         \/ holdingWrite' = [holdingWrite EXCEPT ![r] = w]
      /\ Continue(r, "commit")
      /\ seen' = seen
  BY DEF FlushHolding
<1>2. /\ seen[r] # None
      /\ seen[r].row.is_active
      /\ holdings[seen[r].id] # None
      /\ holdings[r] = None
  BY <1>1 DEF IndexInv, IndexAt, TypeInv, ControlInv, ControlAt
<1>3. seen[r].row \in Holding /\ ChangedHolding(r) \in Holding
  BY <1>1, <1>2, ChangedHoldingType DEF LoadedHolding, TypeInv, TypeOK
<1>4. "is_active" \in w.dirty => ~w.row.is_active
  BY <1>2, <1>3 DEF DirtyHolding, Holding
<1>5. holdingWrite[r] = None
  BY <1>1, NoWriteYet
<1>6. /\ holdings' = holdings
      /\ pc'[r] = "commit"
      /\ holdingWrite'[r] = None \/ holdingWrite'[r] = w
  BY <1>1, <1>5 DEF Continue, tables, TypeInv, TypeOK
<1>7. QED
  BY <1>1, <1>2, <1>4, <1>6 DEF IndexAt, Inserting

\* The index made the INSERT wait for every other one of its position, and
\* found no committed row.
LEMMA InsertHoldingKeepsIndexAt ==
    ASSUME TypeInv, IndexInv, NEW r \in Req, InsertHolding(r)
    PROVE  /\ IndexAt(r)'
           /\ Inserting(r)' =>
                \A o \in Req \ {r} :
                   Inserting(o) => holdingWrite[o].row.position
                                   # holdingWrite'[r].row.position
<1>1. CASE Reject(r) \/ Unavailable(r)
  BY <1>1, CloseKeepsIndexAt DEF Reject, Unavailable, tables
<1>2. CASE ~(Reject(r) \/ Unavailable(r))
  <2> DEFINE p == NewHolding(r).position
  <2>1. /\ pc[r] = "insert_holding"
        /\ ~IndexBusy(r, p)
        /\ ActiveHoldings(p) = {}
        /\ holdingWrite' = [holdingWrite EXCEPT ![r] =
                              [id |-> r, row |-> NewHolding(r),
                               dirty |-> HoldingColumns]]
        /\ Continue(r, "commit")
        /\ UNCHANGED <<loaded, seen, txnWrite>>
    BY <1>2 DEF InsertHolding, IndexConflict
  <2>2. /\ holdingWrite'[r].id = r
        /\ holdingWrite'[r].row.position = p
        /\ holdings' = holdings
        /\ pc'[r] = "commit"
    BY <2>1 DEF Continue, tables, TypeInv, TypeOK
  <2>3. \A o \in Req \ {r} :
          Inserting(o) => holdingWrite[o].row.position # p
    BY <2>1 DEF IndexBusy, Inserting
  <2>4. \A o \in Req \ {r} : /\ Inserting(o)' = Inserting(o)
                            /\ holdingWrite'[o] = holdingWrite[o]
    BY <2>1, <2>2 DEF Inserting, TypeInv, TypeOK
  <2>5. ActiveHoldings(holdingWrite[r].row.position)' = {}
    BY <2>1, <2>2 DEF ActiveHoldings
  <2>6. holdings[r] = None
    BY <2>1 DEF IndexInv, IndexAt
  <2>7. seen'[r] # None
        => seen'[r].row.is_active /\ holdings'[seen'[r].id] # None
    BY <2>1, <2>2 DEF IndexInv, IndexAt
  <2>8. Inserting(r)'
    BY <2>1, <2>2, <2>6, NoneAssumption, WriteAssumption, NewHoldingType
       DEF Inserting, TypeInv, TypeOK, HoldingWrite, HoldingId
  <2>9. IndexAt(r)'
    BY <2>2, <2>3, <2>4, <2>5, <2>6, <2>7, <2>8 DEF IndexAt
  <2>10. QED
    BY <2>2, <2>3, <2>9
<1>3. QED
  BY <1>1, <1>2

\* A step of r that leaves the tables alone keeps IndexAt of the others, if
\* what it inserts meets none of their inserts.
LEMMA UntouchedIndex ==
    ASSUME IndexInv, NEW r \in Req, NEW o \in Req \ {r},
           \A x \in Req \ {r} : Untouched(x),
           holdings' = holdings,
           Inserting(r)' =>
              \A x \in Req \ {r} : Inserting(x) =>
                 holdingWrite[x].row.position
                 # holdingWrite'[r].row.position
    PROVE  IndexAt(o)'
<1>1. IndexAt(o)
  BY DEF IndexInv
<1>2. \A x \in Req \ {r} : /\ Inserting(x)' = Inserting(x)
                          /\ holdingWrite'[x] = holdingWrite[x]
  BY DEF Untouched, Inserting
<1>3. ActiveHoldings(holdingWrite[o].row.position)' =
          ActiveHoldings(holdingWrite[o].row.position)
  BY <1>2 DEF ActiveHoldings
<1>4. \A x \in Req \ {o} :
        Inserting(o)' /\ Inserting(x)' =>
           holdingWrite'[x].row.position # holdingWrite'[o].row.position
  BY <1>1, <1>2 DEF IndexAt
<1>5. QED
  BY <1>1, <1>2, <1>3, <1>4 DEF IndexAt, Untouched

\* Every step keeps IndexInv.
LEMMA IndexStep == TypeInv /\ IndexInv /\ [Next]_vars => IndexInv'
<1> SUFFICES ASSUME TypeInv, IndexInv, [Next]_vars PROVE IndexInv'
  OBVIOUS
<1>1. ASSUME NEW r \in Req,
             \/ \E q \in Workload : Receive(r, q)
             \/ Refuse(r) \/ Step(r) \/ Fail(r),
             ~Commit(r)
      PROVE  IndexInv'
  <2>1. holdings' = holdings
    BY <1>1, TablesUnchanged
  <2>2. \A x \in Req \ {r} : Untouched(x)
    BY <1>1, OthersUntouched
  <2>3. /\ IndexAt(r)'
        /\ Inserting(r)' =>
             \A x \in Req \ {r} : Inserting(x) =>
                holdingWrite[x].row.position
                # holdingWrite'[r].row.position
    <3>1. CASE \E q \in Workload : Receive(r, q)
      BY <2>1, <3>1
         DEF Receive, session, IndexInv, IndexAt, Inserting
    <3>2. CASE Refuse(r) \/ Fail(r) \/ Refresh(r)
      BY <2>1, <3>2, CloseKeepsIndexAt
         DEF Refuse, Fail, Refresh, Reject, Unavailable
    <3>3. CASE Step(r) /\ ~Refresh(r)
      BY <1>1, <3>3, ReadsKeepIndexAt, FlushHoldingKeepsIndexAt,
         InsertHoldingKeepsIndexAt
         DEF Step
    <3>4. QED
      BY <1>1, <3>1, <3>2, <3>3
  <2>4. \A o \in Req \ {r} : IndexAt(o)'
    BY <2>1, <2>2, <2>3, UntouchedIndex
  <2>5. OneActiveHolding'
    BY <2>1 DEF IndexInv, OneActiveHolding, ActiveHoldings
  <2>6. QED
    BY <2>3, <2>4, <2>5 DEF IndexInv
<1>2. CASE UNCHANGED vars
  <2>1. \A r \in Req : IndexAt(r)'
    BY <1>2 DEF vars, IndexInv, IndexAt, Inserting, ActiveHoldings
  <2>2. OneActiveHolding'
    BY <1>2 DEF vars, IndexInv, OneActiveHolding, ActiveHoldings
  <2>3. QED
    BY <2>1, <2>2 DEF IndexInv
<1>3. QED
  BY <1>1, <1>2, CommitKeepsIndex DEF Next, Quiescent

\* A position never has two active holdings, whatever the interleaving of the
\* existence checks and the inserts.
THEOREM OneActiveHoldingPerPosition == Spec => []OneActiveHolding
<1>1. Init => TypeInv /\ IndexInv
  BY TypeInit, IndexInit
<1>2. TypeInv /\ IndexInv /\ [Next]_vars => (TypeInv /\ IndexInv)'
  BY TypeStep, IndexStep
<1>3. TypeInv /\ IndexInv => OneActiveHolding
  BY DEF IndexInv
<1>4. QED
  BY <1>1, <1>2, <1>3, PTL DEF Spec

-----------------------------------------------------------------------------
(* Soft deletion is final.                                                 *)

\* Nothing is loaded and nothing is written at first.
LEMMA DeletionInit == Init => DeletionInv
BY DEF Init, DeletionInv, DeletionAt, TransactionId

\* What a commit does to the rows of transactions.
LEMMA CommittedTransactions ==
    ASSUME TypeInv, DeletionInv, NEW r \in Req, Commit(r),
           NEW t \in TransactionId
    PROVE  /\ transactions[t] # None
              => /\ transactions'[t] # None
                 /\ transactions'[t].is_active => transactions[t].is_active
           /\ transactions[t] = None /\ transactions'[t] # None => t = r
<1>1. CASE txnWrite[r] # None /\ txnWrite[r].id = t
  <2>1. /\ transactions'[t] =
             CommittedTransaction(transactions[t], txnWrite[r])
        /\ txnWrite[r] \in TransactionWrite
        /\ transactions[t] \in Transaction \cup {None}
        /\ pc[r] = "commit"
    BY <1>1 DEF Commit, TypeInv, TypeOK
  <2>2. CASE transactions[t] = None
    <3>1. call[r].op \notin {"update_transaction", "delete_transaction"}
      BY <1>1, <2>1, <2>2
         DEF DeletionInv, DeletionAt, SubjectId, TypeInv, ControlInv,
             ControlAt
    <3>2. t = r
      BY <1>1, <3>1 DEF DeletionInv, DeletionAt, SubjectId
    <3>3. QED
      BY <2>2, <3>2
  <2>3. CASE transactions[t] # None
    <3>1. "is_active" \in txnWrite[r].dirty => ~txnWrite[r].row.is_active
      BY <1>1, <2>3 DEF DeletionInv, DeletionAt
    <3>2. transactions'[t] \in Transaction
      BY <2>1, CommittedRowTypes
    <3>3. transactions'[t].is_active => transactions[t].is_active
      BY <2>1, <2>3, <3>1
         DEF CommittedTransaction, Transaction, TransactionWrite
    <3>4. QED
      BY <2>3, <3>2, <3>3, NoneAssumption, WriteAssumption
  <2>4. QED
    BY <2>2, <2>3
<1>2. CASE ~(txnWrite[r] # None /\ txnWrite[r].id = t)
  <2>1. transactions'[t] = transactions[t]
    BY <1>2 DEF Commit, TypeInv, TypeOK
  <2>2. QED
    BY <2>1
<1>3. QED
  BY <1>1, <1>2

\* The transaction a session has loaded is a stored one, named by its call.
LEMMA LoadedId ==
    ASSUME TypeInv, DeletionInv, NEW o \in Req, loaded[o] # None
    PROVE  /\ call[o].id \in TransactionId
           /\ transactions[call[o].id] # None
<1>1. /\ pc[o] \notin {"idle", "done"}
      /\ call[o].op \in {"update_transaction", "delete_transaction"}
      /\ transactions[call[o].id] # None
  BY DEF DeletionInv, DeletionAt
<1>2. call[o] \in Call
  BY <1>1 DEF TypeInv, TypeOK, ControlInv, ControlAt
<1>3. QED
  BY <1>1, <1>2, CallShape

\* A commit keeps DeletionInv: rows never disappear from transactions.
LEMMA CommitKeepsDeletion ==
    ASSUME TypeInv, DeletionInv, NEW r \in Req, Commit(r)
    PROVE  DeletionInv'
<1>1. ASSUME NEW o \in Req \ {r}
      PROVE  DeletionAt(o)'
  <2>1. Untouched(o) /\ DeletionAt(o)
    BY OthersUntouched DEF Step, DeletionInv
  <2>2. transactions'[o] # None => transactions[o] # None
    BY CommittedTransactions DEF TransactionId
  <2>3. loaded[o] # None => transactions'[call[o].id] # None
    BY LoadedId, CommittedTransactions
  <2>4. SubjectId(o)' = SubjectId(o)
    BY <2>1, SubjectSame
  <2>5. txnWrite[o] # None /\ transactions'[txnWrite[o].id] # None
        => transactions[txnWrite[o].id] # None
    <3>1. SUFFICES ASSUME txnWrite[o] # None,
                          transactions'[txnWrite[o].id] # None
                   PROVE  transactions[txnWrite[o].id] # None
      OBVIOUS
    <3>2. txnWrite[o].id \in TransactionId
      BY <3>1 DEF TypeInv, TypeOK, TransactionWrite
    <3>3. CASE txnWrite[o].id # r
      BY <3>1, <3>2, <3>3, CommittedTransactions
    <3>4. CASE txnWrite[o].id = r
      <4>1. call[o].op \in {"update_transaction", "delete_transaction"}
        BY <2>1, <3>1, <3>4 DEF DeletionAt, SubjectId
      <4>2. pc[o] \notin {"idle", "load_transaction", "done"}
        BY <2>1, <3>1 DEF DeletionAt
      <4>3. loaded[o] # None /\ txnWrite[o].id = call[o].id
        BY <2>1, <3>1, <4>1, <4>2
           DEF DeletionAt, SubjectId, TypeInv, ControlInv, ControlAt
      <4>4. QED
        BY <4>3, LoadedId
    <3>5. QED
      BY <3>3, <3>4
  <2>6. QED
    BY <2>1, <2>2, <2>3, <2>4, <2>5 DEF DeletionAt, Untouched
<1>2. DeletionAt(r)'
  <2>1. txnWrite'[r] = None /\ pc'[r] \in {"refresh", "done"}
        /\ call'[r] = call[r]
    BY DEF Commit, Close, TypeInv, TypeOK
  <2>2. \/ loaded'[r] = loaded[r] /\ pc'[r] = "refresh"
        \/ loaded'[r] = None
    BY DEF Commit, Close, TypeInv, TypeOK
  <2>3. loaded[r] # None => transactions'[call[r].id] # None
    BY LoadedId, CommittedTransactions
  <2>4. QED
    BY <2>1, <2>2, <2>3 DEF DeletionInv, DeletionAt
<1>3. QED
  BY <1>1, <1>2 DEF DeletionInv

\* The row was loaded active: the UPDATE leaves is_active alone or clears it.
LEMMA FlushTransactionKeepsDeletion ==
    ASSUME TypeInv, DeletionInv, NEW r \in Req, FlushTransaction(r)
    PROVE  DeletionAt(r)'
<1> DEFINE w == [id |-> call[r].id, row |-> Subject(r),
                 dirty |-> DirtyTransaction(loaded[r], Subject(r))]
<1>1. /\ pc[r] = "flush_transaction"
      /\ call[r].op \in {"update_transaction", "delete_transaction"}
      /\ loaded[r] # None
  BY DEF FlushTransaction, TypeInv, ControlInv, ControlAt
<1>2. /\ loaded[r].is_active
      /\ transactions[call[r].id] # None
      /\ transactions[r] = None
  BY <1>1 DEF DeletionInv, DeletionAt
<1>3. loaded[r] \in Transaction /\ Subject(r) \in Transaction
  BY <1>1, SubjectType DEF TypeInv, TypeOK
<1>4. "is_active" \in w.dirty => ~w.row.is_active
  BY <1>2, <1>3 DEF DirtyTransaction, Transaction
<1>5. /\ txnWrite'[r] = txnWrite[r] \/ txnWrite'[r] = w
      /\ transactions' = transactions
      /\ call' = call
      /\ loaded' = loaded
  BY DEF FlushTransaction, Continue, tables, TypeInv, TypeOK
<1>6. pc'[r] \in {"available_units", "apply_completed", "commit"}
  BY DEF FlushTransaction, AfterFlush, Continue, TypeInv, TypeOK
<1>7. SubjectId(r)' = call[r].id /\ SubjectId(r) = call[r].id
  BY <1>1, <1>5 DEF SubjectId
<1>8. CASE txnWrite'[r] = w
  BY <1>1, <1>2, <1>4, <1>5, <1>6, <1>7, <1>8 DEF DeletionAt
<1>9. CASE txnWrite'[r] = txnWrite[r]
  BY <1>1, <1>2, <1>5, <1>6, <1>7, <1>9 DEF DeletionInv, DeletionAt
<1>10. QED
  BY <1>5, <1>8, <1>9

\* A request that is answered keeps its part of DeletionInv.
LEMMA CloseKeepsDeletion ==
    ASSUME TypeInv, DeletionInv, NEW r \in Req, NEW answer,
           Close(r, answer), transactions' = transactions
    PROVE  DeletionAt(r)'
BY DEF Close, DeletionAt, TypeInv, TypeOK

\* The steps that write no stored transaction keep DeletionInv.
LEMMA OtherStepsKeepDeletion ==
    ASSUME TypeInv, DeletionInv, NEW r \in Req,
           \/ AvailableUnits(r) \/ ApplyCompleted(r) \/ FindHolding(r)
           \/ InsertHolding(r) \/ LoadHolding(r) \/ FlushHolding(r)
           \/ InsertTransaction(r) \/ LoadTransaction(r)
    PROVE  DeletionAt(r)'
<1>1. CASE Reject(r) \/ Unavailable(r)
  BY <1>1, CloseKeepsDeletion DEF Reject, Unavailable, tables
<1>2. ASSUME transactions' = transactions, call' = call,
             loaded' = loaded, txnWrite' = txnWrite,
             pc[r] \notin {"idle", "load_transaction", "refresh", "done"},
             pc'[r] \notin {"idle", "load_transaction", "flush_transaction",
                           "refresh", "done"}
      PROVE  DeletionAt(r)'
  BY <1>2 DEF DeletionInv, DeletionAt, SubjectId
<1>3. CASE /\ ~Reject(r) /\ ~Unavailable(r)
           /\ \/ AvailableUnits(r) \/ ApplyCompleted(r) \/ FindHolding(r)
              \/ InsertHolding(r) \/ LoadHolding(r) \/ FlushHolding(r)
  <2>1. /\ transactions' = transactions
        /\ call' = call
        /\ loaded' = loaded
        /\ txnWrite' = txnWrite
    BY <1>3 DEF AvailableUnits, ApplyCompleted, FindHolding, InsertHolding,
                LoadHolding, FlushHolding, Continue, session, tables
  <2>2. /\ pc[r] \notin {"idle", "load_transaction", "refresh", "done"}
        /\ pc'[r] \notin {"idle", "load_transaction", "flush_transaction",
                         "refresh", "done"}
    BY <1>3 DEF AvailableUnits, ApplyCompleted, FindHolding, InsertHolding,
                LoadHolding, FlushHolding, Continue, TypeInv, TypeOK
  <2>3. QED
    BY <1>2, <2>1, <2>2
<1>4. CASE InsertTransaction(r)
  <2>1. /\ call[r].op = "create_transaction"
        /\ transactions[r] = None
        /\ loaded[r] = None
    BY <1>4 DEF InsertTransaction, TypeInv, ControlInv, ControlAt,
                DeletionInv, DeletionAt
  <2>2. /\ transactions' = transactions
        /\ call' = call
        /\ loaded' = loaded
        /\ txnWrite'[r].id = r
        /\ pc'[r] \in {"apply_completed", "commit"}
    BY <1>4 DEF InsertTransaction, Continue, tables, TypeInv, TypeOK
  <2>3. QED
    BY <2>1, <2>2 DEF DeletionAt, SubjectId
<1>5. CASE ~Reject(r) /\ LoadTransaction(r)
  <2>1. call[r].op \in {"update_transaction", "delete_transaction"}
    BY <1>5 DEF LoadTransaction, TypeInv, ControlInv, ControlAt
  <2>2. /\ transactions' = transactions
        /\ call' = call
        /\ loaded'[r] = transactions[call[r].id]
        /\ IsActive(transactions[call[r].id])
        /\ txnWrite' = txnWrite
        /\ pc'[r] = "flush_transaction"
        /\ pc[r] = "load_transaction"
    BY <1>5 DEF LoadTransaction, Continue, tables, TypeInv, TypeOK
  <2>3. QED
    BY <2>1, <2>2 DEF DeletionInv, DeletionAt, IsActive, SubjectId
<1>6. QED
  BY <1>1, <1>3, <1>4, <1>5

\* Every step keeps DeletionInv.
LEMMA DeletionStep == TypeInv /\ DeletionInv /\ [Next]_vars => DeletionInv'
<1> SUFFICES ASSUME TypeInv, DeletionInv, [Next]_vars PROVE DeletionInv'
  OBVIOUS
<1>1. ASSUME NEW r \in Req,
             \/ \E q \in Workload : Receive(r, q)
             \/ Refuse(r) \/ Step(r) \/ Fail(r),
             ~Commit(r)
      PROVE  DeletionInv'
  <2>1. transactions' = transactions
    BY <1>1, TablesUnchanged
  <2>2. \A o \in Req \ {r} : DeletionAt(o)'
    BY <1>1, <2>1, OthersUntouched, SubjectSame
       DEF DeletionInv, DeletionAt, Untouched
  <2>3. DeletionAt(r)'
    <3>1. CASE \E q \in Workload : Receive(r, q)
      BY <2>1, <3>1
         DEF Receive, session, DeletionInv, DeletionAt, TypeInv, TypeOK
    <3>2. CASE Refuse(r) \/ Fail(r) \/ Refresh(r)
      BY <2>1, <3>2, CloseKeepsDeletion
         DEF Refuse, Fail, Refresh, Reject, Unavailable
    <3>3. CASE Step(r) /\ ~Refresh(r)
      BY <1>1, <3>3, OtherStepsKeepDeletion, FlushTransactionKeepsDeletion
         DEF Step
    <3>4. QED
      BY <1>1, <3>1, <3>2, <3>3
  <2>4. QED
    BY <2>2, <2>3 DEF DeletionInv
<1>2. CASE UNCHANGED vars
  BY <1>2 DEF vars, DeletionInv, DeletionAt, SubjectId
<1>3. QED
  BY <1>1, <1>2, CommitKeepsDeletion DEF Next, Quiescent

-----------------------------------------------------------------------------
(* A completion and the change of its holding are committed together.      *)

\* No request has started, so none is completing anything.
LEMMA CompletionInit == Init => CompletionInv
BY DEF Init, CompletionInv, CompletionAt

\* A request another one's step leaves alone keeps its part of CompletionInv.
LEMMA UntouchedCompletion ==
    ASSUME NEW o \in Req, Untouched(o), CompletionAt(o),
           seen[o] # None
           => holdings'[seen[o].id].position = holdings[seen[o].id].position
    PROVE  CompletionAt(o)'
BY SubjectSame DEF CompletionAt, CommitsWhole, WritesCompleted, Untouched

\* A request that is answered keeps its part of CompletionInv.
LEMMA CloseKeepsCompletion ==
    ASSUME TypeInv, NEW r \in Req, NEW answer, Close(r, answer)
    PROVE  CompletionAt(r)'
BY DEF Close, CompletionAt, TypeInv, TypeOK

\* A create whose transaction is not COMPLETED goes straight to its commit.
LEMMA InsertTransactionKeepsCompletion ==
    ASSUME TypeInv, IndexInv, CompletionInv, NEW r \in Req,
           InsertTransaction(r)
    PROVE  CompletionAt(r)'
<1>1. /\ pc[r] = "insert_transaction"
      /\ call[r].op = "create_transaction"
      /\ holdingWrite[r] = None
  BY NoWriteYet DEF InsertTransaction, TypeInv, ControlInv, ControlAt
<1>2. /\ txnWrite'[r] = [id |-> r, row |-> Subject(r),
                         dirty |-> TransactionColumns]
      /\ pc'[r] = IF call[r].transaction_status = "COMPLETED"
                  THEN "apply_completed" ELSE "commit"
      /\ UNCHANGED <<holdings, call, loaded, seen, holdingWrite>>
  BY DEF InsertTransaction, Continue, tables, TypeInv, TypeOK
<1>3. /\ Subject(r)' = Subject(r)
      /\ Subject(r).transaction_status = call[r].transaction_status
  BY <1>1, <1>2 DEF Subject
<1>4. txnWrite'[r] # None
  BY <1>1, <1>2, SubjectType, NoneAssumption, WriteAssumption
     DEF TypeInv, TransactionWrite, TransactionId
<1>5. CASE call[r].transaction_status = "COMPLETED"
  BY <1>1, <1>2, <1>3, <1>4, <1>5
     DEF CompletionInv, CompletionAt, WritesCompleted, TransactionColumns
<1>6. CASE call[r].transaction_status # "COMPLETED"
  <2>1. ~WritesCompleted(r)'
    BY <1>2, <1>3, <1>6 DEF WritesCompleted
  <2>2. CommitsWhole(r)'
    BY <1>1, <1>2, <2>1 DEF CommitsWhole
  <2>3. QED
    BY <1>2, <1>6, <2>2 DEF CompletionInv, CompletionAt
<1>7. QED
  BY <1>5, <1>6

\* An update that does not complete the row leaves its status alone or writes
\* another one.
LEMMA FlushTransactionKeepsCompletion ==
    ASSUME TypeInv, IndexInv, DeletionInv, CompletionInv, NEW r \in Req,
           FlushTransaction(r)
    PROVE  CompletionAt(r)'
<1> DEFINE w == [id |-> call[r].id, row |-> Subject(r),
                 dirty |-> DirtyTransaction(loaded[r], Subject(r))]
<1>1. /\ pc[r] = "flush_transaction"
      /\ call[r].op \in {"update_transaction", "delete_transaction"}
      /\ loaded[r] # None
      /\ holdingWrite[r] = None
  BY NoWriteYet DEF FlushTransaction, TypeInv, ControlInv, ControlAt
<1>2. /\ pc'[r] = AfterFlush(loaded[r], Subject(r))
      /\ UNCHANGED <<holdings, call, loaded, seen, holdingWrite>>
      /\ \/ w.dirty = {} /\ txnWrite' = txnWrite
         \/ w.dirty # {} /\ txnWrite'[r] = w
  BY DEF FlushTransaction, Continue, tables, TypeInv, TypeOK
<1>3. Subject(r)' = Subject(r)
  BY <1>2 DEF Subject
<1>4. /\ w \in TransactionWrite
      /\ loaded[r] \in Transaction
  BY <1>1, SubjectType
     DEF TransactionWrite, DirtyTransaction, SubjectId, TypeInv, TypeOK
<1>5. w # None
  BY <1>4, NoneAssumption, WriteAssumption
<1>6. CASE AfterFlush(loaded[r], Subject(r)) # "commit"
  <2>1. /\ Subject(r).transaction_status = "COMPLETED"
        /\ loaded[r].transaction_status # "COMPLETED"
        /\ pc'[r] \in {"available_units", "apply_completed"}
    BY <1>2, <1>6 DEF AfterFlush
  <2>2. "transaction_status" \in w.dirty
    BY <2>1 DEF DirtyTransaction, TransactionColumns
  <2>3. WritesCompleted(r)' /\ txnWrite'[r].row = Subject(r)'
    BY <1>2, <1>3, <1>5, <2>1, <2>2 DEF WritesCompleted
  <2>4. QED
    BY <1>2, <2>1, <2>3 DEF CompletionInv, CompletionAt
<1>7. CASE AfterFlush(loaded[r], Subject(r)) = "commit"
  <2>1. ~("transaction_status" \in w.dirty
          /\ Subject(r).transaction_status = "COMPLETED")
    BY <1>7 DEF AfterFlush, DirtyTransaction
  <2>2. txnWrite[r] = None
    BY <1>1 DEF DeletionInv, DeletionAt
  <2>3. CommitsWhole(r)'
    BY <1>1, <1>2, <2>1, <2>2 DEF CommitsWhole, WritesCompleted
  <2>4. QED
    BY <1>2, <1>7, <2>3 DEF CompletionInv, CompletionAt
<1>8. QED
  BY <1>6, <1>7

\* The availability check keeps what an UPDATE to COMPLETED has flushed.
LEMMA AvailableUnitsKeepsCompletion ==
    ASSUME TypeInv, CompletionInv, NEW r \in Req, AvailableUnits(r)
    PROVE  CompletionAt(r)'
<1>1. CASE Reject(r)
  BY <1>1, CloseKeepsCompletion DEF Reject
<1>2. CASE ~Reject(r)
  <2>1. /\ pc[r] = "available_units"
        /\ pc'[r] = IF call[r].op = "create_transaction"
                    THEN "insert_transaction" ELSE "apply_completed"
        /\ UNCHANGED <<holdings, call, loaded, txnWrite, holdingWrite>>
    BY <1>2 DEF AvailableUnits, Continue, session, tables, TypeInv, TypeOK
  <2>2. IsTransactionCall(r)
    BY <2>1 DEF TypeInv, ControlInv, ControlAt
  <2>3. seen'[r] = seen[r] \/ seen'[r].row = holdings[seen'[r].id]
    BY <1>2 DEF AvailableUnits, session, TypeInv, TypeOK
  <2>4. Subject(r)' = Subject(r)
    BY <2>1 DEF Subject
  <2>5. QED
    BY <2>1, <2>2, <2>3, <2>4
       DEF CompletionInv, CompletionAt, WritesCompleted, IsTransactionCall
<1>3. QED
  BY <1>1, <1>2

\* The apply step picks an active holding of the transaction's position.
LEMMA ApplyCompletedKeepsCompletion ==
    ASSUME TypeInv, CompletionInv, NEW r \in Req, ApplyCompleted(r)
    PROVE  CompletionAt(r)'
<1>1. CASE Reject(r)
  BY <1>1, CloseKeepsCompletion DEF Reject
<1>2. CASE ~Reject(r)
  <2>1. /\ pc[r] = "apply_completed"
        /\ UNCHANGED <<holdings, call, loaded, txnWrite, holdingWrite>>
        /\ \/ pc'[r] = "insert_holding" /\ seen' = seen
           \/ /\ pc'[r] = "flush_holding"
              /\ \E h \in ActiveHoldings(Subject(r).position) :
                 \E row \in SessionRows(r, h) :
                    seen'[r] = [id |-> h, row |-> row]
    BY <1>2 DEF ApplyCompleted, Continue, session, tables, TypeInv, TypeOK
  <2>2. IsTransactionCall(r)
    BY <2>1 DEF TypeInv, ControlInv, ControlAt
  <2>3. Subject(r)' = Subject(r)
    BY <2>1 DEF Subject
  <2>4. \A h \in ActiveHoldings(Subject(r).position) :
          /\ \A row \in SessionRows(r, h) :
                row.position = Subject(r).position
          /\ holdings[h].position = Subject(r).position
    BY DEF ActiveHoldings, SessionRows, CompletionInv, CompletionAt
  <2>5. WritesCompleted(r)' /\ txnWrite'[r].row = Subject(r)'
    BY <2>1, <2>2, <2>3
       DEF CompletionInv, CompletionAt, WritesCompleted
  <2>6. CASE seen' = seen /\ pc'[r] = "insert_holding"
    BY <2>1, <2>5, <2>6 DEF CompletionInv, CompletionAt
  <2>7. CASE pc'[r] = "flush_holding"
    <3>1. PICK h \in ActiveHoldings(Subject(r).position) :
             \E row \in SessionRows(r, h) :
                seen'[r] = [id |-> h, row |-> row]
      BY <2>1, <2>7
    <3>2. /\ seen'[r].id = h
          /\ seen'[r].row \in SessionRows(r, h)
      BY <3>1
    <3>3. /\ seen'[r].row.position = Subject(r).position
          /\ holdings'[h].position = Subject(r).position
      BY <2>1, <2>4, <3>1, <3>2
    <3>4. seen'[r].row.position = Subject(r)'.position
      BY <2>3, <3>3
    <3>5. seen'[r].row.position = holdings'[seen'[r].id].position
      BY <3>2, <3>3
    <3>6. QED
      BY <2>5, <2>7, <3>4, <3>5 DEF CompletionAt
  <2>8. QED
    BY <2>1, <2>6, <2>7
<1>3. QED
  BY <1>1, <1>2

\* A new holding is written only beside a completion of its position.
LEMMA InsertHoldingKeepsCompletion ==
    ASSUME TypeInv, CompletionInv, NEW r \in Req, InsertHolding(r)
    PROVE  CompletionAt(r)'
<1>1. CASE Reject(r) \/ Unavailable(r)
  BY <1>1, CloseKeepsCompletion DEF Reject, Unavailable
<1>2. CASE ~(Reject(r) \/ Unavailable(r))
  <2>1. /\ pc[r] = "insert_holding"
        /\ holdingWrite'[r] = [id |-> r, row |-> NewHolding(r),
                               dirty |-> HoldingColumns]
        /\ pc'[r] = "commit"
        /\ UNCHANGED <<holdings, call, loaded, seen, txnWrite>>
    BY <1>2 DEF InsertHolding, Continue, tables, TypeInv, TypeOK
  <2>2. IsTransactionCall(r)
        => /\ WritesCompleted(r)
           /\ txnWrite[r].row = Subject(r)
           /\ NewHolding(r).position = Subject(r).position
    BY <2>1 DEF CompletionInv, CompletionAt, NewHolding, IsTransactionCall
  <2>3. holdingWrite'[r] # None
    BY <2>1, NewHoldingType, NoneAssumption, WriteAssumption DEF HoldingWrite, HoldingId
  <2>4. IsTransactionCall(r)' => CommitsWhole(r)'
    BY <2>1, <2>2, <2>3
       DEF CommitsWhole, WritesCompleted, IsTransactionCall, HoldingColumns
  <2>5. QED
    BY <2>1, <2>4 DEF CompletionInv, CompletionAt
<1>3. QED
  BY <1>1, <1>2

\* Only a DIVIDEND leaves the units as they were.
LEMMA FlushHoldingKeepsCompletion ==
    ASSUME TypeInv, IndexInv, CompletionInv, NEW r \in Req, FlushHolding(r)
    PROVE  CompletionAt(r)'
<1> DEFINE w == [id |-> seen[r].id, row |-> ChangedHolding(r),
                 dirty |-> DirtyHolding(seen[r].row, ChangedHolding(r))]
<1>1. /\ pc[r] = "flush_holding"
      /\ pc'[r] = "commit"
      /\ holdingWrite[r] = None
      /\ \/ w.dirty = {} /\ holdingWrite' = holdingWrite
         \/ w.dirty # {} /\ holdingWrite'[r] = w
      /\ UNCHANGED <<holdings, call, loaded, seen, txnWrite>>
  BY NoWriteYet DEF FlushHolding, Continue, tables, TypeInv, TypeOK
<1>2. seen[r] \in LoadedHolding
  BY <1>1 DEF TypeInv, TypeOK, ControlInv, ControlAt
<1>3. seen[r].row \in Holding /\ ChangedHolding(r) \in Holding
  BY <1>1, <1>2, ChangedHoldingType DEF LoadedHolding
<1>4. w # None
  BY <1>2, <1>3, NoneAssumption, WriteAssumption
     DEF HoldingWrite, LoadedHolding, DirtyHolding
<1>5. ASSUME IsTransactionCall(r)
      PROVE  CommitsWhole(r)'
  <2>1. /\ WritesCompleted(r)
        /\ txnWrite[r].row = Subject(r)
        /\ seen[r].row.position = Subject(r).position
    BY <1>1, <1>5 DEF CompletionInv, CompletionAt
  <2>2. /\ ChangedHolding(r).position = seen[r].row.position
        /\ ChangedHolding(r).is_active = seen[r].row.is_active
        /\ ChangedHolding(r).units = seen[r].row.units + Signed(Subject(r))
    BY <1>3, <1>5 DEF ChangedHolding, Holding, IsTransactionCall
  <2>3. Subject(r) \in Transaction
    BY <1>1, <1>5, SubjectType DEF TypeInv, IsTransactionCall
  <2>4. /\ Subject(r).transaction_type # "DIVIDEND"
           => Signed(Subject(r)) # 0
        /\ Signed(Subject(r)) \in Int
    BY <2>3 DEF Signed, Transaction, TransactionType
  <2>5. /\ Subject(r).transaction_type # "DIVIDEND" => "units" \in w.dirty
        /\ w.dirty # {} => "units" \in w.dirty
    BY <1>3, <2>2, <2>4 DEF DirtyHolding, HoldingColumns, Holding
  <2>6. QED
    BY <1>1, <1>4, <2>1, <2>2, <2>5 DEF CommitsWhole, WritesCompleted
<1>6. QED
  BY <1>1, <1>5 DEF CompletionInv, CompletionAt, IsTransactionCall

\* The steps that only load or look up a row keep CompletionInv.
LEMMA LoadsKeepCompletion ==
    ASSUME TypeInv, CompletionInv, NEW r \in Req,
           FindHolding(r) \/ LoadHolding(r) \/ LoadTransaction(r)
    PROVE  CompletionAt(r)'
<1>1. CASE Reject(r)
  BY <1>1, CloseKeepsCompletion DEF Reject
<1>2. CASE ~Reject(r) /\ FindHolding(r)
  BY <1>2 DEF FindHolding, Continue, session, tables, TypeInv, TypeOK,
              ControlInv, ControlAt, IsTransactionCall, CompletionInv,
              CompletionAt
<1>3. CASE ~Reject(r) /\ LoadHolding(r)
  BY <1>3 DEF LoadHolding, Continue, tables, TypeInv, TypeOK, ControlInv,
              ControlAt, IsTransactionCall, CompletionInv, CompletionAt
<1>4. CASE ~Reject(r) /\ LoadTransaction(r)
  BY <1>4 DEF LoadTransaction, Continue, tables, TypeInv, TypeOK,
              CompletionInv, CompletionAt
<1>5. QED
  BY <1>1, <1>2, <1>3, <1>4

\* Every step keeps CompletionInv.
LEMMA CompletionStep ==
    TypeInv /\ IndexInv /\ DeletionInv /\ CompletionInv /\ [Next]_vars
    => CompletionInv'
<1> SUFFICES ASSUME TypeInv, IndexInv, DeletionInv, CompletionInv,
                    [Next]_vars
             PROVE  CompletionInv'
  OBVIOUS
<1>1. ASSUME NEW r \in Req,
             \/ \E q \in Workload : Receive(r, q)
             \/ Refuse(r) \/ Step(r) \/ Fail(r),
             ~Commit(r)
      PROVE  CompletionInv'
  <2>1. holdings' = holdings
    BY <1>1, TablesUnchanged
  <2>2. \A o \in Req \ {r} : CompletionAt(o)'
    BY <1>1, <2>1, OthersUntouched, UntouchedCompletion DEF CompletionInv
  <2>3. CompletionAt(r)'
    <3>1. CASE \E q \in Workload : Receive(r, q)
      <4>1. PICK q \in Workload : Receive(r, q)
        BY <3>1
      <4>2. /\ call'[r] = q
            /\ pc'[r] = FirstStep(q)
            /\ seen' = seen
            /\ q \in Call
        BY <4>1, RequestAssumption
           DEF Receive, session, TypeInv, TypeOK
      <4>3. /\ pc'[r] \notin {"apply_completed", "insert_holding",
                              "flush_holding", "commit"}
            /\ pc'[r] = "available_units" => q.op # "update_transaction"
        BY <4>2, CallShape DEF FirstStep
      <4>4. QED
        BY <2>1, <4>2, <4>3 DEF CompletionInv, CompletionAt
    <3>2. CASE Refuse(r) \/ Fail(r) \/ Refresh(r)
      BY <3>2, CloseKeepsCompletion
         DEF Refuse, Fail, Refresh, Reject, Unavailable
    <3>3. CASE Step(r) /\ ~Refresh(r)
      BY <1>1, <3>3, AvailableUnitsKeepsCompletion, LoadsKeepCompletion,
         InsertTransactionKeepsCompletion, FlushTransactionKeepsCompletion,
         ApplyCompletedKeepsCompletion, InsertHoldingKeepsCompletion,
         FlushHoldingKeepsCompletion
         DEF Step
    <3>4. QED
      BY <1>1, <3>1, <3>2, <3>3
  <2>4. QED
    BY <2>2, <2>3 DEF CompletionInv
<1>2. ASSUME NEW r \in Req, Commit(r)
      PROVE  CompletionInv'
  <2>1. ASSUME NEW o \in Req, seen[o] # None
        PROVE  holdings'[seen[o].id].position = holdings[seen[o].id].position
    <3>1. seen[o].id \in HoldingId /\ holdings[seen[o].id] # None
      BY <2>1 DEF TypeInv, TypeOK, LoadedHolding, IndexInv, IndexAt
    <3>2. QED
      BY <1>2, <3>1, CommittedHoldings
  <2>2. \A o \in Req \ {r} : CompletionAt(o)'
    BY <1>2, <2>1, OthersUntouched, UntouchedCompletion
       DEF Step, CompletionInv
  <2>3. CompletionAt(r)'
    <3>1. CASE Close(r, "ok")
      BY <3>1, CloseKeepsCompletion
    <3>2. CASE ~Close(r, "ok")
      <4>1. pc'[r] = "refresh" /\ seen' = seen
        BY <1>2, <3>2 DEF Commit, TypeInv, TypeOK
      <4>2. QED
        BY <2>1, <4>1 DEF CompletionInv, CompletionAt
    <3>3. QED
      BY <3>1, <3>2
  <2>4. QED
    BY <2>2, <2>3 DEF CompletionInv
<1>3. CASE UNCHANGED vars
  BY <1>3 DEF vars, CompletionInv, CompletionAt, CommitsWhole,
              WritesCompleted, Subject, IsTransactionCall
<1>4. QED
  BY <1>1, <1>2, <1>3 DEF Next, Quiescent

-----------------------------------------------------------------------------
(* What a commit writes is what its session has read, and its own units.   *)

\* The rows that a request creates are stored by its own commit.
LEMMA OthersCreateNoRow ==
    ASSUME TypeInv, IndexInv, DeletionInv, NEW r \in Req,
           \/ \E q \in Workload : Receive(r, q)
           \/ Refuse(r) \/ Step(r) \/ Fail(r),
           NEW o \in Req, ~(o = r /\ Commit(r))
    PROVE  /\ transactions'[o] # None <=> transactions[o] # None
           /\ holdings'[o] # None <=> holdings[o] # None
<1>1. CASE ~Commit(r)
  BY <1>1, TablesUnchanged
<1>2. CASE Commit(r) /\ o # r
  <2>1. o \in TransactionId /\ o \in HoldingId
    BY DEF TransactionId, HoldingId
  <2>2. QED
    BY <1>2, <2>1, CommittedTransactions, CommittedHoldings
<1>3. QED
  BY <1>1, <1>2

\* Nothing is written, and nothing remains to be shown of a write, once a
\* request is answered.
LEMMA CloseKeepsWrite ==
    ASSUME TypeInv, NEW r \in Req, NEW answer, Close(r, answer)
    PROVE  WriteAt(r)'
BY DEF Close, WriteAt, TypeInv, TypeOK

\* The units of a new holding are those of its transaction.
LEMMA InsertHoldingKeepsWrite ==
    ASSUME TypeInv, IndexInv, CompletionInv, WriteInv, NEW r \in Req,
           InsertHolding(r), ~Reject(r), ~Unavailable(r)
    PROVE  WriteAt(r)'
<1> DEFINE w == [id |-> r, row |-> NewHolding(r), dirty |-> HoldingColumns]
<1>1. /\ pc[r] = "insert_holding" /\ holdingWrite'[r] = w
      /\ UNCHANGED <<call, loaded, seen, txnWrite, holdings>>
  BY DEF InsertHolding, Continue, tables, TypeInv, TypeOK
<1>2. IsTransactionCall(r) => txnWrite[r].row = Subject(r)
  BY <1>1 DEF CompletionInv, CompletionAt
<1>3. holdings[r] = None
  BY <1>1 DEF IndexInv, IndexAt
<1>4. IsTransactionCall(r) => w.row.units = Signed(Subject(r))
  BY DEF NewHolding, IsTransactionCall
<1>5. Subject(r)' = Subject(r) /\ IsTransactionCall(r)' = IsTransactionCall(r)
  BY <1>1 DEF Subject, IsTransactionCall
<1>6. w.id = r
  OBVIOUS
<1> HIDE DEF w
<1>7. Signed(Subject(r))' = Signed(Subject(r))
  BY <1>5 DEF Signed
<1>8. QED
  BY <1>1, <1>2, <1>3, <1>4, <1>5, <1>6, <1>7 DEF WriteInv, WriteAt

\* The units of a changed holding are those read and those of the transaction.
LEMMA FlushHoldingKeepsWrite ==
    ASSUME TypeInv, IndexInv, CompletionInv, WriteInv, NEW r \in Req,
           FlushHolding(r)
    PROVE  WriteAt(r)'
<1> DEFINE w == [id |-> seen[r].id, row |-> ChangedHolding(r),
                 dirty |-> DirtyHolding(seen[r].row, ChangedHolding(r))]
<1>1. /\ pc[r] = "flush_holding" /\ holdingWrite[r] = None
      /\ holdingWrite'[r] \in {None, w}
      /\ UNCHANGED <<call, loaded, seen, txnWrite, holdings>>
  BY NoWriteYet DEF FlushHolding, Continue, tables, TypeInv, TypeOK
<1>2. seen[r] # None /\ seen[r].row \in Holding
  BY <1>1 DEF TypeInv, TypeOK, ControlInv, ControlAt, LoadedHolding
<1>3. IsTransactionCall(r) => txnWrite[r].row = Subject(r)
  BY <1>1 DEF CompletionInv, CompletionAt
<1>4. IsTransactionCall(r) =>
        /\ w.row.units = seen[r].row.units + Signed(Subject(r))
        /\ w.row.position = seen[r].row.position
  BY <1>2 DEF ChangedHolding, Holding, IsTransactionCall
<1>5. Subject(r)' = Subject(r) /\ IsTransactionCall(r)' = IsTransactionCall(r)
  BY <1>1 DEF Subject, IsTransactionCall
<1>6. w.id = seen[r].id
  OBVIOUS
<1> HIDE DEF w
<1>7. Signed(Subject(r))' = Signed(Subject(r))
  BY <1>5 DEF Signed
<1>8. QED
  BY <1>1, <1>2, <1>3, <1>4, <1>5, <1>6, <1>7 DEF WriteInv, WriteAt

\* A flush of a transaction writes its status only when it has changed.
LEMMA FlushTransactionKeepsWrite ==
    ASSUME TypeInv, IndexInv, DeletionInv, NEW r \in Req, FlushTransaction(r)
    PROVE  WriteAt(r)'
<1> DEFINE w == [id |-> call[r].id, row |-> Subject(r),
                 dirty |-> DirtyTransaction(loaded[r], Subject(r))]
<1>1. /\ pc[r] = "flush_transaction" /\ txnWrite'[r] \in {txnWrite[r], w}
      /\ UNCHANGED <<holdings, call, loaded, seen, holdingWrite>>
  BY DEF FlushTransaction, Continue, tables, TypeInv, TypeOK
<1>2. txnWrite[r] = None /\ holdingWrite[r] = None
  BY <1>1, NoWriteYet DEF DeletionInv, DeletionAt
<1>3. "transaction_status" \in w.dirty
      => w.row.transaction_status # loaded[r].transaction_status
  BY DEF DirtyTransaction
<1> HIDE DEF w
<1>4. QED
  BY <1>1, <1>2, <1>3 DEF WriteAt

\* The other steps of a request write nothing, or write it first.
LEMMA OtherStepsKeepWrite ==
    ASSUME TypeInv, IndexInv, DeletionInv, WriteInv, NEW r \in Req,
           \/ AvailableUnits(r) \/ ApplyCompleted(r) \/ FindHolding(r)
           \/ LoadHolding(r) \/ InsertTransaction(r) \/ LoadTransaction(r)
    PROVE  WriteAt(r)'
<1>1. CASE Reject(r)
  BY <1>1, CloseKeepsWrite DEF Reject
<1>2. CASE ~Reject(r)
  <2>1. /\ holdingWrite[r] = None /\ holdingWrite'[r] = None
        /\ call'[r] = call[r]
    BY <1>2, NoWriteYet
       DEF AvailableUnits, ApplyCompleted, FindHolding, LoadHolding,
           InsertTransaction, LoadTransaction, Continue, session
  <2>2. CASE AvailableUnits(r) \/ ApplyCompleted(r) \/ FindHolding(r)
             \/ LoadHolding(r)
    <3>1. txnWrite' = txnWrite /\ loaded' = loaded
      BY <1>2, <2>2 DEF AvailableUnits, ApplyCompleted, FindHolding,
                        LoadHolding, session
    <3>2. QED
      BY <2>1, <3>1 DEF WriteInv, WriteAt
  <2>3. CASE InsertTransaction(r)
    <3>1. call[r].op = "create_transaction"
      BY <2>3 DEF InsertTransaction, TypeInv, ControlInv, ControlAt
    <3>2. QED
      BY <2>1, <3>1 DEF WriteAt
  <2>4. CASE LoadTransaction(r)
    <3>1. txnWrite[r] = None /\ txnWrite' = txnWrite
      BY <1>2, <2>4 DEF LoadTransaction, DeletionInv, DeletionAt
    <3>2. QED
      BY <2>1, <3>1 DEF WriteAt
  <2>5. QED
    BY <2>2, <2>3, <2>4
<1>3. QED
  BY <1>1, <1>2

\* Every step keeps WriteInv.
LEMMA WriteStep ==
    TypeInv /\ IndexInv /\ DeletionInv /\ CompletionInv /\ WriteInv
    /\ [Next]_vars => WriteInv'
<1> SUFFICES ASSUME TypeInv, IndexInv, DeletionInv, CompletionInv, WriteInv,
                    [Next]_vars
             PROVE  WriteInv'
  OBVIOUS
<1>1. ASSUME NEW r \in Req,
             \/ \E q \in Workload : Receive(r, q)
             \/ Refuse(r) \/ Step(r) \/ Fail(r)
      PROVE  WriteInv'
  <2>1. ASSUME NEW o \in Req \ {r} PROVE WriteAt(o)'
    <3>1. Untouched(o)
      BY <1>1, OthersUntouched
    <3>2. holdings'[o] # None <=> holdings[o] # None
      BY <1>1, OthersCreateNoRow
    <3>3. /\ Subject(o)' = Subject(o)
          /\ IsTransactionCall(o)' = IsTransactionCall(o)
      BY <3>1, SubjectSame
    <3>4. Signed(Subject(o))' = Signed(Subject(o))
      BY <3>3 DEF Signed
    <3>5. QED
      BY <3>1, <3>2, <3>3, <3>4 DEF WriteInv, WriteAt, Untouched
  <2>2. WriteAt(r)'
    <3>1. CASE \E q \in Workload : Receive(r, q)
      <4>1. /\ txnWrite[r] = None /\ holdingWrite[r] = None
            /\ txnWrite' = txnWrite /\ holdingWrite' = holdingWrite
        BY <3>1, NoWriteYet DEF Receive, session, DeletionInv, DeletionAt
      <4>2. QED
        BY <4>1 DEF WriteAt
    <3>2. CASE \E answer : Close(r, answer)
      BY <3>2, CloseKeepsWrite
    <3>3. CASE Commit(r) /\ ~Close(r, "ok")
      <4>1. txnWrite'[r] = None /\ holdingWrite'[r] = None
        BY <3>3 DEF Commit, TypeInv, TypeOK
      <4>2. QED
        BY <4>1 DEF WriteAt
    <3>4. CASE Step(r) /\ ~Commit(r) /\ ~(\E answer : Close(r, answer))
      BY <3>4, InsertHoldingKeepsWrite, FlushHoldingKeepsWrite,
         FlushTransactionKeepsWrite, OtherStepsKeepWrite
         DEF Step, Reject, Unavailable, Refresh
    <3>5. QED
      BY <1>1, <3>1, <3>2, <3>3, <3>4
         DEF Refuse, Fail, Reject, Unavailable
  <2>3. QED
    BY <2>1, <2>2 DEF WriteInv
<1>2. CASE UNCHANGED vars
  BY <1>2 DEF vars, WriteInv, WriteAt, Subject, IsTransactionCall, Signed
<1>3. QED
  BY <1>1, <1>2 DEF Next, Quiescent

-----------------------------------------------------------------------------
(* Answers.                                                                *)

\* Where a request that is answered, or goes on, stands with its client.
LEMMA AnswerControl ==
    ASSUME TypeInv, IndexInv, DeletionInv, CompletionInv, AnswerInv,
           NEW r \in Req,
           \/ \E q \in Workload : Receive(r, q)
           \/ Refuse(r) \/ Step(r) \/ Fail(r)
    PROVE  AnswerAt(r)'
<1>1. AnswerAt(r)
  BY DEF AnswerInv
<1>2. CASE \E q \in Workload : Receive(r, q)
  <2>1. PICK q \in Workload : Receive(r, q)
    BY <1>2
  <2>2. pc'[r] = FirstStep(q) /\ response' = response /\ pc[r] = "idle"
    BY <2>1 DEF Receive, TypeInv, TypeOK
  <2>3. pc'[r] \notin {"idle", "apply_completed", "insert_holding",
                       "flush_holding", "commit", "refresh", "done"}
    BY <2>2, CallShape, RequestAssumption DEF FirstStep
  <2>4. QED
    BY <1>1, <2>2, <2>3 DEF AnswerAt
<1>3. CASE \E answer : Close(r, answer)
  BY <1>3 DEF Close, AnswerAt, TypeInv, TypeOK
<1>4. CASE Commit(r) /\ ~Close(r, "ok")
  <2>1. /\ pc[r] = "commit" /\ pc'[r] = "refresh" /\ call' = call
        /\ response' = response
    BY <1>4 DEF Commit, TypeInv, TypeOK
  <2>2. CASE call[r].op = "create_transaction"
    <3>1. txnWrite[r] # None /\ txnWrite[r].id = r
      BY <1>1, <2>1, <2>2 DEF AnswerAt, DeletionInv, DeletionAt, SubjectId
    <3>2. /\ txnWrite[r] \in TransactionWrite
          /\ r \in TransactionId /\ transactions[r] \in Transaction \cup {None}
      BY <3>1 DEF TypeInv, TypeOK, TransactionId
    <3>3. CommittedTransaction(transactions[r], txnWrite[r]) \in Transaction
      BY <3>2, CommittedRowTypes
    <3>4. transactions'[r] # None
      BY <1>4, <3>1, <3>2, <3>3, NoneAssumption, WriteAssumption DEF Commit, TypeInv, TypeOK
    <3>5. QED
      BY <1>1, <2>1, <2>2, <3>4 DEF AnswerAt
  <2>3. CASE call[r].op = "create_holding"
    <3>1. holdingWrite[r] # None /\ holdingWrite[r].id = r
      BY <1>1, <2>1, <2>3 DEF AnswerAt
    <3>2. /\ holdingWrite[r] \in HoldingWrite
          /\ r \in HoldingId /\ holdings[r] \in Holding \cup {None}
      BY <3>1 DEF TypeInv, TypeOK, HoldingId
    <3>3. CommittedHolding(holdings[r], holdingWrite[r]) \in Holding
      BY <3>2, CommittedRowTypes
    <3>4. holdings'[r] # None
      BY <1>4, <3>1, <3>2, <3>3, NoneAssumption, WriteAssumption DEF Commit, TypeInv, TypeOK
    <3>5. QED
      BY <1>1, <2>1, <2>3, <3>4 DEF AnswerAt
  <2>4. CASE call[r].op \notin {"create_transaction", "create_holding"}
    BY <1>1, <2>1, <2>4 DEF AnswerAt
  <2>5. QED
    BY <2>2, <2>3, <2>4
<1>5. CASE Step(r) /\ ~Commit(r) /\ ~(\E answer : Close(r, answer))
  <2>1. response' = response /\ call' = call
    BY <1>5 DEF Step, AvailableUnits, InsertTransaction, LoadTransaction,
                FlushTransaction, ApplyCompleted, FindHolding, InsertHolding,
                LoadHolding, FlushHolding, Reject, Unavailable, Refresh,
                Continue
  <2>2. CASE InsertTransaction(r)
    <3>1. /\ pc[r] = "insert_transaction"
          /\ call[r].op = "create_transaction"
          /\ pc'[r] \in {"apply_completed", "commit"}
          /\ txnWrite'[r] = [id |-> r, row |-> Subject(r),
                             dirty |-> TransactionColumns]
          /\ loaded' = loaded
      BY <2>2 DEF InsertTransaction, Continue, TypeInv, TypeOK, ControlInv,
                  ControlAt
    <3>2. Subject(r) \in Transaction
      BY <3>1, SubjectType DEF TypeInv
    <3>3. txnWrite'[r] # None
      BY <3>1, <3>2, NoneAssumption, WriteAssumption DEF TransactionWrite, TransactionId
    <3>4. Subject(r)' = Subject(r)
      BY <2>1, <3>1 DEF Subject
    <3>5. QED
      BY <1>1, <2>1, <3>1, <3>3, <3>4 DEF AnswerAt, TransactionColumns
  <2>3. CASE \/ ApplyCompleted(r)
             \/ InsertHolding(r) /\ call[r].op = "create_transaction"
             \/ FlushHolding(r)
    <3>1. /\ pc[r] \in {"apply_completed", "insert_holding", "flush_holding"}
          /\ pc'[r] \in {"insert_holding", "flush_holding", "commit"}
          /\ txnWrite' = txnWrite /\ loaded' = loaded
      BY <1>5, <2>3 DEF ApplyCompleted, InsertHolding, FlushHolding, Continue,
                        session, Reject, Unavailable, TypeInv, TypeOK
    <3>2. call[r].op # "create_holding"
      BY <2>3, <3>1
         DEF TypeInv, ControlInv, ControlAt, IsTransactionCall, ApplyCompleted,
             FlushHolding
    <3>3. Subject(r)' = Subject(r)
      BY <2>1, <3>1 DEF Subject
    <3>4. QED
      BY <1>1, <2>1, <3>1, <3>2, <3>3 DEF AnswerAt
  <2>4. CASE InsertHolding(r) /\ call[r].op = "create_holding"
    <3>1. /\ pc[r] = "insert_holding" /\ pc'[r] = "commit"
          /\ holdingWrite'[r] = [id |-> r, row |-> NewHolding(r),
                                 dirty |-> HoldingColumns]
      BY <1>5, <2>4 DEF InsertHolding, Continue, Reject, Unavailable,
                        TypeInv, TypeOK
    <3>2. NewHolding(r) \in Holding
      BY <3>1, NewHoldingType
    <3>3. holdingWrite'[r] # None
      BY <3>1, <3>2, NoneAssumption, WriteAssumption DEF HoldingWrite, HoldingId
    <3>4. QED
      BY <1>1, <2>1, <2>4, <3>1, <3>3 DEF AnswerAt
  <2>5. CASE InsertHolding(r) /\ call[r].op = "update_transaction"
    BY <1>1, <1>5, <2>1, <2>5
       DEF InsertHolding, Continue, Reject, Unavailable, TypeInv, TypeOK,
           AnswerAt
  <2>6. CASE AvailableUnits(r)
    <3>1. /\ call[r].op # "create_holding"
          /\ pc'[r] \in {"insert_transaction", "apply_completed"}
          /\ call[r].op = "create_transaction" => pc'[r] = "insert_transaction"
          /\ pc[r] = "available_units"
      BY <1>5, <2>6
         DEF AvailableUnits, Continue, Reject, TypeInv, TypeOK, ControlInv,
             ControlAt, IsTransactionCall
    <3>2. QED
      BY <1>1, <2>1, <3>1 DEF AnswerAt
  <2>7. CASE LoadTransaction(r) \/ FlushTransaction(r) \/ LoadHolding(r)
    <3>1. /\ call[r].op \notin {"create_transaction", "create_holding"}
          /\ pc'[r] \notin {"idle", "done"} /\ pc[r] \notin {"idle", "done"}
      BY <1>5, <2>7
         DEF LoadTransaction, FlushTransaction, LoadHolding, Continue, Reject,
             AfterFlush, TypeInv, TypeOK, ControlInv, ControlAt
    <3>2. QED
      BY <1>1, <2>1, <3>1 DEF AnswerAt
  <2>8. CASE FindHolding(r)
    <3>1. /\ call[r].op = "create_holding" /\ pc[r] = "find_holding"
          /\ pc'[r] = "insert_holding"
      BY <1>5, <2>8
         DEF FindHolding, Continue, Reject, TypeInv, TypeOK, ControlInv,
             ControlAt
    <3>2. QED
      BY <1>1, <2>1, <3>1 DEF AnswerAt
  <2>9. QED
    BY <1>5, <2>2, <2>3, <2>4, <2>5, <2>6, <2>7, <2>8
       DEF Step, Refresh, InsertHolding, TypeInv, ControlInv, ControlAt,
           IsTransactionCall
<1>6. QED
  BY <1>2, <1>3, <1>4, <1>5 DEF Refuse, Fail, Reject, Unavailable

\* What a step of a request tells its client.
LEMMA AnswersGiven ==
    ASSUME TypeInv, NEW r \in Req,
           \/ \E q \in Workload : Receive(r, q)
           \/ Refuse(r) \/ Step(r) \/ Fail(r)
    PROVE  /\ \A o \in Req \ {r} : response'[o] = response[o]
           /\ pc[r] # "done"
           /\ response'[r] # response[r]
              => \/ Reject(r) /\ pc[r] \notin {"refresh", "done"}
                 \/ Unavailable(r)
                 \/ Refresh(r) /\ response'[r] = "ok"
                 \/ /\ Commit(r) /\ response'[r] = "ok"
                    /\ call[r].op \in {"delete_transaction", "delete_holding"}
<1>1. pc[r] # "done"
  BY DEF Receive, Refuse, Fail, InFlight, Step, AvailableUnits,
         InsertTransaction, LoadTransaction, FlushTransaction, ApplyCompleted,
         FindHolding, InsertHolding, LoadHolding, FlushHolding, Commit, Refresh
<1>2. CASE \E answer : Close(r, answer)
  <2>1. \A o \in Req \ {r} : response'[o] = response[o]
    BY <1>2 DEF Close, TypeInv, TypeOK
  <2>2. CASE Reject(r)
    <3>1. response'[r] = "client_error"
      BY <2>2 DEF Reject, Close, TypeInv, TypeOK
    <3>2. pc[r] # "refresh" \/ Unavailable(r) \/ Refresh(r)
      BY <1>2, <3>1
         DEF Receive, Refuse, Fail, Step, AvailableUnits, InsertTransaction,
             LoadTransaction, FlushTransaction, ApplyCompleted, FindHolding,
             InsertHolding, LoadHolding, FlushHolding, Commit
    <3>3. ~Unavailable(r) /\ ~Refresh(r)
      BY <3>1 DEF Unavailable, Refresh, Close, TypeInv, TypeOK
    <3>4. QED
      BY <1>1, <2>1, <2>2, <3>2, <3>3
  <2>3. CASE Refresh(r) \/ Commit(r)
    <3>1. CASE Refresh(r)
      BY <1>1, <2>1, <3>1 DEF Refresh, Close, TypeInv, TypeOK
    <3>2. CASE Commit(r)
      BY <1>1, <2>1, <3>2 DEF Commit, Close, TypeInv, TypeOK
    <3>3. QED
      BY <2>3, <3>1, <3>2
  <2>4. CASE Unavailable(r)
    BY <1>1, <2>1, <2>4
  <2>5. CASE ~Reject(r) /\ ~Unavailable(r) /\ ~Refresh(r) /\ ~Commit(r)
    <3>1. response' = response
      BY <2>5 DEF Receive, Refuse, Fail, Step, AvailableUnits,
                  InsertTransaction, LoadTransaction, FlushTransaction,
                  ApplyCompleted, FindHolding, InsertHolding, LoadHolding,
                  FlushHolding, Continue
    <3>2. QED
      BY <1>1, <3>1
  <2>6. QED
    BY <2>2, <2>3, <2>4, <2>5
<1>3. CASE ~(\E answer : Close(r, answer))
  <2>1. response' = response
    BY <1>3 DEF Receive, Refuse, Fail, Reject, Unavailable, Step,
                AvailableUnits, InsertTransaction, LoadTransaction,
                FlushTransaction, ApplyCompleted, FindHolding, InsertHolding,
                LoadHolding, FlushHolding, Commit, Refresh, Continue
  <2>2. QED
    BY <1>1, <2>1
<1>4. QED
  BY <1>2, <1>3

\* A new transaction is the one of the create that commits it, and if it is
\* completed its units are committed with it.
LEMMA NewTransaction ==
    ASSUME TypeInv, IndexInv, DeletionInv, CompletionInv, AnswerInv,
           NEW r \in Req, Commit(r), transactions[r] = None,
           transactions'[r] # None
    PROVE  /\ call[r].op = "create_transaction"
           /\ /\ call[r].transaction_status = "COMPLETED"
              /\ call[r].transaction_type # "DIVIDEND"
              => applied'[r] > 0
<1>1. pc[r] = "commit" /\ AnswerAt(r) /\ r \in TransactionId
  BY DEF Commit, AnswerInv, TransactionId
<1>2. txnWrite[r] # None /\ txnWrite[r].id = r
  BY <1>1 DEF Commit, TypeInv, TypeOK
<1>3. call[r].op = "create_transaction"
  <2>1. /\ call[r].op \in {"create_transaction", "update_transaction",
                           "delete_transaction"}
        /\ SubjectId(r) = r
    BY <1>2 DEF DeletionInv, DeletionAt
  <2>2. call[r].op # "create_transaction" => transactions[call[r].id] # None
    BY <1>1, <2>1
       DEF TypeInv, ControlInv, ControlAt, DeletionInv, DeletionAt
  <2>3. QED
    BY <2>1, <2>2 DEF SubjectId
<1>4. ASSUME call[r].transaction_status = "COMPLETED",
             call[r].transaction_type # "DIVIDEND"
      PROVE  applied'[r] > 0
  <2>1. /\ Subject(r).transaction_status = "COMPLETED"
        /\ Subject(r).transaction_type # "DIVIDEND"
    BY <1>3, <1>4 DEF Subject
  <2>2. /\ txnWrite[r].row = Subject(r)
        /\ "transaction_status" \in txnWrite[r].dirty
    BY <1>1, <1>3 DEF AnswerAt
  <2>3. WritesCompleted(r) /\ IsTransactionCall(r)
    BY <1>2, <1>3, <2>1, <2>2 DEF WritesCompleted, IsTransactionCall
  <2>4. holdingWrite[r] # None
    BY <1>1, <2>1, <2>2, <2>3 DEF CompletionInv, CompletionAt, CommitsWhole
  <2>5. applied' = [applied EXCEPT ![r] = @ + 1] /\ applied[r] \in Nat
    BY <1>1, <1>3, <2>3, <2>4
       DEF Commit, AppliesUnits, SubjectId, TypeInv, TypeOK
  <2>6. QED
    BY <1>1, <2>5 DEF TypeInv, TypeOK
<1>5. QED
  BY <1>3, <1>4

\* Every step keeps AnswerInv.
LEMMA AnswerStep ==
    TypeInv /\ IndexInv /\ DeletionInv /\ CompletionInv /\ AnswerInv
    /\ [Next]_vars => AnswerInv'
<1> SUFFICES ASSUME TypeInv, IndexInv, DeletionInv, CompletionInv, AnswerInv,
                    [Next]_vars
             PROVE  AnswerInv'
  OBVIOUS
<1>1. ASSUME NEW r \in Req,
             \/ \E q \in Workload : Receive(r, q)
             \/ Refuse(r) \/ Step(r) \/ Fail(r)
      PROVE  AnswerInv'
  <2>1. ASSUME NEW o \in Req \ {r}
        PROVE  /\ Untouched(o) /\ response'[o] = response[o]
               /\ transactions'[o] # None <=> transactions[o] # None
               /\ holdings'[o] # None <=> holdings[o] # None
    BY <1>1, OthersUntouched, AnswersGiven, OthersCreateNoRow
  <2>2. ASSUME NEW o \in Req \ {r} PROVE AnswerAt(o)'
    <3>1. Subject(o)' = Subject(o)
      BY <2>1, SubjectSame
    <3>2. QED
      BY <2>1, <3>1 DEF AnswerInv, AnswerAt, Untouched
  <2>3. AnswerAt(r)'
    BY <1>1, AnswerControl
  <2>4. ASSUME NEW o \in Req
        PROVE  applied'[o] \in Nat /\ applied[o] \in Nat
               /\ applied'[o] >= applied[o]
    <3>1. applied' = applied \/ Commit(r)
      BY <1>1 DEF Receive, Refuse, Fail, Reject, Unavailable, Step, history,
                  AvailableUnits, InsertTransaction, LoadTransaction,
                  FlushTransaction, ApplyCompleted, FindHolding, InsertHolding,
                  LoadHolding, FlushHolding, Refresh, Continue
    <3>2. o \in TransactionId /\ applied \in [TransactionId -> Nat]
      BY DEF TransactionId, TypeInv, TypeOK
    <3>3. CASE applied' = applied
      BY <3>2, <3>3
    <3>4. CASE Commit(r)
      <4>1. \/ applied' = applied
            \/ applied' = [applied EXCEPT ![SubjectId(r)] = @ + 1]
        BY <3>4 DEF Commit
      <4>2. QED
        BY <3>2, <4>1
    <3>5. QED
      BY <3>1, <3>3, <3>4
  <2>5. ASSUME NEW o \in Req, transactions'[o] # None
        PROVE  /\ call'[o].op = "create_transaction"
               /\ /\ call'[o].transaction_status = "COMPLETED"
                  /\ call'[o].transaction_type # "DIVIDEND"
                  => applied'[o] > 0
    <3>1. CASE transactions[o] # None
      <4>1. pc[o] \in {"refresh", "done"}
        BY <3>1 DEF DeletionInv, DeletionAt
      <4>2. call'[o] = call[o]
        <5>1. CASE o # r
          BY <2>1, <5>1 DEF Untouched
        <5>2. CASE o = r
          BY <1>1, <4>1, <5>2
             DEF Receive, Refuse, Fail, Reject, Unavailable, Step, Close,
                 AvailableUnits, InsertTransaction, LoadTransaction,
                 FlushTransaction, ApplyCompleted, FindHolding, InsertHolding,
                 LoadHolding, FlushHolding, Commit, Refresh, Continue
        <5>3. QED
          BY <5>1, <5>2
      <4>3. QED
        BY <2>4, <3>1, <4>2 DEF AnswerInv, AnswerMatchesTables
    <3>2. CASE transactions[o] = None
      <4>1. o = r /\ Commit(r)
        BY <1>1, <2>5, <3>2, OthersCreateNoRow
      <4>2. call' = call
        BY <4>1 DEF Commit, Close
      <4>3. QED
        BY <2>5, <3>2, <4>1, <4>2, NewTransaction
    <3>3. QED
      BY <3>1, <3>2
  <2>6. /\ response'[r] = "client_error"
           => transactions'[r] = None /\ holdings'[r] = None
        /\ response'[r] = "ok" /\ call'[r].op = "create_transaction"
           => transactions'[r] # None
        /\ response'[r] = "ok" /\ call'[r].op = "create_holding"
           => holdings'[r] # None
    <3>1. CASE response'[r] = response[r]
      <4>1. response[r] = "none"
        BY <1>1, AnswersGiven DEF AnswerInv, AnswerAt, TypeInv, TypeOK
      <4>2. QED
        BY <3>1, <4>1
    <3>2. CASE Reject(r) /\ pc[r] \notin {"refresh", "done"}
      <4>1. transactions[r] = None /\ holdings[r] = None
        BY <3>2 DEF DeletionInv, DeletionAt, IndexInv, IndexAt
      <4>2. /\ transactions' = transactions /\ holdings' = holdings
            /\ response'[r] = "client_error"
        BY <3>2 DEF Reject, tables, Close, TypeInv, TypeOK
      <4>3. QED
        BY <4>1, <4>2
    <3>3. CASE Unavailable(r)
      BY <3>3 DEF Unavailable, Close, TypeInv, TypeOK
    <3>4. CASE Refresh(r) /\ response'[r] = "ok"
      BY <3>4 DEF Refresh, Close, tables, AnswerInv, AnswerAt
    <3>5. CASE /\ Commit(r) /\ response'[r] = "ok"
               /\ call[r].op \in {"delete_transaction", "delete_holding"}
      BY <3>5 DEF Commit, Close
    <3>6. QED
      BY <1>1, <3>1, <3>2, <3>3, <3>4, <3>5, AnswersGiven
  <2>7. AnswerMatchesTables'
    <3>1. ASSUME NEW o \in Req \ {r}
          PROVE  /\ response'[o] = "client_error"
                    => transactions'[o] = None /\ holdings'[o] = None
                 /\ response'[o] = "ok" /\ call'[o].op = "create_transaction"
                    => transactions'[o] # None
                 /\ response'[o] = "ok" /\ call'[o].op = "create_holding"
                    => holdings'[o] # None
      BY <2>1 DEF AnswerInv, AnswerMatchesTables, Untouched
    <3>2. QED
      BY <2>5, <2>6, <3>1 DEF AnswerMatchesTables
  <2>8. QED
    BY <2>2, <2>3, <2>7 DEF AnswerInv
<1>2. CASE UNCHANGED vars
  BY <1>2 DEF vars, AnswerInv, AnswerMatchesTables, AnswerAt, Subject
<1>3. QED
  BY <1>1, <1>2 DEF Next, Quiescent

\* Initially nothing is written and nobody is answered.
LEMMA AnswerInit == Init => WriteInv /\ AnswerInv
BY DEF Init, WriteInv, WriteAt, AnswerInv, AnswerAt, AnswerMatchesTables,
       TransactionId, HoldingId

-----------------------------------------------------------------------------
(* What a commit installs is what the call makes of what it has read.      *)

\* What a call makes of its reads changes only with them.
LEMMA OutcomeSame ==
    ASSUME NEW r \in Req, call'[r] = call[r], loaded'[r] = loaded[r]
    PROVE  /\ Subject(r)' = Subject(r)
           /\ IsTransactionCall(r)' = IsTransactionCall(r)
           /\ Completing(r)' = Completing(r)
           /\ Outflow(r)' = Outflow(r)
           /\ NewHolding(r)' = NewHolding(r)
           /\ TransactionWriteOf(r)' = TransactionWriteOf(r)
           /\ seen'[r] = seen[r] => HoldingWriteOf(r)' = HoldingWriteOf(r)
<1>1. /\ Subject(r)' = Subject(r)
      /\ IsTransactionCall(r)' = IsTransactionCall(r)
  BY DEF Subject, IsTransactionCall
<1>2. /\ Completing(r)' = Completing(r)
      /\ Outflow(r)' = Outflow(r)
      /\ NewHolding(r)' = NewHolding(r)
  BY <1>1 DEF Completing, Outflow, NewHolding, Signed
<1>3. TransactionWriteOf(r)' = TransactionWriteOf(r)
  BY <1>1 DEF TransactionWriteOf, DirtyTransaction
<1>4. seen'[r] = seen[r] => HoldingWriteOf(r)' = HoldingWriteOf(r)
  <2>1. seen'[r] = seen[r] => ChangedHolding(r)' = ChangedHolding(r)
    BY <1>1 DEF ChangedHolding, Signed
  <2>2. QED
    BY <1>2, <2>1 DEF HoldingWriteOf, DirtyHolding
<1>5. QED
  BY <1>1, <1>2, <1>3, <1>4

\* A request another one's step leaves alone keeps its part of FlushInv.
LEMMA UntouchedFlush ==
    ASSUME NEW o \in Req, Untouched(o), ReadAt(o), FlushedAt(o)
    PROVE  ReadAt(o)' /\ FlushedAt(o)'
BY OutcomeSame DEF Untouched, ReadAt, FlushedAt, Exceeds

\* A request that is answered holds nothing any more.
LEMMA CloseKeepsFlush ==
    ASSUME TypeInv, NEW r \in Req, NEW answer, Close(r, answer)
    PROVE  ReadAt(r)' /\ FlushedAt(r)'
BY DEF Close, ReadAt, FlushedAt, TypeInv, TypeOK

\* A request is received with nothing read, and checks units first if they go
\* out.
LEMMA ReceiveKeepsFlush ==
    ASSUME TypeInv, DeletionInv, FlushInv, NEW r \in Req, NEW q \in Workload,
           Receive(r, q)
    PROVE  ReadAt(r)' /\ FlushedAt(r)'
<1>1. /\ q \in Call /\ call'[r] = q
      /\ pc[r] = "idle" /\ pc'[r] = FirstStep(q)
      /\ seen'[r] = None /\ txnWrite'[r] = None
  BY RequestAssumption
     DEF Receive, session, TypeInv, TypeOK, FlushInv, ReadAt, DeletionInv,
         DeletionAt
<1>2. pc'[r] \in {"available_units", "insert_transaction", "load_transaction",
                  "find_holding", "load_holding"}
  BY <1>1, CallShape DEF FirstStep
<1>3. pc'[r] = "available_units"
      => call'[r].op = "create_transaction" /\ Outflow(r)'
  BY <1>1, CallShape DEF FirstStep, Outflow, Subject
<1>4. QED
  BY <1>1, <1>2, <1>3 DEF ReadAt, FlushedAt

\* The availability check reads a holding that covers the outflow.
LEMMA AvailableUnitsKeepsFlush ==
    ASSUME TypeInv, FlushInv, NEW r \in Req, AvailableUnits(r)
    PROVE  ReadAt(r)' /\ FlushedAt(r)'
<1>1. CASE Reject(r)
  BY <1>1, CloseKeepsFlush DEF Reject
<1>2. CASE ~Reject(r)
  <2>1. /\ pc[r] = "available_units"
        /\ pc'[r] = IF call[r].op = "create_transaction"
                    THEN "insert_transaction" ELSE "apply_completed"
        /\ UNCHANGED <<call, loaded, txnWrite, holdingWrite>>
    BY <1>2 DEF AvailableUnits, Continue, session, TypeInv, TypeOK
  <2>2. IsTransactionCall(r) /\ ReadAt(r) /\ FlushedAt(r)
    BY <2>1 DEF TypeInv, ControlInv, ControlAt, FlushInv
  <2>3. \/ seen'[r] = None
        \/ /\ seen'[r].row.position = Subject(r).position
           /\ Subject(r).units <= seen'[r].row.units
    <3>1. \/ seen' = seen
          \/ \E h \in ActiveHoldings(Subject(r).position) :
                /\ Subject(r).units <= holdings[h].units
                /\ seen' = [seen EXCEPT ![r] =
                              [id |-> h, row |-> holdings[h]]]
      BY <1>2 DEF AvailableUnits, session
    <3>2. seen[r] = None
      BY <2>1, <2>2 DEF ReadAt
    <3>3. QED
      BY <3>1, <3>2 DEF ActiveHoldings, TypeInv, TypeOK
  <2>4. seen'[r] # None => ~Exceeds(Subject(r), seen'[r].row)
    <3>1. ASSUME seen'[r] # None
          PROVE  ~Exceeds(Subject(r), seen'[r].row)
      <4>1. Subject(r).units \in Int
        BY <2>1, <2>2, SubjectType
           DEF IsTransactionCall, TypeInv, Transaction
      <4>2. seen'[r] \in LoadedHolding
        BY <1>2, <3>1, AvailableUnitsKeepsTypes DEF TypeInv, TypeOK
      <4>3. seen'[r].row.units \in Int
        BY <4>2 DEF LoadedHolding, Holding
      <4>4. QED
        BY <2>3, <3>1, <4>1, <4>3 DEF Exceeds
    <3>2. QED
      BY <3>1
  <2>5. /\ Subject(r)' = Subject(r) /\ Completing(r)' = Completing(r)
        /\ Outflow(r)' = Outflow(r)
        /\ TransactionWriteOf(r)' = TransactionWriteOf(r)
    BY <2>1, OutcomeSame
  <2>6. Outflow(r) /\ (call[r].op = "update_transaction" => Completing(r))
    BY <2>1, <2>2 DEF ReadAt
  <2>7. Exceeds(Subject(r), seen[r].row)' = Exceeds(Subject(r), seen'[r].row)
    BY <2>5 DEF Exceeds
  <2>8. ReadAt(r)'
    BY <2>1, <2>2, <2>3, <2>4, <2>5, <2>6, <2>7
       DEF ReadAt, IsTransactionCall
  <2>9. FlushedAt(r)'
    BY <2>1, <2>2, <2>5 DEF FlushedAt, IsTransactionCall
  <2>10. QED
    BY <2>8, <2>9
<1>3. QED
  BY <1>1, <1>2

\* A create goes on to move units exactly if it completes its transaction.
LEMMA InsertTransactionKeepsFlush ==
    ASSUME TypeInv, IndexInv, FlushInv, NEW r \in Req, InsertTransaction(r)
    PROVE  ReadAt(r)' /\ FlushedAt(r)'
<1>1. /\ pc[r] = "insert_transaction" /\ call[r].op = "create_transaction"
      /\ pc'[r] = IF call[r].transaction_status = "COMPLETED"
                  THEN "apply_completed" ELSE "commit"
      /\ txnWrite'[r] = TransactionWriteOf(r)
      /\ UNCHANGED <<call, loaded, seen, holdingWrite>>
  BY DEF InsertTransaction, Continue, TransactionWriteOf, TypeInv, TypeOK,
         ControlInv, ControlAt
<1>2. holdingWrite[r] = None
  BY <1>1, NoWriteYet
<1>3. Completing(r) <=> call[r].transaction_status = "COMPLETED"
  BY <1>1 DEF Completing
<1>4. /\ Subject(r)' = Subject(r) /\ Completing(r)' = Completing(r)
      /\ Outflow(r)' = Outflow(r)
      /\ TransactionWriteOf(r)' = TransactionWriteOf(r)
      /\ HoldingWriteOf(r)' = HoldingWriteOf(r)
  BY <1>1, OutcomeSame
<1>5. ~Completing(r) => HoldingWriteOf(r) = None
  BY <1>1 DEF HoldingWriteOf
<1>6. ReadAt(r)
  BY DEF FlushInv
<1>7. ReadAt(r)'
  BY <1>1, <1>3, <1>4, <1>6 DEF ReadAt, IsTransactionCall, Exceeds
<1>8. FlushedAt(r)'
  BY <1>1, <1>2, <1>3, <1>4, <1>5 DEF FlushedAt
<1>9. QED
  BY <1>7, <1>8

\* The lookups before the first write read nothing, or the holding a call
\* names.
LEMMA LoadsKeepFlush ==
    ASSUME TypeInv, DeletionInv, FlushInv, NEW r \in Req,
           LoadTransaction(r) \/ FindHolding(r) \/ LoadHolding(r)
    PROVE  ReadAt(r)' /\ FlushedAt(r)'
<1>1. CASE Reject(r)
  BY <1>1, CloseKeepsFlush DEF Reject
<1>2. CASE ~Reject(r) /\ LoadTransaction(r)
  <2>1. pc'[r] = "flush_transaction" /\ seen'[r] = None
    BY <1>2 DEF LoadTransaction, Continue, TypeInv, TypeOK, FlushInv, ReadAt
  <2>2. QED
    BY <2>1 DEF ReadAt, FlushedAt
<1>3. CASE ~Reject(r) /\ (FindHolding(r) \/ LoadHolding(r))
  <2>1. /\ call[r].op \in {"create_holding", "update_holding",
                           "delete_holding"}
        /\ UNCHANGED <<call, loaded, txnWrite>>
    BY <1>3 DEF FindHolding, LoadHolding, Continue, session, TypeInv,
                ControlInv, ControlAt
  <2>2. txnWrite[r] = None /\ TransactionWriteOf(r) = None
    BY <2>1 DEF DeletionInv, DeletionAt, TransactionWriteOf
  <2>3. TransactionWriteOf(r)' = None /\ txnWrite'[r] = None
    BY <2>1, <2>2, OutcomeSame
  <2>4. \/ pc'[r] = "insert_holding" /\ seen'[r] = None
        \/ /\ pc'[r] = "flush_holding"
           /\ call[r].op # "create_holding"
    BY <1>3 DEF FindHolding, LoadHolding, Continue, session, TypeInv, TypeOK,
                ControlInv, ControlAt, FlushInv, ReadAt
  <2>5. QED
    BY <2>1, <2>3, <2>4 DEF ReadAt, FlushedAt, IsTransactionCall
<1>4. QED
  BY <1>1, <1>2, <1>3

\* The UPDATE of a transaction writes what has changed, and units move next
\* exactly if that completes it.
LEMMA FlushTransactionKeepsFlush ==
    ASSUME TypeInv, IndexInv, DeletionInv, FlushInv, NEW r \in Req,
           FlushTransaction(r)
    PROVE  ReadAt(r)' /\ FlushedAt(r)'
<1>1. /\ pc[r] = "flush_transaction"
      /\ call[r].op \in {"update_transaction", "delete_transaction"}
      /\ loaded[r] \in Transaction /\ loaded[r] # None
      /\ txnWrite[r] = None /\ holdingWrite[r] = None /\ seen[r] = None
  BY NoWriteYet
     DEF FlushTransaction, TypeInv, TypeOK, ControlInv, ControlAt,
         DeletionInv, DeletionAt, FlushInv, ReadAt
<1>2. /\ pc'[r] = AfterFlush(loaded[r], Subject(r))
      /\ txnWrite'[r] = TransactionWriteOf(r)
      /\ UNCHANGED <<call, loaded, seen, holdingWrite>>
  BY <1>1
     DEF FlushTransaction, Continue, TransactionWriteOf, TypeInv, TypeOK
<1>3. /\ AfterFlush(loaded[r], Subject(r)) # "commit" <=> Completing(r)
      /\ AfterFlush(loaded[r], Subject(r))
           \in {"available_units", "apply_completed", "commit"}
      /\ AfterFlush(loaded[r], Subject(r)) = "available_units" => Outflow(r)
  <2>1. CASE call[r].op = "update_transaction"
    BY <1>1, <2>1 DEF AfterFlush, Completing, Outflow
  <2>2. CASE call[r].op = "delete_transaction"
    <3>1. Subject(r).transaction_status = loaded[r].transaction_status
      BY <1>1, <2>2 DEF Subject, PatchedTransaction, Transaction
    <3>2. QED
      BY <2>2, <3>1 DEF AfterFlush, Completing
  <2>3. QED
    BY <1>1, <2>1, <2>2
<1>4. /\ Completing(r)' = Completing(r)
      /\ Outflow(r)' = Outflow(r)
      /\ TransactionWriteOf(r)' = TransactionWriteOf(r)
      /\ HoldingWriteOf(r)' = HoldingWriteOf(r)
  BY <1>2, OutcomeSame
<1>5. ~Completing(r) => HoldingWriteOf(r) = None
  BY <1>1 DEF HoldingWriteOf
<1>6. ReadAt(r)'
  BY <1>1, <1>2, <1>3, <1>4 DEF ReadAt
<1>7. FlushedAt(r)'
  BY <1>1, <1>2, <1>3, <1>4, <1>5 DEF FlushedAt
<1>8. QED
  BY <1>6, <1>7

\* The apply step reads a holding that covers an outflow, or refuses.
LEMMA ApplyCompletedKeepsFlush ==
    ASSUME TypeInv, FlushInv, NEW r \in Req, ApplyCompleted(r)
    PROVE  ReadAt(r)' /\ FlushedAt(r)'
<1>1. CASE Reject(r)
  BY <1>1, CloseKeepsFlush DEF Reject
<1>2. CASE ~Reject(r)
  <2>1. /\ pc[r] = "apply_completed" /\ IsTransactionCall(r)
        /\ UNCHANGED <<call, loaded, txnWrite, holdingWrite>>
    BY <1>2 DEF ApplyCompleted, Continue, session, TypeInv, ControlInv,
                ControlAt
  <2>2. ReadAt(r) /\ FlushedAt(r)
    BY DEF FlushInv
  <2>3. /\ Subject(r)' = Subject(r) /\ Completing(r)' = Completing(r)
        /\ TransactionWriteOf(r)' = TransactionWriteOf(r)
        /\ IsTransactionCall(r)' = IsTransactionCall(r)
    BY <2>1, OutcomeSame
  <2>4. Completing(r)
    BY <2>1, <2>2 DEF ReadAt
  <2>5. \/ pc'[r] = "insert_holding" /\ seen' = seen /\ ~Outflow(r)
        \/ /\ pc'[r] = "flush_holding"
           /\ \E h \in ActiveHoldings(Subject(r).position) :
              \E row \in SessionRows(r, h) :
                 /\ ~Exceeds(Subject(r), row)
                 /\ seen'[r] = [id |-> h, row |-> row]
    BY <1>2 DEF ApplyCompleted, Continue, session, Outflow, TypeInv, TypeOK
  <2>6. CASE pc'[r] = "insert_holding" /\ seen' = seen /\ ~Outflow(r)
    <3>1. seen'[r] = None
      BY <2>1, <2>2, <2>6 DEF ReadAt
    <3>2. QED
      BY <2>1, <2>2, <2>3, <2>4, <2>6, <3>1
         DEF ReadAt, FlushedAt
  <2>7. CASE pc'[r] = "flush_holding"
    <3>1. PICK h \in ActiveHoldings(Subject(r).position) :
             \E row \in SessionRows(r, h) :
                 /\ ~Exceeds(Subject(r), row)
                 /\ seen'[r] = [id |-> h, row |-> row]
      BY <2>5, <2>7
    <3> DEFINE row == seen'[r].row
    <3>2. /\ ~Exceeds(Subject(r), row) /\ row \in SessionRows(r, h)
      BY <3>1
    <3>3. row.position = Subject(r).position
      BY <2>1, <2>2, <3>2 DEF SessionRows, ActiveHoldings, ReadAt
    <3>4. Exceeds(Subject(r), seen[r].row)' = Exceeds(Subject(r), row)
      BY <2>3, <3>2 DEF Exceeds
    <3>5. ReadAt(r)'
      BY <2>1, <2>3, <2>4, <2>7, <3>2, <3>3, <3>4
         DEF ReadAt, IsTransactionCall
    <3>6. QED
      BY <2>1, <2>2, <2>3, <2>7, <3>5 DEF FlushedAt
  <2>8. QED
    BY <2>5, <2>6, <2>7
<1>3. QED
  BY <1>1, <1>2

\* The INSERT of a holding is the one its call makes, of nothing read.
LEMMA InsertHoldingKeepsFlush ==
    ASSUME TypeInv, UnitsInv, FlushInv, NEW r \in Req, InsertHolding(r)
    PROVE  ReadAt(r)' /\ FlushedAt(r)'
<1>1. CASE Reject(r) \/ Unavailable(r)
  BY <1>1, CloseKeepsFlush DEF Reject, Unavailable
<1>2. CASE ~(Reject(r) \/ Unavailable(r))
  <2>1. /\ pc[r] = "insert_holding" /\ pc'[r] = "commit"
        /\ holdingWrite'[r] = [id |-> r, row |-> NewHolding(r),
                               dirty |-> HoldingColumns]
        /\ UNCHANGED <<call, loaded, seen, txnWrite>>
    BY <1>2 DEF InsertHolding, Continue, TypeInv, TypeOK
  <2>2. /\ IsTransactionCall(r) \/ call[r].op = "create_holding"
        /\ IsTransactionCall(r) => Completing(r) /\ ~Outflow(r)
        /\ seen[r] = None
        /\ txnWrite[r] = TransactionWriteOf(r)
    BY <2>1 DEF TypeInv, ControlInv, ControlAt, FlushInv, ReadAt, FlushedAt,
                UnitsInv, UnitsAt, Outflow
  <2>3. holdingWrite'[r] = HoldingWriteOf(r)
    BY <2>1, <2>2 DEF HoldingWriteOf, IsTransactionCall
  <2>4. /\ HoldingWriteOf(r)' = HoldingWriteOf(r)
        /\ TransactionWriteOf(r)' = TransactionWriteOf(r)
        /\ Outflow(r)' = Outflow(r) /\ Completing(r)' = Completing(r)
    BY <2>1, OutcomeSame
  <2>5. ~(Completing(r) /\ Outflow(r))
    BY <2>2 DEF Completing, IsTransactionCall
  <2>6. QED
    BY <2>1, <2>2, <2>3, <2>4, <2>5
       DEF ReadAt, FlushedAt, IsTransactionCall
<1>3. QED
  BY <1>1, <1>2

\* The UPDATE of a holding is the one its call makes of the row read.
LEMMA FlushHoldingKeepsFlush ==
    ASSUME TypeInv, IndexInv, FlushInv, NEW r \in Req, FlushHolding(r)
    PROVE  ReadAt(r)' /\ FlushedAt(r)'
<1>1. /\ pc[r] = "flush_holding" /\ pc'[r] = "commit"
      /\ seen[r] # None /\ holdingWrite[r] = None
      /\ IsTransactionCall(r)
         \/ call[r].op \in {"update_holding", "delete_holding"}
      /\ UNCHANGED <<call, loaded, seen, txnWrite>>
  BY NoWriteYet DEF FlushHolding, Continue, TypeInv, TypeOK, ControlInv,
                    ControlAt
<1>2. ReadAt(r) /\ FlushedAt(r)
  BY DEF FlushInv
<1>3. IsTransactionCall(r) => Completing(r)
  BY <1>1, <1>2 DEF ReadAt
<1>4. holdingWrite'[r] = HoldingWriteOf(r)
  BY <1>1, <1>3
     DEF FlushHolding, HoldingWriteOf, IsTransactionCall, TypeInv, TypeOK
<1>5. /\ HoldingWriteOf(r)' = HoldingWriteOf(r)
      /\ TransactionWriteOf(r)' = TransactionWriteOf(r)
      /\ Subject(r)' = Subject(r)
      /\ IsTransactionCall(r)' = IsTransactionCall(r)
  BY <1>1, OutcomeSame
<1>6. ReadAt(r)'
  BY <1>1, <1>2, <1>5 DEF ReadAt, Exceeds
<1>7. FlushedAt(r)'
  BY <1>1, <1>2, <1>4, <1>5 DEF FlushedAt
<1>8. QED
  BY <1>6, <1>7

\* A commit, or the answer after it, writes nothing more.
LEMMA CommitKeepsFlush ==
    ASSUME TypeInv, FlushInv, NEW r \in Req, Commit(r)
    PROVE  ReadAt(r)' /\ FlushedAt(r)'
<1>1. CASE Close(r, "ok")
  BY <1>1, CloseKeepsFlush
<1>2. CASE ~Close(r, "ok")
  <2>1. /\ pc'[r] = "refresh"
        /\ UNCHANGED <<call, loaded, seen>>
    BY <1>2 DEF Commit, TypeInv, TypeOK
  <2>2. /\ Subject(r)' = Subject(r)
        /\ IsTransactionCall(r)' = IsTransactionCall(r)
    BY <2>1, OutcomeSame
  <2>3. QED
    BY <2>1, <2>2 DEF FlushInv, ReadAt, FlushedAt, Exceeds
<1>3. QED
  BY <1>1, <1>2

\* Every step keeps FlushInv.
LEMMA FlushStep ==
    TypeInv /\ UnitsInv /\ IndexInv /\ DeletionInv /\ FlushInv /\ [Next]_vars
    => FlushInv'
<1> SUFFICES ASSUME TypeInv, UnitsInv, IndexInv, DeletionInv, FlushInv,
                    [Next]_vars
             PROVE  FlushInv'
  OBVIOUS
<1>1. ASSUME NEW r \in Req,
             \/ \E q \in Workload : Receive(r, q)
             \/ Refuse(r) \/ Step(r) \/ Fail(r)
      PROVE  FlushInv'
  <2>1. ASSUME NEW o \in Req \ {r} PROVE ReadAt(o)' /\ FlushedAt(o)'
    BY <1>1, OthersUntouched, UntouchedFlush DEF FlushInv
  <2>2. ReadAt(r)' /\ FlushedAt(r)'
    <3>1. CASE \E q \in Workload : Receive(r, q)
      BY <3>1, ReceiveKeepsFlush
    <3>2. CASE Refuse(r) \/ Fail(r) \/ Refresh(r)
      BY <3>2, CloseKeepsFlush DEF Refuse, Fail, Refresh, Reject, Unavailable
    <3>3. CASE Step(r) /\ ~Refresh(r)
      BY <3>3, AvailableUnitsKeepsFlush, InsertTransactionKeepsFlush,
         LoadsKeepFlush, FlushTransactionKeepsFlush, ApplyCompletedKeepsFlush,
         InsertHoldingKeepsFlush, FlushHoldingKeepsFlush, CommitKeepsFlush
         DEF Step
    <3>4. QED
      BY <1>1, <3>1, <3>2, <3>3
  <2>3. QED
    BY <2>1, <2>2 DEF FlushInv
<1>2. CASE UNCHANGED vars
  <2>1. \A o \in Req : Untouched(o)
    BY <1>2 DEF vars, Untouched
  <2>2. QED
    BY <2>1, UntouchedFlush DEF FlushInv
<1>3. QED
  BY <1>1, <1>2 DEF Next, Quiescent

\* Initially nothing is read.
LEMMA FlushInit == Init => FlushInv
BY DEF Init, FlushInv, ReadAt, FlushedAt

-----------------------------------------------------------------------------
(* The results.                                                            *)

\* The parts together are an inductive invariant of the specification.
THEOREM LedgerInvariant == Spec => []LedgerInv
<1>1. Init => LedgerInv
  BY TypeInit, UnitsInit, IndexInit, DeletionInit, CompletionInit,
     AnswerInit, FlushInit
     DEF LedgerInv, TypeInv
<1>2. LedgerInv /\ [Next]_vars => LedgerInv'
  BY TypeStep, UnitsStep, IndexStep, DeletionStep, CompletionStep,
     WriteStep, AnswerStep, FlushStep
     DEF LedgerInv, TypeInv
<1>3. QED
  BY <1>1, <1>2, PTL DEF Spec

\* No commit stores a completion without the change of its holding, or a
\* transaction's change of a holding without the completion.
THEOREM CompletionIsWhole == Spec => []CompletionCommitsWithUnits
<1>1. LedgerInv => CompletionCommitsWithUnits
  BY DEF LedgerInv, CompletionInv, CompletionAt, CompletionCommitsWithUnits
<1>2. QED
  BY <1>1, LedgerInvariant, PTL

\* No commit makes a soft-deleted transaction or holding active again.
THEOREM SoftDeletionIsFinal == Spec => SoftDeleteIsFinal
<1> DEFINE Final ==
      /\ \A t \in TransactionId :
           transactions[t] # None /\ ~transactions[t].is_active
           => ~transactions'[t].is_active
      /\ \A h \in HoldingId :
           holdings[h] # None /\ ~holdings[h].is_active
           => ~holdings'[h].is_active
<1>1. LedgerInv /\ [Next]_vars => [Final]_vars
  <2> SUFFICES ASSUME LedgerInv, Next PROVE Final \/ UNCHANGED vars
    OBVIOUS
  <2>1. TypeInv /\ IndexInv /\ DeletionInv
    BY DEF LedgerInv, TypeInv
  <2>2. ASSUME NEW r \in Req, Commit(r)
        PROVE  Final
    BY <2>1, <2>2, CommittedTransactions, CommittedHoldings
  <2>3. ASSUME NEW r \in Req,
               \/ \E q \in Workload : Receive(r, q)
               \/ Refuse(r) \/ Step(r) \/ Fail(r),
               ~Commit(r)
        PROVE  Final
    BY <2>3, TablesUnchanged
  <2>4. QED
    BY <2>2, <2>3 DEF Next, Quiescent
<1>2. Spec => []LedgerInv
  BY LedgerInvariant
<1>3. QED
  BY <1>1, <1>2, PTL DEF Spec, SoftDeleteIsFinal

\* The variables keep their types.
THEOREM TypeCorrect == Spec => []TypeOK
<1>1. LedgerInv => TypeOK
  BY DEF LedgerInv
<1>2. QED
  BY <1>1, LedgerInvariant, PTL

\* What a client is told agrees with what is stored.
THEOREM AnswersAreTrue == Spec => []AnswerMatchesTables
<1>1. LedgerInv => AnswerMatchesTables
  BY DEF LedgerInv, AnswerInv
<1>2. QED
  BY <1>1, LedgerInvariant, PTL

\* A transaction call that overwrites what it has read books what it moves.
LEMMA CommitBooks ==
    ASSUME LedgerInv, NEW r \in Req, Commit(r), IsTransactionCall(r),
           ReadIsCurrent(r), NEW h \in HoldingId
    PROVE  Unexplained(h)' = Unexplained(h)
<1> DEFINE t == txnWrite[r]
           w == holdingWrite[r]
<1>1. /\ TypeInv /\ IndexInv /\ DeletionInv /\ CompletionInv
      /\ WriteAt(r) /\ AnswerAt(r) /\ pc[r] = "commit"
  BY DEF LedgerInv, TypeInv, WriteInv, AnswerInv, Commit
<1>2. CommitsWhole(r)
  BY <1>1 DEF CompletionInv, CompletionAt
<1>3. ~SetsUnits(r)
  BY DEF SetsUnits, IsTransactionCall
<1>4. /\ booked[h] \in Int
      /\ holdings[h] # None => holdings[h].units \in Int
  BY <1>1 DEF TypeInv, TypeOK, Holding
<1>5. booked'[h] = IF /\ Completes(r)
                      /\ \/ h \in ActiveHoldings(t.row.position)
                         \/ h = r /\ w # None /\ w.id = r
                   THEN booked[h] + Signed(t.row) ELSE booked[h]
  BY <1>3 DEF Commit, Book
<1>6. CASE w = None
  <2>1. holdings' = holdings
    BY <1>6 DEF Commit
  <2>2. Completes(r) => t.row.transaction_type = "DIVIDEND"
    BY <1>2, <1>6 DEF CommitsWhole, Completes
  <2>3. Completes(r) => Signed(t.row) = 0
    BY <2>2 DEF Signed, InflowTypes, OutflowTypes
  <2>4. booked'[h] = booked[h]
    BY <1>4, <1>5, <2>3
  <2>5. QED
    BY <2>1, <2>4 DEF Unexplained
<1>7. CASE w # None
  <2>1. /\ WritesCompleted(r) /\ w.row.position = t.row.position
        /\ "units" \in w.dirty /\ t # None /\ t.row = Subject(r)
    BY <1>1, <1>2, <1>7 DEF CommitsWhole, WriteAt, WritesCompleted
  <2>2. /\ w \in HoldingWrite /\ w.id \in HoldingId /\ w.row.units \in Int
    BY <1>1, <1>7 DEF TypeInv, TypeOK, HoldingWrite, Holding
  <2>3. Completes(r)
    <3>1. CASE call[r].op = "create_transaction"
      <4>1. transactions[r] = None
        BY <1>1 DEF DeletionInv, DeletionAt
      <4>2. t.id = r
        BY <1>1, <2>1, <3>1 DEF DeletionInv, DeletionAt, SubjectId
      <4>3. QED
        BY <2>1, <4>1, <4>2 DEF Completes
    <3>2. CASE call[r].op = "update_transaction"
      <4>1. loaded[r] # None /\ t.id = call[r].id
        BY <1>1, <2>1, <3>2
           DEF TypeInv, ControlInv, ControlAt, DeletionInv, DeletionAt,
               SubjectId
      <4>2. loaded[r].transaction_status # "COMPLETED"
        BY <1>1, <2>1, <3>2 DEF WriteAt, WritesCompleted
      <4>3. QED
        BY <2>1, <4>1, <4>2 DEF Completes, ReadIsCurrent
    <3>3. QED
      BY <3>1, <3>2 DEF IsTransactionCall
  <2>4. /\ Signed(t.row) \in Int /\ Signed(Subject(r)) = Signed(t.row)
    <3>1. t.row \in Transaction
      BY <1>1, <2>1 DEF TypeInv, TypeOK, TransactionWrite
    <3>2. QED
      BY <2>1, <3>1 DEF Signed, Transaction
  <2>5. holdings' = [holdings EXCEPT ![w.id] = CommittedHolding(@, w)]
    BY <1>7 DEF Commit
  <2>6. holdings'[h] = IF h = w.id THEN CommittedHolding(holdings[h], w)
                       ELSE holdings[h]
    BY <1>1, <2>5 DEF TypeInv, TypeOK
  <2>7. CASE w.id = r /\ holdings[r] = None
    <3>1. w.row.units = Signed(t.row)
      BY <1>1, <1>7, <2>4, <2>7 DEF WriteAt, IndexInv, IndexAt
    <3>2. ActiveHoldings(t.row.position) = {}
      BY <1>1, <1>7, <2>1, <2>7 DEF Inserting, IndexInv, IndexAt
    <3>3. booked'[h] = IF h = r THEN booked[h] + Signed(t.row) ELSE booked[h]
      BY <1>5, <1>7, <2>3, <2>7, <3>2
    <3>4. h = r => holdings'[h] = w.row
      BY <2>6, <2>7 DEF CommittedHolding
    <3>5. CASE h = r
      <4>1. w.row # None
        BY <2>2, NoneAssumption, WriteAssumption DEF HoldingWrite
      <4>2. QED
        BY <1>4, <2>4, <2>7, <3>1, <3>3, <3>4, <3>5, <4>1 DEF Unexplained
    <3>6. CASE h # r
      BY <2>6, <2>7, <3>3, <3>6 DEF Unexplained
    <3>7. QED
      BY <3>5, <3>6
  <2>8. CASE ~(w.id = r /\ holdings[r] = None)
    <3>1. /\ seen[r] # None /\ w.id = seen[r].id
          /\ w.row.units = seen[r].row.units + Signed(t.row)
      BY <1>1, <1>7, <2>4, <2>8 DEF WriteAt
    <3>2. /\ holdings[w.id] # None /\ seen[r].row.is_active
          /\ holdings[w.id] = seen[r].row
      BY <1>1, <1>7, <3>1 DEF IndexInv, IndexAt, ReadIsCurrent
    <3>3. holdings[w.id].position = t.row.position
      BY <1>1, <1>7, <2>1, <2>8, <3>2 DEF WriteAt
    <3>4. /\ h \in ActiveHoldings(t.row.position) => h = w.id
          /\ w.id \in ActiveHoldings(t.row.position)
      <4>1. t.row.position \in Position
        BY <1>1, <2>1 DEF TypeInv, TypeOK, TransactionWrite, Transaction
      <4>2. w.id \in ActiveHoldings(t.row.position)
        BY <2>2, <3>2, <3>3 DEF ActiveHoldings, IsActive
      <4>3. QED
        BY <1>1, <4>1, <4>2 DEF IndexInv, OneActiveHolding
    <3>5. CASE h = w.id
      <4>1. booked'[h] = booked[h] + Signed(t.row)
        BY <1>5, <2>3, <3>4, <3>5
      <4>2. holdings[h] \in Holding
        BY <1>1, <3>2, <3>5 DEF TypeInv, TypeOK
      <4>3. holdings'[h] # None /\ holdings'[h].units = w.row.units
        <5>1. CommittedHolding(holdings[h], w) \in Holding
          BY <2>2, <4>2, CommittedRowTypes
        <5>2. CommittedHolding(holdings[h], w).units = w.row.units
          BY <2>1, <3>2, <3>5, <4>2 DEF CommittedHolding, Holding
        <5>3. QED
          BY <2>6, <3>5, <5>1, <5>2, NoneAssumption, WriteAssumption
      <4>4. holdings[h] # None /\ w.row.units = holdings[h].units + Signed(t.row)
        BY <3>1, <3>2, <3>5
      <4>5. QED
        BY <1>4, <2>4, <4>1, <4>3, <4>4 DEF Unexplained
    <3>6. CASE h # w.id
      <4>1. booked'[h] = booked[h]
        BY <1>5, <3>4, <3>6
      <4>2. QED
        BY <2>6, <3>6, <4>1 DEF Unexplained
    <3>7. QED
      BY <3>5, <3>6
  <2>9. QED
    BY <2>7, <2>8
<1>8. QED
  BY <1>6, <1>7

\* Only races make a holding differ from what was booked to it.
THEOREM UnracedCommitsBook == Spec => OnlyRacesLoseUnits
<1> DEFINE Booked ==
      \A r \in Req :
          /\ pc[r] = "commit" /\ pc'[r] # "commit"
          /\ IsTransactionCall(r) /\ ReadIsCurrent(r)
          => \A h \in HoldingId : Unexplained(h)' = Unexplained(h)
<1>1. LedgerInv /\ [Next]_vars => [Booked]_vars
  <2> SUFFICES ASSUME LedgerInv, Next,
                      NEW r \in Req, pc[r] = "commit", pc'[r] # "commit",
                      IsTransactionCall(r), ReadIsCurrent(r),
                      NEW h \in HoldingId
               PROVE  Unexplained(h)' = Unexplained(h)
    OBVIOUS
  <2>1. CASE Commit(r)
    BY <2>1, CommitBooks
  <2>2. CASE ~Commit(r)
    <3>1. TypeInv
      BY DEF LedgerInv, TypeInv
    <3>2. PICK o \in Req : \/ \E q \in Workload : Receive(o, q)
                           \/ Refuse(o) \/ Step(o) \/ Fail(o)
      BY DEF Next, Quiescent, vars
    <3>3. o = r
      BY <3>1, <3>2, OthersUntouched DEF Untouched
    <3>4. booked' = booked /\ holdings' = holdings
      BY <2>2, <3>2, <3>3
         DEF Receive, Refuse, Fail, Reject, Unavailable, Step, history, tables,
             AvailableUnits, InsertTransaction, LoadTransaction,
             FlushTransaction, ApplyCompleted, FindHolding, InsertHolding,
             LoadHolding, FlushHolding, Refresh, Continue
    <3>5. QED
      BY <3>4 DEF Unexplained
  <2>3. QED
    BY <2>1, <2>2
<1>2. QED
  BY <1>1, LedgerInvariant, PTL DEF Spec, OnlyRacesLoseUnits
=============================================================================
