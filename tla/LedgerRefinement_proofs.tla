----------------------- MODULE LedgerRefinement_proofs -----------------------
(***************************************************************************)
(* TransactionLedger implements AtomicLedger; its locks and index waits    *)
(* never form a circle; and a server that handles one request at a time    *)
(* books exactly the units it moves.  All for any requests, positions,     *)
(* seeds and workload.                                                     *)
(***************************************************************************)
EXTENDS TransactionLedger_proofs, FiniteSetTheorems

-----------------------------------------------------------------------------
(* AtomicLedger reads the rows and the calls as TransactionLedger does.    *)

\* The operators on one row or one call.
LEMMA SameRows ==
    /\ Abstract!TransactionId = TransactionId
    /\ Abstract!HoldingId = HoldingId
    /\ Abstract!OutflowTypes = OutflowTypes
    /\ \A row : Abstract!IsActive(row) = IsActive(row)
    /\ \A txn : Abstract!Signed(txn) = Signed(txn)
    /\ \A row, q : Abstract!PatchedTransaction(row, q)
                   = PatchedTransaction(row, q)
    /\ \A txn, row : Abstract!Exceeds(txn, row) = Exceeds(txn, row)
BY DEF Abstract!TransactionId, TransactionId, Abstract!HoldingId, HoldingId,
       Abstract!OutflowTypes, OutflowTypes, Abstract!InflowTypes, InflowTypes,
       Abstract!IsActive, IsActive, Abstract!Signed, Signed,
       Abstract!PatchedTransaction, PatchedTransaction,
       Abstract!Exceeds, Exceeds

\* The operators on what a request has read.
LEMMA SameReads ==
    ASSUME NEW r
    PROVE  /\ Abstract!Subject(r) = Subject(r)
           /\ Abstract!IsTransactionCall(r) = IsTransactionCall(r)
           /\ Abstract!Completing(r) = Completing(r)
           /\ Abstract!Outflow(r) = Outflow(r)
           /\ Abstract!NewHolding(r) = NewHolding(r)
           /\ Abstract!ChangedHolding(r) = ChangedHolding(r)
           /\ \A p : Abstract!ActiveHoldings(p) = ActiveHoldings(p)
<1>1. /\ Abstract!Subject(r) = Subject(r)
      /\ Abstract!IsTransactionCall(r) = IsTransactionCall(r)
  BY SameRows DEF Abstract!Subject, Subject, Abstract!IsTransactionCall,
                  IsTransactionCall
<1>2. /\ Abstract!Completing(r) = Completing(r)
      /\ Abstract!Outflow(r) = Outflow(r)
  BY <1>1, SameRows
     DEF Abstract!Completing, Completing, Abstract!Outflow, Outflow
<1>3. /\ Abstract!NewHolding(r) = NewHolding(r)
      /\ Abstract!ChangedHolding(r) = ChangedHolding(r)
  BY <1>1, SameRows DEF Abstract!NewHolding, NewHolding,
                        Abstract!ChangedHolding, ChangedHolding
<1>4. \A p : Abstract!ActiveHoldings(p) = ActiveHoldings(p)
  BY SameRows DEF Abstract!ActiveHoldings, ActiveHoldings
<1>5. QED
  BY <1>1, <1>2, <1>3, <1>4

\* The sum of a customer's completed units.
LEMMA SameUnits ==
    ASSUME NEW rows, NEW p
    PROVE  Abstract!UnitsIn(rows, p) = UnitsIn(rows, p)
<1>1. ASSUME NEW fun, NEW S
      PROVE  Abstract!SumFunctionOnSet(fun, S) = SumFunctionOnSet(fun, S)
  BY DEF Abstract!SumFunctionOnSet, SumFunctionOnSet,
         Abstract!FoldFunctionOnSet, FoldFunctionOnSet,
         Abstract!MapThenFoldSet, MapThenFoldSet
<1>2. QED
  BY <1>1, SameRows DEF Abstract!UnitsIn, UnitsIn

-----------------------------------------------------------------------------
(* How the steps of a request move its call.                               *)

\* The initial states correspond.
LEMMA InitImplements == Init => Abstract!Init
<1> SUFFICES ASSUME Init PROVE Abstract!Init
  OBVIOUS
<1>1. Stage = [r \in Req |-> "new"]
  BY DEF Init, Stage
<1>2. QED
  BY <1>1, SameRows DEF Init, Abstract!Init

\* Between its first statement and its commit a call is open.
LEMMA StageWhile ==
    ASSUME TypeInv, NEW r \in Req, pc[r] \notin {"idle", "refresh", "done"}
    PROVE  Stage[r] = "open"
BY DEF Stage

\* A step inside the call changes no stage.
LEMMA StageSame ==
    ASSUME TypeInv, NEW r \in Req,
           pc[r] \notin {"idle", "refresh", "done"},
           NEW step \in Steps \ {"idle", "refresh", "done"},
           Continue(r, step)
    PROVE  Stage' = Stage
<1>1. /\ pc' = [pc EXCEPT ![r] = step] /\ response' = response
  BY DEF Continue
<1>2. ASSUME NEW o \in Req PROVE Stage'[o] = Stage[o]
  BY <1>1 DEF Stage, TypeInv, TypeOK
<1>3. QED
  BY <1>2 DEF Stage

\* An answer, with nothing stored, ends the call.
LEMMA CloseImplements ==
    ASSUME TypeInv, NEW r \in Req, NEW answer, Close(r, answer)
    PROVE  Abstract!Close(r, answer)
<1>1. /\ pc' = [pc EXCEPT ![r] = "done"]
      /\ response' = [response EXCEPT ![r] = answer]
  BY DEF Close
<1>2. ASSUME NEW o \in Req
      PROVE  Stage'[o] = [Stage EXCEPT ![r] = answer][o]
  BY <1>1 DEF Stage, TypeInv, TypeOK
<1>3. Stage' = [Stage EXCEPT ![r] = answer]
  BY <1>2 DEF Stage
<1>4. QED
  BY <1>3 DEF Close, Abstract!Close

\* A call is refused with a reason.
LEMMA RefusalImplements ==
    ASSUME TypeInv, NEW r \in Req, Reject(r),
           \/ pc[r] = "idle"
           \/ /\ pc[r] \notin {"idle", "refresh", "done"}
              /\ Abstract!Missing(r) \/ Abstract!Taken(r) \/ Abstract!Short(r)
    PROVE  Abstract!Next
<1>1. Abstract!Close(r, "client_error")
  BY CloseImplements DEF Reject
<1>2. transactions' = transactions /\ holdings' = holdings
  BY DEF Reject, tables
<1>3. pc[r] = "idle" => Stage[r] = "new"
  BY DEF Stage
<1>4. Abstract!Refuse(r)
  BY <1>1, <1>2, <1>3, StageWhile DEF Abstract!Refuse
<1>5. QED
  BY <1>4 DEF Abstract!Next

\* A call whose statement fails is lost, stored or not.
LEMMA LossImplements ==
    ASSUME TypeInv, NEW r \in Req, r \in InFlight, Unavailable(r)
    PROVE  Abstract!Next
<1>1. Abstract!Close(r, "unavailable")
  BY CloseImplements DEF Unavailable
<1>2. transactions' = transactions /\ holdings' = holdings
  BY DEF Unavailable, tables
<1>3. Stage[r] \in {"open", "stored"}
  BY DEF Stage, InFlight
<1>4. Abstract!Lose(r)
  BY <1>1, <1>2, <1>3 DEF Abstract!Lose
<1>5. QED
  BY <1>4 DEF Abstract!Next

\* A request is received.
LEMMA ReceiveImplements ==
    ASSUME TypeInv, NEW r \in Req, NEW q \in Workload, Receive(r, q)
    PROVE  Abstract!Next
<1>1. /\ pc[r] = "idle" /\ pc' = [pc EXCEPT ![r] = FirstStep(q)]
      /\ response' = response
  BY DEF Receive
<1>2. FirstStep(q) \in Steps \ {"idle", "refresh", "done"}
  BY CallShape, RequestAssumption DEF FirstStep, Steps
<1>3. Stage[r] = "new"
  BY <1>1 DEF Stage
<1>4. ASSUME NEW o \in Req
      PROVE  Stage'[o] = [Stage EXCEPT ![r] = "open"][o]
  BY <1>1, <1>2 DEF Stage, TypeInv, TypeOK
<1>5. Stage' = [Stage EXCEPT ![r] = "open"]
  BY <1>4 DEF Stage
<1>6. Abstract!Receive(r, q)
  BY <1>3, <1>5 DEF Receive, Abstract!Receive, tables, session
<1>7. QED
  BY <1>6 DEF Abstract!Next

-----------------------------------------------------------------------------
(* The statements before the commit read, refuse, or do nothing a client   *)
(* can see.                                                                *)

\* A step that only moves the program counter and the flushed writes.
LEMMA SilentStep ==
    ASSUME TypeInv, NEW r \in Req,
           pc[r] \notin {"idle", "refresh", "done"},
           NEW step \in Steps \ {"idle", "refresh", "done"},
           Continue(r, step), loaded' = loaded, seen' = seen
    PROVE  UNCHANGED Abstract!vars
BY StageSame DEF Continue, tables, Abstract!vars

\* A step that reads the active holding h on which its call can act.
LEMMA ReadStep ==
    ASSUME TypeInv, NEW r \in Req,
           pc[r] \notin {"idle", "refresh", "done"},
           NEW step \in Steps \ {"idle", "refresh", "done"},
           Continue(r, step), loaded' = loaded,
           NEW h \in HoldingId, IsActive(holdings[h]),
           seen' = [seen EXCEPT ![r] = [id |-> h, row |-> holdings[h]]],
           \/ /\ call[r].op \in {"update_holding", "delete_holding"}
              /\ h = call[r].id
           \/ /\ call[r].op = "create_transaction" \/ loaded[r] # None
              /\ \/ Completing(r)
                 \/ call[r].op = "create_transaction" /\ Outflow(r)
              /\ holdings[h].position = Subject(r).position
              /\ ~Exceeds(Subject(r), holdings[h])
    PROVE  Abstract!Next
<1>1. Stage[r] = "open" /\ Stage' = Stage
  BY StageWhile, StageSame
<1>2. UNCHANGED <<transactions, holdings, call, loaded, Stage>>
  BY <1>1 DEF Continue, tables
<1>3. /\ Abstract!Subject(r) = Subject(r)
      /\ Abstract!Completing(r) = Completing(r)
      /\ Abstract!Outflow(r) = Outflow(r)
  BY SameReads
<1>4. /\ Abstract!HoldingId = HoldingId
      /\ Abstract!IsActive(holdings[h]) = IsActive(holdings[h])
      /\ Abstract!Exceeds(Subject(r), holdings[h])
         = Exceeds(Subject(r), holdings[h])
  BY SameRows
<1>5. Abstract!ReadHolding(r)
  BY <1>1, <1>2, <1>3, <1>4 DEF Abstract!ReadHolding
<1>6. QED
  BY <1>5 DEF Abstract!Next

\* The availability check reads a holding, refuses an outflow that is short,
\* or goes on with the sum of the transactions.
LEMMA AvailableUnitsImplements ==
    ASSUME LedgerInv, NEW r \in Req, AvailableUnits(r)
    PROVE  Abstract!Next \/ UNCHANGED Abstract!vars
<1> DEFINE p == Subject(r).position
           next == IF call[r].op = "create_transaction"
                   THEN "insert_transaction" ELSE "apply_completed"
<1>1. /\ TypeInv /\ ReadAt(r) /\ ControlAt(r) /\ FlushedAt(r)
      /\ pc[r] = "available_units"
      /\ next \in Steps \ {"idle", "refresh", "done"}
  BY DEF LedgerInv, TypeInv, FlushInv, ControlInv, Steps, AvailableUnits
<1>2. /\ IsTransactionCall(r) /\ Outflow(r)
      /\ call[r].op = "update_transaction" => Completing(r) /\ loaded[r] # None
      /\ call[r].op = "create_transaction" => txnWrite[r] = None
  BY <1>1 DEF ControlAt, ReadAt, FlushedAt
<1>3. Completing(r) \/ call[r].op = "create_transaction"
  BY <1>2 DEF IsTransactionCall
<1>4. /\ Abstract!Subject(r) = Subject(r)
      /\ Abstract!Completing(r) = Completing(r)
      /\ Abstract!Outflow(r) = Outflow(r)
      /\ Abstract!ActiveHoldings(p) = ActiveHoldings(p)
  BY SameReads
<1>5. CASE /\ ActiveHoldings(p) = {}
           /\ Continue(r, next) /\ UNCHANGED session
  BY <1>1, <1>5, SilentStep DEF session
<1>6. CASE /\ ActiveHoldings(p) = {}
           /\ Subject(r).units > LedgerUnits(r, p)
           /\ Reject(r)
  <2>1. ASSUME call[r].op = "create_transaction"
        PROVE  LedgerUnits(r, p) = Abstract!UnitsIn(transactions, p)
    <3>1. [t \in TransactionId |-> VisibleTransaction(r, t)] = transactions
      BY <1>1, <1>2, <2>1 DEF VisibleTransaction, TypeInv, TypeOK
    <3>2. QED
      BY <3>1, SameUnits DEF LedgerUnits
  <2>2. Abstract!Short(r)
    BY <1>2, <1>3, <1>4, <1>6, <2>1 DEF Abstract!Short
  <2>3. QED
    BY <1>1, <1>6, <2>2, RefusalImplements
<1>7. ASSUME NEW h \in ActiveHoldings(p)
      PROVE  /\ h \in HoldingId /\ IsActive(holdings[h])
             /\ holdings[h].position = p
             /\ Exceeds(Subject(r), holdings[h])
                <=> Subject(r).units > holdings[h].units
  BY <1>2 DEF ActiveHoldings, Exceeds, Outflow
<1>8. ASSUME NEW h \in ActiveHoldings(p),
             Subject(r).units <= holdings[h].units,
             seen' = [seen EXCEPT ![r] = [id |-> h, row |-> holdings[h]]],
             Continue(r, next), loaded' = loaded
      PROVE  Abstract!Next
  <2>1. Subject(r).units \in Int /\ holdings[h].units \in Int
    <3>1. Subject(r) \in Transaction
      BY <1>1, <1>2, SubjectType DEF TypeInv, IsTransactionCall
    <3>2. holdings[h] \in Holding
      BY <1>1, <1>7 DEF TypeInv, TypeOK, IsActive
    <3>3. QED
      BY <3>1, <3>2 DEF Transaction, Holding
  <2>2. ~Exceeds(Subject(r), holdings[h])
    BY <1>7, <1>8, <2>1
  <2>3. /\ call[r].op = "create_transaction" \/ loaded[r] # None
        /\ \/ Completing(r)
           \/ call[r].op = "create_transaction" /\ Outflow(r)
    BY <1>2 DEF IsTransactionCall
  <2>4. QED
    BY <1>1, <1>7, <1>8, <2>2, <2>3, ReadStep
<1>9. ASSUME NEW h \in ActiveHoldings(p),
             Subject(r).units > holdings[h].units,
             Reject(r)
      PROVE  Abstract!Next
  <2>1. Abstract!Exceeds(Subject(r), holdings[h])
    BY <1>7, <1>9, SameRows
  <2>2. Abstract!Short(r)
    BY <1>2, <1>3, <1>4, <2>1 DEF Abstract!Short
  <2>3. QED
    BY <1>1, <1>9, <2>2, RefusalImplements
<1>10. QED
  BY <1>1, <1>5, <1>6, <1>8, <1>9 DEF AvailableUnits

\* A load reads the row that the call names, or finds it missing.
LEMMA LoadsImplement ==
    ASSUME LedgerInv, NEW r \in Req, LoadTransaction(r) \/ LoadHolding(r)
    PROVE  Abstract!Next
<1>1. TypeInv /\ ControlAt(r) /\ DeletionAt(r)
  BY DEF LedgerInv, TypeInv, ControlInv, DeletionInv
<1>2. \A row : Abstract!IsActive(row) = IsActive(row)
  BY SameRows
<1>3. CASE LoadTransaction(r) /\ IsActive(transactions[call[r].id])
  <2>1. /\ pc[r] = "load_transaction" /\ loaded[r] = None
        /\ call[r].op \in {"update_transaction", "delete_transaction"}
    BY <1>1, <1>3 DEF LoadTransaction, ControlAt, DeletionAt
  <2>2. /\ Continue(r, "flush_transaction") /\ seen' = seen
        /\ loaded' = [loaded EXCEPT ![r] = transactions[call[r].id]]
    BY <1>3 DEF LoadTransaction
  <2>3. Stage[r] = "open" /\ Stage' = Stage
    BY <1>1, <2>1, <2>2, StageWhile, StageSame DEF Steps
  <2>4. Abstract!ReadTransaction(r)
    BY <1>2, <1>3, <2>1, <2>2, <2>3
       DEF Continue, tables, Abstract!ReadTransaction
  <2>5. QED
    BY <2>4 DEF Abstract!Next
<1>4. CASE LoadHolding(r) /\ IsActive(holdings[call[r].id])
  <2>1. /\ pc[r] = "load_holding"
        /\ call[r].op \in {"update_holding", "delete_holding"}
    BY <1>1, <1>4 DEF LoadHolding, ControlAt
  <2>2. /\ Continue(r, "flush_holding") /\ loaded' = loaded
        /\ seen' = [seen EXCEPT ![r] =
                      [id |-> call[r].id, row |-> holdings[call[r].id]]]
    BY <1>4 DEF LoadHolding
  <2>3. call[r].id \in HoldingId
    BY <1>1, <2>1, CallShape DEF TypeInv, TypeOK, ControlAt
  <2>4. QED
    BY <1>1, <1>4, <2>1, <2>2, <2>3, ReadStep DEF Steps
<1>5. CASE LoadTransaction(r) /\ ~IsActive(transactions[call[r].id])
  <2>1. /\ pc[r] = "load_transaction" /\ Reject(r)
        /\ call[r].op \in {"update_transaction", "delete_transaction"}
    BY <1>1, <1>5 DEF LoadTransaction, ControlAt
  <2>2. Abstract!Missing(r)
    BY <1>2, <1>5, <2>1 DEF Abstract!Missing
  <2>3. QED
    BY <1>1, <2>1, <2>2, RefusalImplements
<1>6. CASE LoadHolding(r) /\ ~IsActive(holdings[call[r].id])
  <2>1. /\ pc[r] = "load_holding" /\ Reject(r)
        /\ call[r].op \in {"update_holding", "delete_holding"}
    BY <1>1, <1>6 DEF LoadHolding, ControlAt
  <2>2. Abstract!Missing(r)
    BY <1>2, <1>6, <2>1 DEF Abstract!Missing
  <2>3. QED
    BY <1>1, <2>1, <2>2, RefusalImplements
<1>7. QED
  BY <1>3, <1>4, <1>5, <1>6

\* The apply step reads the holding again, or for the first time; an outflow
\* it refuses is short, and by the rows as they are: what the session has read
\* before covers it.
LEMMA ApplyCompletedImplements ==
    ASSUME LedgerInv, NEW r \in Req, ApplyCompleted(r)
    PROVE  Abstract!Next \/ UNCHANGED Abstract!vars
<1> DEFINE p == Subject(r).position
<1>1. /\ TypeInv /\ ReadAt(r) /\ ControlAt(r)
      /\ pc[r] = "apply_completed"
  BY DEF LedgerInv, TypeInv, FlushInv, ControlInv, ApplyCompleted
<1>2. /\ Completing(r) /\ IsTransactionCall(r)
      /\ call[r].op = "create_transaction" \/ loaded[r] # None
  BY <1>1 DEF ControlAt, ReadAt, IsTransactionCall
<1>3. /\ Abstract!Subject(r) = Subject(r)
      /\ Abstract!Completing(r) = Completing(r)
      /\ Abstract!Outflow(r) = Outflow(r)
      /\ Abstract!ActiveHoldings(p) = ActiveHoldings(p)
  BY SameReads
<1>4. CASE ActiveHoldings(p) = {} /\ Outflow(r) /\ Reject(r)
  <2>1. Abstract!Short(r)
    BY <1>2, <1>3, <1>4 DEF Abstract!Short
  <2>2. QED
    BY <1>1, <1>4, <2>1, RefusalImplements
<1>5. CASE Continue(r, "insert_holding") /\ UNCHANGED session
  BY <1>1, <1>5, SilentStep DEF session, Steps
<1>6. ASSUME NEW h \in ActiveHoldings(p), NEW row \in SessionRows(r, h),
             Exceeds(Subject(r), row), Reject(r)
      PROVE  Abstract!Next
  <2>1. seen[r] # None => ~Exceeds(Subject(r), seen[r].row)
    BY <1>1, <1>2 DEF ReadAt
  <2>2. row = holdings[h]
    BY <1>6, <2>1 DEF SessionRows
  <2>3. Abstract!Exceeds(Subject(r), holdings[h])
    BY <1>6, <2>2, SameRows
  <2>4. Outflow(r)
    BY <1>6 DEF Exceeds, Outflow
  <2>5. Abstract!Short(r)
    BY <1>2, <1>3, <2>3, <2>4 DEF Abstract!Short
  <2>6. QED
    BY <1>1, <1>6, <2>5, RefusalImplements
<1>7. ASSUME NEW h \in ActiveHoldings(p), NEW row \in SessionRows(r, h),
             ~Exceeds(Subject(r), row),
             seen' = [seen EXCEPT ![r] = [id |-> h, row |-> row]],
             Continue(r, "flush_holding"), loaded' = loaded
      PROVE  Abstract!Next \/ UNCHANGED Abstract!vars
  <2>1. CASE row = holdings[h]
    <3>1. /\ h \in HoldingId /\ IsActive(holdings[h])
          /\ holdings[h].position = p
      BY DEF ActiveHoldings
    <3>2. QED
      BY <1>1, <1>2, <1>7, <2>1, <3>1, ReadStep DEF Steps
  <2>2. CASE row # holdings[h]
    <3>1. seen[r] # None /\ seen[r].id = h /\ row = seen[r].row
      BY <2>2 DEF SessionRows
    <3>2. seen[r] = [id |-> h, row |-> row]
      BY <1>1, <3>1 DEF TypeInv, TypeOK, LoadedHolding
    <3>3. seen' = seen
      BY <1>1, <1>7, <3>2 DEF TypeInv, TypeOK
    <3>4. QED
      BY <1>1, <1>7, <3>3, SilentStep DEF Steps
  <2>3. QED
    BY <2>1, <2>2
<1>8. QED
  BY <1>4, <1>5, <1>6, <1>7 DEF ApplyCompleted, Outflow

\* create_holding finds its position taken, before its INSERT or by it; so
\* does a completion that was to create the holding.
LEMMA InsertsImplement ==
    ASSUME LedgerInv, NEW r \in Req, FindHolding(r) \/ InsertHolding(r)
    PROVE  Abstract!Next \/ UNCHANGED Abstract!vars
<1>1. /\ TypeInv /\ ControlAt(r) /\ ReadAt(r) /\ UnitsAt(r)
  BY DEF LedgerInv, TypeInv, ControlInv, FlushInv, UnitsInv
<1>2. pc[r] \in {"find_holding", "insert_holding"}
  BY DEF FindHolding, InsertHolding
<1>3. CASE Unavailable(r)
  BY <1>1, <1>2, <1>3, LossImplements DEF InFlight
<1>4. CASE Reject(r)
  <2>1. /\ ActiveHoldings(NewHolding(r).position) # {}
        /\ \/ call[r].op = "create_holding"
           \/ /\ call[r].op = "create_transaction"
              /\ Completing(r) /\ ~Outflow(r)
    <3>1. CASE FindHolding(r)
      <4>1. call[r].op = "create_holding"
        BY <1>1, <3>1 DEF FindHolding, ControlAt
      <4>2. ActiveHoldings(call[r].position) # {}
        BY <1>1, <1>4, <3>1
           DEF FindHolding, Continue, Reject, Close, TypeInv, TypeOK
      <4>3. QED
        BY <4>1, <4>2 DEF NewHolding
    <3>2. CASE InsertHolding(r)
      <4>1. pc[r] = "insert_holding" /\ call[r].op # "update_transaction"
            /\ ActiveHoldings(NewHolding(r).position) # {}
        BY <1>1, <1>4, <3>2
           DEF InsertHolding, IndexConflict, Continue, Unavailable, Reject,
               Close, TypeInv, TypeOK
      <4>2. QED
        BY <1>1, <4>1 DEF ControlAt, ReadAt, UnitsAt, Outflow,
                          IsTransactionCall
    <3>3. QED
      BY <3>1, <3>2
  <2>2. Abstract!Taken(r)
    BY <2>1, SameReads DEF Abstract!Taken
  <2>3. QED
    BY <1>1, <1>2, <1>4, <2>2, RefusalImplements
<1>5. CASE ~Reject(r) /\ ~Unavailable(r)
  <2>1. /\ Continue(r, "insert_holding") \/ Continue(r, "commit")
        /\ loaded' = loaded /\ seen' = seen
    BY <1>5 DEF FindHolding, InsertHolding, session
  <2>2. QED
    BY <1>1, <1>2, <2>1, SilentStep DEF Steps
<1>6. QED
  BY <1>3, <1>4, <1>5

\* A flush is seen by nobody.
LEMMA FlushesImplement ==
    ASSUME LedgerInv, NEW r \in Req,
           InsertTransaction(r) \/ FlushTransaction(r) \/ FlushHolding(r)
    PROVE  UNCHANGED Abstract!vars
<1>1. TypeInv
  BY DEF LedgerInv, TypeInv
<1>2. /\ pc[r] \in {"insert_transaction", "flush_transaction",
                    "flush_holding"}
      /\ loaded' = loaded /\ seen' = seen
      /\ \E step \in {"available_units", "apply_completed", "commit"} :
            Continue(r, step)
  BY DEF InsertTransaction, FlushTransaction, FlushHolding, AfterFlush
<1>3. PICK step \in {"available_units", "apply_completed", "commit"} :
         Continue(r, step)
  BY <1>2
<1>4. QED
  BY <1>1, <1>2, <1>3, SilentStep DEF Steps

-----------------------------------------------------------------------------
(* A commit is the one step in which the call does its writes.             *)

\* To install the changed columns is to merge them.
LEMMA CommitMerges ==
    /\ \A stored, old, new \in Transaction : \A id :
          CommittedTransaction(stored,
              [id |-> id, row |-> new, dirty |-> DirtyTransaction(old, new)])
          = Abstract!MergedTransaction(stored, old, new)
    /\ \A stored, old, new \in Holding : \A id :
          CommittedHolding(stored,
              [id |-> id, row |-> new, dirty |-> DirtyHolding(old, new)])
          = Abstract!MergedHolding(stored, old, new)
    /\ \A stored, old, new \in Transaction :
          DirtyTransaction(old, new) = {}
          => Abstract!MergedTransaction(stored, old, new) = stored
    /\ \A stored, old, new \in Holding :
          DirtyHolding(old, new) = {}
          => Abstract!MergedHolding(stored, old, new) = stored
<1>1. /\ None \notin Transaction /\ None \notin Holding
  BY NoneAssumption
<1>2. ASSUME NEW stored \in Transaction, NEW old \in Transaction,
             NEW new \in Transaction, NEW id
      PROVE  CommittedTransaction(stored,
                [id |-> id, row |-> new, dirty |-> DirtyTransaction(old, new)])
             = Abstract!MergedTransaction(stored, old, new)
  BY <1>1 DEF CommittedTransaction, Abstract!MergedTransaction,
              DirtyTransaction, TransactionColumns
<1>3. ASSUME NEW stored \in Holding, NEW old \in Holding,
             NEW new \in Holding, NEW id
      PROVE  CommittedHolding(stored,
                [id |-> id, row |-> new, dirty |-> DirtyHolding(old, new)])
             = Abstract!MergedHolding(stored, old, new)
  BY <1>1 DEF CommittedHolding, Abstract!MergedHolding,
              DirtyHolding, HoldingColumns
<1>4. ASSUME NEW stored \in Transaction, NEW old \in Transaction,
             NEW new \in Transaction, DirtyTransaction(old, new) = {}
      PROVE  Abstract!MergedTransaction(stored, old, new) = stored
  BY <1>4 DEF Abstract!MergedTransaction, DirtyTransaction,
              TransactionColumns, Transaction
<1>5. ASSUME NEW stored \in Holding, NEW old \in Holding,
             NEW new \in Holding, DirtyHolding(old, new) = {}
      PROVE  Abstract!MergedHolding(stored, old, new) = stored
  BY <1>5 DEF Abstract!MergedHolding, DirtyHolding, HoldingColumns, Holding
<1>6. QED
  BY <1>2, <1>3, <1>4, <1>5

\* What a commit does to the transactions.
LEMMA CommitStoresTransaction ==
    ASSUME LedgerInv, NEW r \in Req, Commit(r)
    PROVE  Abstract!StoreTransaction(r)
<1> DEFINE op == call[r].op
           w == txnWrite[r]
<1>1. /\ TypeInv /\ ControlAt(r) /\ DeletionAt(r) /\ pc[r] = "commit"
      /\ w = TransactionWriteOf(r)
      /\ call[r] \in Call
  BY DEF LedgerInv, TypeInv, ControlInv, DeletionInv, FlushInv, FlushedAt,
         Commit, TypeOK, ControlAt
<1>2. op \in {"create_transaction", "update_transaction",
              "delete_transaction", "create_holding", "update_holding",
              "delete_holding"}
  BY <1>1, CallShape
<1>3. transactions' = IF w = None THEN transactions
                      ELSE [transactions EXCEPT ![w.id] =
                              CommittedTransaction(@, w)]
  BY DEF Commit
<1>4. Abstract!Subject(r) = Subject(r)
  BY SameReads
<1>5. CASE op = "create_transaction"
  <2>1. Subject(r) \in Transaction
    BY <1>1, <1>5, SubjectType DEF TypeInv
  <2>2. /\ w = [id |-> r, row |-> Subject(r), dirty |-> TransactionColumns]
        /\ transactions[r] = None
    BY <1>1, <1>5 DEF TransactionWriteOf, DeletionAt
  <2>3. w # None
    BY <2>1, <2>2, WriteAssumption DEF TransactionWrite, TransactionId
  <2>4. transactions' = [transactions EXCEPT ![r] = Subject(r)]
    <3>1. w.id = r /\ CommittedTransaction(transactions[r], w) = Subject(r)
      BY <2>2 DEF CommittedTransaction
    <3>2. QED
      BY <1>3, <2>3, <3>1
  <2>5. QED
    BY <1>4, <1>5, <2>4 DEF Abstract!StoreTransaction
<1>6. CASE op \in {"update_transaction", "delete_transaction"}
  <2> DEFINE id == call[r].id
             dirty == DirtyTransaction(loaded[r], Subject(r))
             merged == Abstract!MergedTransaction(transactions[id], loaded[r],
                                                  Subject(r))
  <2>1. /\ Subject(r) \in Transaction /\ id \in TransactionId
        /\ loaded[r] \in Transaction /\ loaded[r] # None
        /\ transactions[id] \in Transaction
    BY <1>1, <1>6, SubjectType
       DEF TypeInv, TypeOK, SubjectId, ControlAt, DeletionAt
  <2>2. transactions' = [transactions EXCEPT ![id] = merged]
    <3>1. CASE dirty = {}
      <4>1. w = None
        BY <1>1, <1>6, <3>1 DEF TransactionWriteOf
      <4>2. merged = transactions[id]
        BY <2>1, <3>1, CommitMerges
      <4>3. QED
        BY <1>1, <1>3, <4>1, <4>2 DEF TypeInv, TypeOK
    <3>2. CASE dirty # {}
      <4>1. w = [id |-> id, row |-> Subject(r), dirty |-> dirty]
        BY <1>1, <1>6, <3>2 DEF TransactionWriteOf
      <4>2. w # None
        BY <2>1, <4>1, WriteAssumption
           DEF TransactionWrite, DirtyTransaction
      <4>3. CommittedTransaction(transactions[id], w) = merged
        BY <2>1, <4>1, CommitMerges
      <4>4. w.id = id
        BY <4>1
      <4>5. QED
        BY <1>3, <4>2, <4>3, <4>4
    <3>3. QED
      BY <3>1, <3>2
  <2>3. QED
    BY <1>4, <1>6, <2>1, <2>2 DEF Abstract!StoreTransaction
<1>7. CASE op \in {"create_holding", "update_holding", "delete_holding"}
  <2>1. w = None
    BY <1>1, <1>7 DEF TransactionWriteOf
  <2>2. QED
    BY <1>3, <1>7, <2>1 DEF Abstract!StoreTransaction
<1>8. QED
  BY <1>2, <1>5, <1>6, <1>7

\* What a commit does to the holdings.
LEMMA CommitStoresHolding ==
    ASSUME LedgerInv, NEW r \in Req, Commit(r)
    PROVE  Abstract!StoreHolding(r)
<1> DEFINE op == call[r].op
           w == holdingWrite[r]
<1>1. /\ TypeInv /\ ControlAt(r) /\ IndexAt(r) /\ ReadAt(r) /\ pc[r] = "commit"
      /\ w = HoldingWriteOf(r)
      /\ call[r] \in Call
  BY DEF LedgerInv, TypeInv, ControlInv, IndexInv, FlushInv, FlushedAt,
         Commit, TypeOK, ControlAt
<1>2. op \in {"create_transaction", "update_transaction",
              "delete_transaction", "create_holding", "update_holding",
              "delete_holding"}
  BY <1>1, CallShape
<1>3. holdings' = IF w = None THEN holdings
                  ELSE [holdings EXCEPT ![w.id] = CommittedHolding(@, w)]
  BY DEF Commit
<1>4. /\ Abstract!IsTransactionCall(r) = IsTransactionCall(r)
      /\ Abstract!Completing(r) = Completing(r)
      /\ Abstract!Outflow(r) = Outflow(r)
      /\ Abstract!NewHolding(r) = NewHolding(r)
      /\ Abstract!ChangedHolding(r) = ChangedHolding(r)
      /\ \A p : Abstract!ActiveHoldings(p) = ActiveHoldings(p)
  BY SameReads
<1>5. Completing(r) => IsTransactionCall(r)
  BY DEF Completing, IsTransactionCall
<1>6. CASE /\ op \in {"create_transaction", "update_transaction",
                      "delete_transaction"}
           /\ ~Completing(r)
  <2>1. holdings' = holdings
    BY <1>1, <1>3, <1>6 DEF HoldingWriteOf
  <2>2. QED
    BY <1>4, <1>6, <2>1 DEF Abstract!StoreHolding, IsTransactionCall
<1>7. CASE /\ op \in {"create_holding", "update_holding", "delete_holding"}
              \/ Completing(r)
           /\ seen[r] = None
  <2>1. w = [id |-> r, row |-> NewHolding(r), dirty |-> HoldingColumns]
    BY <1>1, <1>5, <1>7 DEF HoldingWriteOf, IsTransactionCall
  <2>2. \/ op = "create_holding"
        \/ Completing(r) /\ ~Outflow(r)
    BY <1>1, <1>7 DEF ReadAt
  <2>3. w # None
    <3>1. NewHolding(r) \in Holding
      BY <1>1, <1>5, <2>2, NewHoldingType
    <3>2. QED
      BY <2>1, <3>1, WriteAssumption DEF HoldingWrite, HoldingId
  <2>4. holdings[r] = None
    BY <1>1 DEF IndexAt
  <2>5. ActiveHoldings(NewHolding(r).position) = {}
    BY <1>1, <2>1, <2>3, <2>4 DEF IndexAt, Inserting
  <2>6. holdings' = [holdings EXCEPT ![r] = NewHolding(r)]
    <3>1. w.id = r /\ CommittedHolding(holdings[r], w) = NewHolding(r)
      BY <2>1, <2>4 DEF CommittedHolding
    <3>2. QED
      BY <1>3, <2>3, <3>1
  <2>7. QED
    BY <1>4, <1>7, <2>2, <2>5, <2>6 DEF Abstract!StoreHolding
<1>8. CASE /\ op \in {"create_holding", "update_holding", "delete_holding"}
              \/ Completing(r)
           /\ seen[r] # None
  <2> DEFINE id == seen[r].id
             dirty == DirtyHolding(seen[r].row, ChangedHolding(r))
             merged == Abstract!MergedHolding(holdings[id], seen[r].row,
                                              ChangedHolding(r))
  <2>1. op \in {"update_holding", "delete_holding"} \/ Completing(r)
    BY <1>1, <1>8 DEF ReadAt
  <2>2. /\ id \in HoldingId /\ seen[r].row \in Holding
        /\ holdings[id] \in Holding
    BY <1>1, <1>8 DEF TypeInv, TypeOK, LoadedHolding, IndexAt
  <2>3. ChangedHolding(r) \in Holding
    BY <1>1, <1>5, <1>8, <2>1, ChangedHoldingType
  <2>4. holdings' = [holdings EXCEPT ![id] = merged]
    <3>1. CASE dirty = {}
      <4>1. w = None
        BY <1>1, <1>5, <1>8, <3>1 DEF HoldingWriteOf, IsTransactionCall
      <4>2. merged = holdings[id]
        BY <2>2, <2>3, <3>1, CommitMerges
      <4>3. QED
        BY <1>1, <1>3, <4>1, <4>2 DEF TypeInv, TypeOK
    <3>2. CASE dirty # {}
      <4>1. w = [id |-> id, row |-> ChangedHolding(r), dirty |-> dirty]
        BY <1>1, <1>5, <1>8, <3>2 DEF HoldingWriteOf, IsTransactionCall
      <4>2. w # None
        BY <2>2, <2>3, <4>1, WriteAssumption DEF HoldingWrite, DirtyHolding
      <4>3. CommittedHolding(holdings[id], w) = merged
        BY <2>2, <2>3, <4>1, CommitMerges
      <4>4. w.id = id
        BY <4>1
      <4>5. QED
        BY <1>3, <4>2, <4>3, <4>4
    <3>3. QED
      BY <3>1, <3>2
  <2>5. QED
    BY <1>4, <1>8, <2>1, <2>4 DEF Abstract!StoreHolding
<1>9. QED
  BY <1>2, <1>6, <1>7, <1>8

\* A commit is the abstract step in which a call stores what it writes.
LEMMA CommitImplements ==
    ASSUME LedgerInv, NEW r \in Req, Commit(r)
    PROVE  Abstract!Next
<1>1. TypeInv /\ pc[r] = "commit"
  BY DEF LedgerInv, TypeInv, Commit
<1>2. /\ Stage[r] = "open"
      /\ Abstract!StoreTransaction(r) /\ Abstract!StoreHolding(r)
  BY <1>1, StageWhile, CommitStoresTransaction, CommitStoresHolding
<1>3. CASE /\ call[r].op \in {"delete_transaction", "delete_holding"}
           /\ Close(r, "ok")
  <2>1. Abstract!Close(r, "ok")
    BY <1>1, <1>3, CloseImplements
  <2>2. Abstract!Store(r)
    BY <1>2, <1>3, <2>1 DEF Abstract!Store
  <2>3. QED
    BY <2>2 DEF Abstract!Next
<1>4. CASE /\ call[r].op \notin {"delete_transaction", "delete_holding"}
           /\ pc' = [pc EXCEPT ![r] = "refresh"]
           /\ UNCHANGED <<call, response, loaded, seen>>
  <2>1. ASSUME NEW o \in Req
        PROVE  Stage'[o] = [Stage EXCEPT ![r] = "stored"][o]
    BY <1>1, <1>4 DEF Stage, TypeInv, TypeOK
  <2>2. Stage' = [Stage EXCEPT ![r] = "stored"]
    BY <2>1 DEF Stage
  <2>3. Abstract!Store(r)
    BY <1>2, <1>4, <2>2 DEF Abstract!Store
  <2>4. QED
    BY <2>3 DEF Abstract!Next
<1>5. QED
  BY <1>3, <1>4 DEF Commit

\* The refresh answers a call that has stored its writes.
LEMMA RefreshImplements ==
    ASSUME TypeInv, NEW r \in Req, Refresh(r)
    PROVE  Abstract!Next
<1>1. Stage[r] = "stored"
  BY DEF Refresh, Stage
<1>2. Abstract!Close(r, "ok")
  BY CloseImplements DEF Refresh
<1>3. Abstract!Answer(r)
  BY <1>1, <1>2 DEF Refresh, tables, Abstract!Answer
<1>4. QED
  BY <1>3 DEF Abstract!Next

\* Every step of the ledger is a step of AtomicLedger, or none.
LEMMA StepImplements ==
    LedgerInv /\ [Next]_vars => [Abstract!Next]_Abstract!vars
<1> SUFFICES ASSUME LedgerInv, [Next]_vars
             PROVE  Abstract!Next \/ UNCHANGED Abstract!vars
  OBVIOUS
<1>1. TypeInv
  BY DEF LedgerInv, TypeInv
<1>2. ASSUME NEW r \in Req, NEW q \in Workload, Receive(r, q)
      PROVE  Abstract!Next
  BY <1>1, <1>2, ReceiveImplements
<1>3. ASSUME NEW r \in Req, Refuse(r)
      PROVE  Abstract!Next
  BY <1>1, <1>3, RefusalImplements DEF Refuse
<1>4. ASSUME NEW r \in Req, Fail(r)
      PROVE  Abstract!Next
  BY <1>1, <1>4, LossImplements DEF Fail
<1>5. ASSUME NEW r \in Req, Step(r)
      PROVE  Abstract!Next \/ UNCHANGED Abstract!vars
  BY <1>1, <1>5, AvailableUnitsImplements, LoadsImplement,
     ApplyCompletedImplements, InsertsImplement, FlushesImplement,
     CommitImplements, RefreshImplements DEF Step
<1>6. CASE UNCHANGED vars
  BY <1>6 DEF vars, Stage, Abstract!vars
<1>7. QED
  BY <1>2, <1>3, <1>4, <1>5, <1>6 DEF Next, Quiescent

\* For every number of requests and every interleaving of their statements,
\* the service methods keep what AtomicLedger promises: the writes of a call
\* become visible in one step, each column computed from one read of its row,
\* and a call is refused only with a reason and with nothing stored.
THEOREM LedgerImplementsAtomicLedger == Spec => ImplementsAtomicLedger
<1>1. Spec => []LedgerInv
  BY LedgerInvariant
<1>2. LedgerInv /\ [Next]_vars => [Abstract!Next]_Abstract!vars
  BY StepImplements
<1>3. Init => Abstract!Init
  BY InitImplements
<1>4. QED
  BY <1>1, <1>2, <1>3, PTL
     DEF Spec, ImplementsAtomicLedger, Abstract!Spec

-----------------------------------------------------------------------------
(* Locks and index waits.                                                  *)

\* A request that another one waits for has flushed its transaction, or is
\* about to commit a holding and waits for nobody.
LEMMA WaitedFor ==
    ASSUME LedgerInv, NEW r \in Req, NEW o \in Req, WaitsFor(r, o)
    PROVE  /\ pc[o] \notin {"idle", "load_transaction", "flush_transaction",
                            "done"}
           /\ \A x \in Req : ~WaitsFor(o, x) \/ pc[r] = "flush_transaction"
<1>1. DeletionAt(o) /\ IndexAt(o)
  BY DEF LedgerInv, DeletionInv, IndexInv
<1>2. CASE pc[r] = "flush_transaction"
  <2>1. txnWrite[o] # None
    BY <1>2 DEF WaitsFor
  <2>2. QED
    BY <1>1, <1>2, <2>1 DEF DeletionAt
<1>3. CASE pc[r] # "flush_transaction"
  <2>1. holdingWrite[o] # None
    BY <1>3 DEF WaitsFor
  <2>2. pc[o] = "commit"
    BY <1>1, <2>1 DEF IndexAt
  <2>3. QED
    BY <2>2 DEF WaitsFor
<1>4. QED
  BY <1>2, <1>3

\* Chains of waiting requests have two links at most: one for a transaction,
\* then one for a holding.
LEMMA WaitsEnd == LedgerInv => NoDeadlock
<1> SUFFICES ASSUME LedgerInv PROVE NoDeadlock
  OBVIOUS
<1>1. \A r, o \in Req : WaitsFor(r, o) => pc[o] \notin {"idle", "done"}
  BY WaitedFor
<1>2. ASSUME NEW S \in (SUBSET Req) \ {{}}
      PROVE  \E r \in S : \A o \in S : ~WaitsFor(r, o)
  <2>1. SUFFICES ASSUME \A r \in S : \E o \in S : WaitsFor(r, o)
                 PROVE  FALSE
    OBVIOUS
  <2>2. PICK r \in S : TRUE
    OBVIOUS
  <2>3. PICK o \in S : WaitsFor(r, o)
    BY <2>1
  <2>4. PICK x \in S : WaitsFor(o, x)
    BY <2>1
  <2>5. pc[o] # "flush_transaction"
    BY <2>3, WaitedFor
  <2>6. \A y \in Req : ~WaitsFor(x, y)
    BY <2>4, <2>5, WaitedFor
  <2>7. QED
    BY <2>1, <2>6
<1>3. QED
  BY <1>1, <1>2 DEF NoDeadlock

\* For every number of requests, PostgreSQL never finds a deadlock among the
\* calls about transactions and holdings: a 503 is never the answer to one.
THEOREM NoRequestsDeadlock == Spec => []NoDeadlock
BY LedgerInvariant, WaitsEnd, PTL

-----------------------------------------------------------------------------
(* One request at a time.                                                  *)

\* The commit of a call about a holding, and of a deletion, leaves a holding
\* explained: it sets the units to the ones it books, or leaves them alone.
LEMMA HoldingCommitBooks ==
    ASSUME LedgerInv, NEW r \in Req, Commit(r), ~IsTransactionCall(r),
           NEW h \in HoldingId, Unexplained(h) = 0
    PROVE  Unexplained(h)' = 0
<1> DEFINE op == call[r].op
           w == holdingWrite[r]
<1>1. /\ TypeInv /\ ControlAt(r) /\ IndexAt(r) /\ ReadAt(r)
      /\ pc[r] = "commit" /\ call[r] \in Call
      /\ txnWrite[r] = TransactionWriteOf(r) /\ w = HoldingWriteOf(r)
  BY DEF LedgerInv, TypeInv, ControlInv, IndexInv, FlushInv, FlushedAt,
         Commit, TypeOK, ControlAt
<1>2. op \in {"delete_transaction", "create_holding", "update_holding",
              "delete_holding"}
  BY <1>1, CallShape DEF IsTransactionCall
<1>3. ~WritesCompleted(r)
  <2>1. CASE op = "delete_transaction"
    <3>1. loaded[r] \in Transaction
      BY <1>1, <2>1 DEF ControlAt, TypeInv, TypeOK
    <3>2. Subject(r).transaction_status = loaded[r].transaction_status
      BY <2>1, <3>1 DEF Subject, PatchedTransaction, Transaction
    <3>3. "transaction_status" \notin DirtyTransaction(loaded[r], Subject(r))
      BY <3>2 DEF DirtyTransaction
    <3>4. QED
      BY <1>1, <2>1, <3>3 DEF WritesCompleted, TransactionWriteOf
  <2>2. CASE op # "delete_transaction"
    BY <1>1, <1>2, <2>2 DEF WritesCompleted, TransactionWriteOf
  <2>3. QED
    BY <2>1, <2>2
<1>4. booked'[h] = IF SetsUnits(r) /\ w.id = h THEN w.row.units
                   ELSE booked[h]
  BY <1>3 DEF Commit, Book, Completes
<1>5. CASE w = None
  BY <1>4, <1>5 DEF Commit, SetsUnits, Unexplained
<1>6. CASE w # None
  <2>1. /\ w \in HoldingWrite /\ w.id \in HoldingId /\ w.row \in Holding
    BY <1>1, <1>6 DEF TypeInv, TypeOK, HoldingWrite
  <2>2. holdings'[h] = IF h = w.id THEN CommittedHolding(holdings[h], w)
                       ELSE holdings[h]
    BY <1>1, <1>6 DEF Commit, TypeInv, TypeOK
  <2>3. CASE h # w.id
    BY <1>4, <2>2, <2>3 DEF Unexplained
  <2>4. CASE h = w.id
    <3>1. /\ holdings[h] \in Holding \cup {None}
          /\ CommittedHolding(holdings[h], w) \in Holding
      BY <1>1, <2>1, CommittedRowTypes DEF TypeInv, TypeOK
    <3>2. holdings'[h] # None
      BY <2>2, <2>4, <3>1, NoneAssumption
    <3>3. SetsUnits(r) => holdings'[h].units = w.row.units
      BY <2>1, <2>2, <2>4, <3>1
         DEF SetsUnits, CommittedHolding, Holding
    <3>4. ~SetsUnits(r)
          => holdings[h] # None /\ holdings'[h].units = holdings[h].units
      <4>1. SUFFICES ASSUME ~SetsUnits(r)
                     PROVE  /\ holdings[h] # None
                            /\ holdings'[h].units = holdings[h].units
        OBVIOUS
      <4>2. op # "delete_transaction"
        BY <1>1, <1>6 DEF HoldingWriteOf, Completing
      <4>3. seen[r] # None /\ op \in {"update_holding", "delete_holding"}
        <5>1. op = "create_holding" => "units" \in w.dirty
          BY <1>1 DEF HoldingWriteOf, HoldingColumns, ReadAt
        <5>2. QED
          BY <1>1, <1>2, <1>6, <4>1, <4>2, <5>1 DEF SetsUnits, ReadAt
      <4>4. /\ w.id = seen[r].id
            /\ w.dirty = DirtyHolding(seen[r].row, ChangedHolding(r))
        BY <1>1, <1>6, <4>3 DEF HoldingWriteOf
      <4>5. holdings[h] # None
        BY <1>1, <2>4, <4>3, <4>4 DEF IndexAt
      <4>6. "units" \notin w.dirty
        <5>1. CASE op = "update_holding"
          BY <1>6, <4>1, <5>1 DEF SetsUnits
        <5>2. CASE op = "delete_holding"
          <6>1. seen[r].row \in Holding
            BY <1>1, <4>3 DEF TypeInv, TypeOK, LoadedHolding
          <6>2. ChangedHolding(r).units = seen[r].row.units
            BY <5>2, <6>1 DEF ChangedHolding, Holding
          <6>3. QED
            BY <4>4, <6>2 DEF DirtyHolding
        <5>3. QED
          BY <4>3, <5>1, <5>2
      <4>7. QED
        BY <2>2, <2>4, <3>1, <4>5, <4>6 DEF CommittedHolding, Holding
    <3>5. CASE SetsUnits(r)
      <4>1. w.row.units \in Int
        BY <2>1 DEF Holding
      <4>2. QED
        BY <1>4, <2>4, <3>2, <3>3, <3>5, <4>1 DEF Unexplained
    <3>6. CASE ~SetsUnits(r)
      BY <1>4, <3>2, <3>4, <3>6 DEF Unexplained
    <3>7. QED
      BY <3>5, <3>6
  <2>5. QED
    BY <2>3, <2>4
<1>7. QED
  BY <1>5, <1>6

\* A commit that overwrites only what it has read is not a race.
LEMMA SerialCommitBooks ==
    ASSUME LedgerInv, SerialInv, NEW r \in Req, Commit(r), NEW h \in HoldingId
    PROVE  Unexplained(h)' = 0
<1>1. /\ TypeInv /\ ControlAt(r) /\ WriteAt(r) /\ CurrentAt(r)
      /\ pc[r] = "commit" /\ Unexplained(h) = 0
  BY DEF LedgerInv, TypeInv, ControlInv, WriteInv, SerialInv, Commit
<1>2. CASE IsTransactionCall(r)
  <2>1. loaded[r] # None => transactions[call[r].id] = loaded[r]
    BY <1>1 DEF CurrentAt
  <2>2. holdingWrite[r] # None /\ holdings[holdingWrite[r].id] # None
        => holdings[holdingWrite[r].id] = seen[r].row
    BY <1>1, <1>2 DEF WriteAt, CurrentAt
  <2>3. ReadIsCurrent(r)
    BY <2>1, <2>2 DEF ReadIsCurrent
  <2>4. QED
    BY <1>1, <1>2, <2>3, CommitBooks
<1>3. CASE ~IsTransactionCall(r)
  BY <1>1, <1>3, HoldingCommitBooks
<1>4. QED
  BY <1>2, <1>3

\* A second request is not received while one is being handled.
LEMMA ReceivedAlone ==
    ASSUME SerialInv, MaxInFlight = 1, NEW r \in Req, NEW q \in Workload,
           Receive(r, q)
    PROVE  InFlight = {}
<1>1. Cardinality(InFlight) < 1
  BY DEF Receive
<1>2. ASSUME NEW o \in InFlight PROVE FALSE
  <2>1. InFlight = {o}
    BY DEF SerialInv
  <2>2. Cardinality(InFlight) = 1
    BY <2>1, FS_Singleton
  <2>3. QED
    BY <1>1, <2>2
<1>3. QED
  BY <1>2

\* The request that is being handled keeps its reads current.
LEMMA OwnReadsCurrent ==
    ASSUME LedgerInv, NEW r \in Req, CurrentAt(r),
           \/ \E q \in Workload : Receive(r, q)
           \/ Refuse(r) \/ Step(r) \/ Fail(r)
    PROVE  CurrentAt(r)'
<1>1. /\ TypeInv /\ ControlAt(r) /\ DeletionAt(r) /\ ReadAt(r)
  BY DEF LedgerInv, TypeInv, ControlInv, DeletionInv, FlushInv
<1>2. ASSUME NEW answer, Close(r, answer) PROVE CurrentAt(r)'
  BY <1>1, <1>2 DEF Close, CurrentAt, TypeInv, TypeOK
<1>3. CASE \E q \in Workload : Receive(r, q)
  BY <1>1, <1>3 DEF Receive, session, DeletionAt, ReadAt, CurrentAt
<1>4. CASE Refuse(r) \/ Fail(r) \/ Refresh(r)
  BY <1>2, <1>4 DEF Refuse, Fail, Refresh, Reject, Unavailable
<1>5. CASE Commit(r)
  BY <1>1, <1>2, <1>5 DEF Commit, CurrentAt, TypeInv, TypeOK
<1>6. CASE /\ \/ InsertTransaction(r) \/ FlushTransaction(r)
              \/ FindHolding(r) \/ InsertHolding(r) \/ FlushHolding(r)
           /\ ~Reject(r) /\ ~Unavailable(r)
  <2>1. /\ pc[r] # "refresh" /\ UNCHANGED <<loaded, seen>>
        /\ UNCHANGED <<transactions, holdings, call>>
    BY <1>6 DEF InsertTransaction, FlushTransaction, FindHolding,
                InsertHolding, FlushHolding, session, Continue, tables
  <2>2. QED
    BY <2>1 DEF CurrentAt
<1>7. CASE Reject(r) \/ Unavailable(r)
  BY <1>2, <1>7 DEF Reject, Unavailable
<1>8. CASE LoadTransaction(r) /\ ~Reject(r)
  <2>1. /\ pc[r] # "refresh" /\ UNCHANGED seen
        /\ loaded' = [loaded EXCEPT ![r] = transactions[call[r].id]]
        /\ UNCHANGED <<transactions, holdings, call>>
    BY <1>8 DEF LoadTransaction, Continue, tables
  <2>2. QED
    BY <1>1, <2>1 DEF CurrentAt, TypeInv, TypeOK
<1>9. CASE (AvailableUnits(r) \/ LoadHolding(r)) /\ ~Reject(r)
  <2>1. /\ pc[r] # "refresh" /\ UNCHANGED loaded
        /\ \/ UNCHANGED seen
           \/ \E h \in HoldingId \cup {call[r].id} :
                 seen' = [seen EXCEPT ![r] = [id |-> h, row |-> holdings[h]]]
        /\ UNCHANGED <<transactions, holdings, call>>
    BY <1>9 DEF AvailableUnits, LoadHolding, ActiveHoldings, session,
                Continue, tables
  <2>2. QED
    BY <1>1, <2>1 DEF CurrentAt, TypeInv, TypeOK
<1>10. CASE ApplyCompleted(r) /\ ~Reject(r)
  <2>1. /\ pc[r] = "apply_completed" /\ UNCHANGED loaded
        /\ \/ UNCHANGED seen
           \/ \E h \in HoldingId : \E row \in SessionRows(r, h) :
                 seen' = [seen EXCEPT ![r] = [id |-> h, row |-> row]]
        /\ UNCHANGED <<transactions, holdings, call>>
    BY <1>10 DEF ApplyCompleted, ActiveHoldings, session, Continue, tables
  <2>2. \A h : \A row \in SessionRows(r, h) : row = holdings[h]
    BY <2>1 DEF SessionRows, CurrentAt
  <2>3. QED
    BY <1>1, <2>1, <2>2 DEF CurrentAt, TypeInv, TypeOK
<1>11. QED
  BY <1>3, <1>4, <1>5, <1>6, <1>7, <1>8, <1>9, <1>10 DEF Step

\* One request at a time: its reads stay current and its commits book what
\* they move.
LEMMA SerialStep ==
    LedgerInv /\ SerialInv /\ MaxInFlight = 1 /\ [Next]_vars => SerialInv'
<1> SUFFICES ASSUME LedgerInv, SerialInv, MaxInFlight = 1, [Next]_vars
             PROVE  SerialInv'
  OBVIOUS
<1>1. TypeInv /\ DeletionInv /\ FlushInv
  BY DEF LedgerInv, TypeInv
<1>2. ASSUME NEW r \in Req,
             \/ \E q \in Workload : Receive(r, q)
             \/ Refuse(r) \/ Step(r) \/ Fail(r)
      PROVE  SerialInv'
  <2>1. \A o \in Req \ {r} : Untouched(o)
    BY <1>1, <1>2, OthersUntouched
  <2>2. ASSUME NEW o \in Req \ {r}, Step(r) \/ Fail(r)
        PROVE  pc[o] \in {"idle", "done"}
    <3>1. r \in InFlight
      BY <2>2 DEF Step, Fail, InFlight, AvailableUnits, InsertTransaction,
                  LoadTransaction, FlushTransaction, ApplyCompleted,
                  FindHolding, InsertHolding, LoadHolding, FlushHolding,
                  Commit, Refresh
    <3>2. QED
      BY <3>1 DEF SerialInv, InFlight
  <2>3. ASSUME NEW x \in InFlight', NEW o \in InFlight' PROVE x = o
    <3>1. CASE \E q \in Workload : Receive(r, q)
      BY <2>1, <3>1, ReceivedAlone DEF InFlight, Untouched
    <3>2. CASE Refuse(r)
      BY <1>1, <2>1, <3>2
         DEF InFlight, Untouched, SerialInv, Refuse, Reject, Close, TypeInv,
             TypeOK
    <3>3. CASE Step(r) \/ Fail(r)
      BY <2>1, <2>2, <3>3 DEF InFlight, Untouched
    <3>4. QED
      BY <1>2, <3>1, <3>2, <3>3
  <2>4. ASSUME NEW o \in Req PROVE CurrentAt(o)'
    <3>1. CASE o = r
      BY <1>2, <3>1, OwnReadsCurrent DEF SerialInv
    <3>2. CASE o # r /\ Commit(r)
      <4>1. pc[o] \in {"idle", "done"}
        BY <2>2, <3>2 DEF Step
      <4>2. loaded[o] = None /\ seen[o] = None
        BY <1>1, <4>1 DEF DeletionInv, DeletionAt, FlushInv, ReadAt
      <4>3. QED
        BY <2>1, <3>2, <4>2 DEF Untouched, CurrentAt
    <3>3. CASE o # r /\ ~Commit(r)
      <4>1. transactions' = transactions /\ holdings' = holdings
        BY <1>2, <3>3, TablesUnchanged
      <4>2. Untouched(o) /\ CurrentAt(o)
        BY <2>1, <3>3 DEF SerialInv
      <4>3. QED
        BY <4>1, <4>2 DEF Untouched, CurrentAt
    <3>4. QED
      BY <3>1, <3>2, <3>3
  <2>5. ASSUME NEW h \in HoldingId PROVE Unexplained(h)' = 0
    <3>1. CASE Commit(r)
      BY <3>1, SerialCommitBooks
    <3>2. CASE ~Commit(r)
      <4>1. holdings' = holdings /\ booked' = booked
        BY <1>2, <3>2
           DEF Receive, Refuse, Fail, Reject, Unavailable, Step, history,
               tables, AvailableUnits, InsertTransaction, LoadTransaction,
               FlushTransaction, ApplyCompleted, FindHolding, InsertHolding,
               LoadHolding, FlushHolding, Refresh, Continue
      <4>2. QED
        BY <4>1 DEF SerialInv, Unexplained
    <3>3. QED
      BY <3>1, <3>2
  <2>6. QED
    BY <2>3, <2>4, <2>5 DEF SerialInv
<1>3. CASE UNCHANGED vars
  BY <1>3 DEF vars, SerialInv, InFlight, CurrentAt, Unexplained
<1>4. QED
  BY <1>2, <1>3 DEF Next, Quiescent

\* Nothing is handled and nothing booked at the start.
LEMMA SerialInit == Init => SerialInv
<1> SUFFICES ASSUME Init PROVE SerialInv
  OBVIOUS
<1>1. ASSUME NEW h \in HoldingId PROVE Unexplained(h) = 0
  <2>1. CASE h \in Req
    BY <2>1 DEF Init, Unexplained
  <2>2. CASE h \notin Req
    <3>1. /\ InitialHoldings[h] \in Holding /\ InitialHoldings[h] # None
          /\ InitialHoldings[h].units \in Int
      BY <2>2, InitialRows, NoneAssumption DEF Holding
    <3>2. QED
      BY <2>2, <3>1 DEF Init, Unexplained
  <2>3. QED
    BY <2>1, <2>2
<1>2. QED
  BY <1>1 DEF Init, SerialInv, InFlight, CurrentAt

\* The lost updates are races and nothing else: a server that handles one
\* request at a time keeps nothing stale and every holding at the units its
\* completions and edits add up to, whatever calls are refused or fail, and
\* its completions never change a holding that has been deleted.
THEOREM SerialLedgerInvariant == Spec => [](MaxInFlight = 1 => SerialInv)
<1> DEFINE Inv == MaxInFlight = 1 => SerialInv
<1>1. Init => Inv
  BY SerialInit
<1>2. LedgerInv /\ Inv /\ [Next]_vars => Inv'
  BY SerialStep
<1>3. QED
  BY <1>1, <1>2, LedgerInvariant, PTL DEF Spec

\* Calls handled one after the other leave each holding with the units that
\* its completions and edits add up to.
THEOREM SerialHoldingsMatch ==
    Spec => [](MaxInFlight = 1 => HoldingsMatchCompletions)
<1>1. LedgerInv /\ (MaxInFlight = 1 => SerialInv)
      => (MaxInFlight = 1 => HoldingsMatchCompletions)
  <2> SUFFICES ASSUME LedgerInv, SerialInv, NEW h \in HoldingId,
                      holdings[h] # None
               PROVE  holdings[h].units = booked[h]
    BY DEF HoldingsMatchCompletions
  <2>1. holdings[h].units \in Int /\ booked[h] \in Int
    BY DEF LedgerInv, TypeOK, Holding
  <2>2. holdings[h].units - booked[h] = 0
    BY DEF SerialInv, Unexplained
  <2>3. QED
    BY <2>1, <2>2
<1>2. QED
  BY <1>1, LedgerInvariant, SerialLedgerInvariant, PTL

\* Calls handled one after the other complete only into active holdings.
THEOREM SerialCompletionsReachHolding ==
    Spec => [](MaxInFlight = 1 => CompletionReachesActiveHolding)
<1>1. LedgerInv /\ (MaxInFlight = 1 => SerialInv)
      => (MaxInFlight = 1 => CompletionReachesActiveHolding)
  <2> SUFFICES ASSUME LedgerInv, SerialInv, NEW r \in Req, pc[r] = "commit",
                      IsTransactionCall(r), holdingWrite[r] # None,
                      holdings[holdingWrite[r].id] # None
               PROVE  holdings[holdingWrite[r].id].is_active
    BY DEF CompletionReachesActiveHolding
  <2>1. WriteAt(r) /\ IndexAt(r) /\ CurrentAt(r)
    BY DEF LedgerInv, WriteInv, IndexInv, SerialInv
  <2>2. seen[r] # None /\ holdingWrite[r].id = seen[r].id
    BY <2>1 DEF WriteAt
  <2>3. QED
    BY <2>1, <2>2 DEF IndexAt, CurrentAt
<1>2. QED
  BY <1>1, LedgerInvariant, SerialLedgerInvariant, PTL

==============================================================================
