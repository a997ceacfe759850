-------------------------- MODULE TransactionLedger --------------------------
(***************************************************************************)
(* Transactions and holdings of MF_MANAGER under concurrent requests.      *)
(*                                                                         *)
(* Every HTTP request runs one service method in a SQLAlchemy session of   *)
(* its own, against PostgreSQL at READ COMMITTED.  A step of a request is  *)
(* what happens between two awaits: one SQL statement and the Python that  *)
(* follows it.  A SELECT reads committed rows and the request's own        *)
(* flushed writes; a flush writes the columns that changed and locks the   *)
(* row until commit or rollback; a commit installs the flushed writes.     *)
(***************************************************************************)
EXTENDS LedgerRows, FiniteSets

CONSTANT MaxInFlight    \* bound on requests handled at the same time

ASSUME BoundAssumption == MaxInFlight \in Nat

\* Flushed, uncommitted writes: the row as the session has it and the columns
\* the statement sets (all of them when it is an INSERT).
TransactionWrite ==
    [id: TransactionId, row: Transaction, dirty: SUBSET TransactionColumns]
HoldingWrite == [id: HoldingId, row: Holding, dirty: SUBSET HoldingColumns]

ASSUME WriteAssumption == None \notin TransactionWrite \cup HoldingWrite

VARIABLES
    pc,             \* the next step of each request
    txnWrite,       \* session: flushed write to a transaction row
    holdingWrite,   \* session: flushed write to a holding row
    response,       \* what the client was told
    booked,         \* history: units a holding owes to completions and edits
    applied         \* history: times a transaction's units were committed

tables == <<transactions, holdings>>
session == <<loaded, seen, txnWrite, holdingWrite>>
history == <<booked, applied>>
vars == <<transactions, holdings, pc, call, loaded, seen, txnWrite,
          holdingWrite, response, booked, applied>>

-----------------------------------------------------------------------------
(* What a statement of request r sees, and which locks stand in its way.   *)

\* The row r may get when it selects holding h.  If the session still holds
\* the object of an earlier read, a SELECT does not refresh its attributes; the
\* identity map is weak, so the object may also be gone and built anew.
SessionRows(r, h) ==
    IF seen[r] # None /\ seen[r].id = h THEN {seen[r].row, holdings[h]}
    ELSE {holdings[h]}

\* Transaction t as a SELECT of r finds it: its own flushed write included.
VisibleTransaction(r, t) ==
    IF txnWrite[r] # None /\ txnWrite[r].id = t THEN txnWrite[r].row
    ELSE transactions[t]

LedgerUnits(r, p) ==
    UnitsIn([t \in TransactionId |-> VisibleTransaction(r, t)], p)

TransactionLocked(r, t) ==
    \E o \in Req \ {r} : txnWrite[o] # None /\ txnWrite[o].id = t

HoldingLocked(r, h) ==
    \E o \in Req \ {r} : holdingWrite[o] # None /\ holdingWrite[o].id = h

\* An INSERT waits for a transaction that has inserted, or is changing, a row
\* of the partial unique index with the same key.
IndexBusy(r, p) ==
    \E o \in Req \ {r} :
        /\ holdingWrite[o] # None
        /\ holdingWrite[o].row.position = p
        /\ \/ holdings[holdingWrite[o].id] = None
           \/ holdings[holdingWrite[o].id].is_active

\* Faulty: portfolio_holdings without its partial unique index.
NoIndex(p) == FALSE

\* The partial unique index has a committed row with the key.
IndexConflict(p) == ActiveHoldings(p) # {}

InFlight == {r \in Req : pc[r] \notin {"idle", "done"}}

-----------------------------------------------------------------------------
(* The unit of work: which columns a flush writes, what a commit installs.  *)

\* Faulty: the UPDATE sets every column, changed or not.
CommittedWhole(old, w) == w.row

CommittedTransaction(old, w) ==
    IF old = None THEN w.row
    ELSE [old EXCEPT
            !.transaction_status =
                IF "transaction_status" \in w.dirty
                THEN w.row.transaction_status ELSE @,
            !.is_active =
                IF "is_active" \in w.dirty THEN w.row.is_active ELSE @]

CommittedHolding(old, w) ==
    IF old = None THEN w.row
    ELSE [old EXCEPT
            !.units = IF "units" \in w.dirty THEN w.row.units ELSE @,
            !.is_active =
                IF "is_active" \in w.dirty THEN w.row.is_active ELSE @]

\* Faulty: the session of a finished request is never closed.
CloseLeaking(r, answer) ==
    /\ pc' = [pc EXCEPT ![r] = "done"]
    /\ response' = [response EXCEPT ![r] = answer]
    /\ UNCHANGED <<call, session>>

\* The session is closed: what it flushed and did not commit is rolled back.
Close(r, answer) ==
    /\ pc' = [pc EXCEPT ![r] = "done"]
    /\ response' = [response EXCEPT ![r] = answer]
    /\ loaded' = [loaded EXCEPT ![r] = None]
    /\ seen' = [seen EXCEPT ![r] = None]
    /\ txnWrite' = [txnWrite EXCEPT ![r] = None]
    /\ holdingWrite' = [holdingWrite EXCEPT ![r] = None]
    /\ UNCHANGED call

\* Faulty: an error path that commits what the session has flushed.
RejectCommitting(r) ==
    /\ Close(r, "client_error")
    /\ transactions' =
         IF txnWrite[r] = None THEN transactions
         ELSE [transactions EXCEPT ![txnWrite[r].id] =
                 CommittedTransaction(@, txnWrite[r])]
    /\ UNCHANGED <<holdings, history>>

Reject(r) == Close(r, "client_error") /\ UNCHANGED <<tables, history>>
Unavailable(r) == Close(r, "unavailable") /\ UNCHANGED <<tables, history>>

\* The request goes on, with nothing stored and nothing answered.
Continue(r, step) ==
    /\ pc' = [pc EXCEPT ![r] = step]
    /\ UNCHANGED <<tables, history, call, response>>

-----------------------------------------------------------------------------
(* Steps of the service methods.                                           *)

FirstStep(q) ==
    CASE q.op = "create_transaction" ->
            IF q.transaction_type \in OutflowTypes
            THEN "available_units" ELSE "insert_transaction"
      [] q.op \in {"update_transaction", "delete_transaction"} ->
            "load_transaction"
      [] q.op = "create_holding" -> "find_holding"
      [] q.op \in {"update_holding", "delete_holding"} -> "load_holding"

\* The call is accepted: authentication, the role check and the reads of
\* customer, folio, scheme and SIP found nothing wrong.
Receive(r, q) ==
    /\ pc[r] = "idle"
    /\ Cardinality(InFlight) < MaxInFlight
    /\ call' = [call EXCEPT ![r] = q]
    /\ pc' = [pc EXCEPT ![r] = FirstStep(q)]
    /\ UNCHANGED <<tables, session, history, response>>

\* The call is refused by those checks: 400, 401, 403 or 404.
Refuse(r) == pc[r] = "idle" /\ Reject(r)

\* _available_units and the comparison that follows it.
AvailableUnits(r) ==
    /\ pc[r] = "available_units"
    /\ LET p == Subject(r).position
           next == IF call[r].op = "create_transaction"
                   THEN "insert_transaction" ELSE "apply_completed"
       IN  \/ /\ ActiveHoldings(p) = {}
              /\ Subject(r).units <= LedgerUnits(r, p)
              /\ Continue(r, next)
              /\ UNCHANGED session
           \/ /\ ActiveHoldings(p) = {}
              /\ Subject(r).units > LedgerUnits(r, p)
              /\ Reject(r)
           \/ \E h \in ActiveHoldings(p) :
                /\ Subject(r).units <= holdings[h].units
                /\ seen' = [seen EXCEPT ![r] =
                              [id |-> h, row |-> holdings[h]]]
                /\ Continue(r, next)
                /\ UNCHANGED <<loaded, txnWrite, holdingWrite>>
           \/ \E h \in ActiveHoldings(p) :
                /\ Subject(r).units > holdings[h].units
                /\ Reject(r)

InsertTransaction(r) ==
    /\ pc[r] = "insert_transaction"
    /\ txnWrite' = [txnWrite EXCEPT ![r] =
                      [id |-> r, row |-> Subject(r),
                       dirty |-> TransactionColumns]]
    /\ Continue(r, IF call[r].transaction_status = "COMPLETED"
               THEN "apply_completed" ELSE "commit")
    /\ UNCHANGED <<loaded, seen, holdingWrite>>

\* get_by_id with active_only, then the ownership check.
LoadTransaction(r) ==
    /\ pc[r] = "load_transaction"
    /\ LET row == transactions[call[r].id]
       IN  \/ /\ IsActive(row)
              /\ loaded' = [loaded EXCEPT ![r] = row]
              /\ Continue(r, "flush_transaction")
              /\ UNCHANGED <<seen, txnWrite, holdingWrite>>
           \/ /\ ~IsActive(row)
              /\ Reject(r)

\* Faulty: only a PENDING transaction is applied when it completes.
AfterFlushOfPending(old, new) ==
    IF old.transaction_status = "PENDING"
       /\ new.transaction_status = "COMPLETED"
    THEN IF new.transaction_type \in OutflowTypes
         THEN "available_units" ELSE "apply_completed"
    ELSE "commit"

\* Faulty: the old status is not looked at.
AfterFlushAlways(old, new) ==
    IF new.transaction_status = "COMPLETED"
    THEN IF new.transaction_type \in OutflowTypes
         THEN "available_units" ELSE "apply_completed"
    ELSE "commit"

AfterFlush(old, new) ==
    IF old.transaction_status # "COMPLETED"
       /\ new.transaction_status = "COMPLETED"
    THEN IF new.transaction_type \in OutflowTypes
         THEN "available_units" ELSE "apply_completed"
    ELSE "commit"

\* update_transaction and delete_transaction flush the changed columns; the
\* UPDATE selects the row by its id and waits for its lock.
FlushTransaction(r) ==
    /\ pc[r] = "flush_transaction"
    /\ LET new == Subject(r)
           dirty == DirtyTransaction(loaded[r], new)
       IN  /\ \/ /\ dirty = {}
                 /\ UNCHANGED txnWrite
              \/ /\ dirty # {}
                 /\ ~TransactionLocked(r, call[r].id)
                 /\ txnWrite' = [txnWrite EXCEPT ![r] =
                                   [id |-> call[r].id, row |-> new,
                                    dirty |-> dirty]]
           /\ Continue(r, AfterFlush(loaded[r], new))
    /\ UNCHANGED <<loaded, seen, holdingWrite>>

\* _apply_completed_transaction up to its first write: read the holding, and
\* refuse an outflow that has none or exceeds it.
ApplyCompleted(r) ==
    /\ pc[r] = "apply_completed"
    /\ LET txn == Subject(r)
           outflow == txn.transaction_type \in OutflowTypes
       IN  \/ /\ ActiveHoldings(txn.position) = {}
              /\ outflow
              /\ Reject(r)
           \/ /\ ActiveHoldings(txn.position) = {}
              /\ ~outflow
              /\ Continue(r, "insert_holding")
              /\ UNCHANGED session
           \/ \E h \in ActiveHoldings(txn.position) :
              \E row \in SessionRows(r, h) :
                \/ /\ Exceeds(txn, row)
                   /\ Reject(r)
                \/ /\ ~Exceeds(txn, row)
                   /\ seen' = [seen EXCEPT ![r] = [id |-> h, row |-> row]]
                   /\ Continue(r, "flush_holding")
                   /\ UNCHANGED <<loaded, txnWrite, holdingWrite>>

\* create_holding: refuse a second active holding of the position.
FindHolding(r) ==
    /\ pc[r] = "find_holding"
    /\ \/ /\ ActiveHoldings(call[r].position) # {}
          /\ Reject(r)
       \/ /\ ActiveHoldings(call[r].position) = {}
          /\ Continue(r, "insert_holding")
          /\ UNCHANGED session

\* The partial unique index refuses a second active row of the position.
\* create_transaction and create_holding turn the IntegrityError into a 400;
\* update_transaction lets it through to the 503 handler.
InsertHolding(r) ==
    /\ pc[r] = "insert_holding"
    /\ LET p == NewHolding(r).position
       IN  /\ ~IndexBusy(r, p)
           /\ \/ /\ ~IndexConflict(p)
                 /\ holdingWrite' = [holdingWrite EXCEPT ![r] =
                                       [id |-> r, row |-> NewHolding(r),
                                        dirty |-> HoldingColumns]]
                 /\ Continue(r, "commit")
                 /\ UNCHANGED <<loaded, seen, txnWrite>>
              \/ /\ IndexConflict(p)
                 /\ call[r].op # "update_transaction"
                 /\ Reject(r)
              \/ /\ IndexConflict(p)
                 /\ call[r].op = "update_transaction"
                 /\ Unavailable(r)

LoadHolding(r) ==
    /\ pc[r] = "load_holding"
    /\ LET h == call[r].id
       IN  \/ /\ IsActive(holdings[h])
              /\ seen' = [seen EXCEPT ![r] = [id |-> h, row |-> holdings[h]]]
              /\ Continue(r, "flush_holding")
              /\ UNCHANGED <<loaded, txnWrite, holdingWrite>>
           \/ /\ ~IsActive(holdings[h])
              /\ Reject(r)

\* The UPDATE selects by id alone: it waits for the row lock and then writes
\* even if the row was soft-deleted since it was read.
FlushHolding(r) ==
    /\ pc[r] = "flush_holding"
    /\ LET new == ChangedHolding(r)
           dirty == DirtyHolding(seen[r].row, new)
       IN  \/ /\ dirty = {}
              /\ UNCHANGED holdingWrite
           \/ /\ dirty # {}
              /\ ~HoldingLocked(r, seen[r].id)
              /\ holdingWrite' = [holdingWrite EXCEPT ![r] =
                                    [id |-> seen[r].id, row |-> new,
                                     dirty |-> dirty]]
    /\ Continue(r, "commit")
    /\ UNCHANGED <<loaded, seen, txnWrite>>

-----------------------------------------------------------------------------
(* History: what the committed writes of r stand for.                      *)

WritesCompleted(r) ==
    /\ txnWrite[r] # None
    /\ "transaction_status" \in txnWrite[r].dirty
    /\ txnWrite[r].row.transaction_status = "COMPLETED"

Completes(r) ==
    /\ WritesCompleted(r)
    /\ \/ transactions[txnWrite[r].id] = None
       \/ transactions[txnWrite[r].id].transaction_status # "COMPLETED"

SetsUnits(r) ==
    /\ call[r].op \in {"create_holding", "update_holding"}
    /\ holdingWrite[r] # None
    /\ "units" \in holdingWrite[r].dirty

\* A completion is booked to the position's active holding.
Book(r) ==
    [h \in HoldingId |->
        IF SetsUnits(r) /\ holdingWrite[r].id = h
        THEN holdingWrite[r].row.units
        ELSE IF /\ Completes(r)
                /\ \/ h \in ActiveHoldings(txnWrite[r].row.position)
                   \/ h = r /\ holdingWrite[r] # None
                            /\ holdingWrite[r].id = r
        THEN booked[h] + Signed(txnWrite[r].row)
        ELSE booked[h]]

AppliesUnits(r) == IsTransactionCall(r) /\ holdingWrite[r] # None

-----------------------------------------------------------------------------

\* COMMIT.  A DELETE request answers 204 at once; the others refresh the row.
Commit(r) ==
    /\ pc[r] = "commit"
    /\ transactions' =
         IF txnWrite[r] = None THEN transactions
         ELSE [transactions EXCEPT ![txnWrite[r].id] =
                 CommittedTransaction(@, txnWrite[r])]
    /\ holdings' =
         IF holdingWrite[r] = None THEN holdings
         ELSE [holdings EXCEPT ![holdingWrite[r].id] =
                 CommittedHolding(@, holdingWrite[r])]
    /\ booked' = Book(r)
    /\ applied' = IF AppliesUnits(r)
                  THEN [applied EXCEPT ![SubjectId(r)] = @ + 1]
                  ELSE applied
    /\ \/ /\ call[r].op \in {"delete_transaction", "delete_holding"}
          /\ Close(r, "ok")
       \/ /\ call[r].op \notin {"delete_transaction", "delete_holding"}
          /\ pc' = [pc EXCEPT ![r] = "refresh"]
          /\ txnWrite' = [txnWrite EXCEPT ![r] = None]
          /\ holdingWrite' = [holdingWrite EXCEPT ![r] = None]
          /\ UNCHANGED <<call, response, loaded, seen>>

Refresh(r) ==
    /\ pc[r] = "refresh"
    /\ Close(r, "ok")
    /\ UNCHANGED <<tables, history>>

\* A statement fails (connection lost, NOT NULL or numeric error, pool
\* timeout, client gone): the session rolls back and the answer is a 503.
\* After the commit the writes stay.
Fail(r) == r \in InFlight /\ Unavailable(r)

Step(r) ==
    \/ AvailableUnits(r) \/ InsertTransaction(r)
    \/ LoadTransaction(r) \/ FlushTransaction(r)
    \/ ApplyCompleted(r)
    \/ FindHolding(r) \/ InsertHolding(r)
    \/ LoadHolding(r) \/ FlushHolding(r)
    \/ Commit(r) \/ Refresh(r)

Init ==
    /\ transactions = [t \in TransactionId |->
                         IF t \in Req THEN None ELSE InitialTransactions[t]]
    /\ holdings = [h \in HoldingId |->
                     IF h \in Req THEN None ELSE InitialHoldings[h]]
    /\ pc = [r \in Req |-> "idle"]
    /\ call = [r \in Req |-> None]
    /\ loaded = [r \in Req |-> None]
    /\ seen = [r \in Req |-> None]
    /\ txnWrite = [r \in Req |-> None]
    /\ holdingWrite = [r \in Req |-> None]
    /\ response = [r \in Req |-> "none"]
    /\ booked = [h \in HoldingId |->
                   IF h \in Req THEN 0 ELSE InitialHoldings[h].units]
    /\ applied = [t \in TransactionId |->
                    IF t \in Req THEN 0
                    ELSE IF InitialTransactions[t].transaction_status
                            = "COMPLETED" THEN 1 ELSE 0]

\* No client has anything left to ask.
Quiescent == (\A r \in Req : pc[r] = "done") /\ UNCHANGED vars

Next ==
    \/ \E r \in Req :
        \/ \E q \in Workload : Receive(r, q)
        \/ Refuse(r)
        \/ Step(r)
        \/ Fail(r)
    \/ Quiescent

Spec == Init /\ [][Next]_vars

\* The event loop and PostgreSQL eventually run every request that can run.
FairSpec == Spec /\ \A r \in Req : WF_vars(Step(r))

-----------------------------------------------------------------------------
(* Properties.                                                             *)

Steps == {"idle", "available_units", "insert_transaction",
          "load_transaction", "flush_transaction", "apply_completed",
          "find_holding", "insert_holding", "load_holding", "flush_holding",
          "commit", "refresh", "done"}

\* Type invariant of the tables, the sessions and the answers.
TypeOK ==
    /\ transactions \in [TransactionId -> Transaction \cup {None}]
    /\ holdings \in [HoldingId -> Holding \cup {None}]
    /\ pc \in [Req -> Steps]
    /\ call \in [Req -> Call \cup {None}]
    /\ loaded \in [Req -> Transaction \cup {None}]
    /\ seen \in [Req -> LoadedHolding \cup {None}]
    /\ txnWrite \in [Req -> TransactionWrite \cup {None}]
    /\ holdingWrite \in [Req -> HoldingWrite \cup {None}]
    /\ response \in [Req -> {"none", "ok", "client_error", "unavailable"}]
    /\ booked \in [HoldingId -> Int]
    /\ applied \in [TransactionId -> Nat]

\* A position never has two active holdings, although create_holding and the
\* apply step look for one and insert in separate statements.
OneActiveHolding ==
    \A p \in Position : \A g, h \in ActiveHoldings(p) : g = h

\* No interleaving of outflows, deletions and re-creations of a holding
\* leaves negative units: the second comparison, on the row about to be
\* written, is what holds when the first one read another row.
UnitsNonNegative ==
    \A h \in HoldingId : holdings[h] # None => holdings[h].units >= 0

\* What r is about to commit: status COMPLETED comes with a change of the
\* position's units, and the other way round.  (A DIVIDEND moves no units.)
CommitsWhole(r) ==
    /\ WritesCompleted(r) /\ txnWrite[r].row.transaction_type # "DIVIDEND"
       => holdingWrite[r] # None
    /\ holdingWrite[r] # None
       => /\ WritesCompleted(r)
          /\ holdingWrite[r].row.position = txnWrite[r].row.position
          /\ "units" \in holdingWrite[r].dirty

\* Whatever create_transaction or update_transaction is about to commit turns
\* a transaction COMPLETED together with the change of its position's
\* holding, and changes a holding only so: no error path, early answer or
\* repeated PATCH separates the two.
CompletionCommitsWithUnits ==
    \A r \in Req : pc[r] = "commit" /\ IsTransactionCall(r) => CommitsWhole(r)

\* A 4xx answer to a creation means that nothing of it was stored, whichever
\* of its statements was refused; a 2xx answer means that the row is there.
\* After a 503 nobody knows, but a completed transaction that is stored, even
\* if only its refresh failed, has moved its units: to repeat it is to book
\* it twice, never to repair it.
AnswerMatchesTables ==
    \A r \in Req :
        /\ response[r] = "client_error"
           => transactions[r] = None /\ holdings[r] = None
        /\ response[r] = "ok" /\ call[r].op = "create_transaction"
           => transactions[r] # None
        /\ response[r] = "ok" /\ call[r].op = "create_holding"
           => holdings[r] # None
        /\ transactions[r] # None
           => /\ call[r].op = "create_transaction"
              /\ /\ call[r].transaction_status = "COMPLETED"
                 /\ call[r].transaction_type # "DIVIDEND"
                 => applied[r] > 0

\* Soft deletion is final: no commit, however stale the row its session
\* loaded, makes an inactive transaction or holding active again.
SoftDeleteIsFinal ==
    [][/\ \A t \in TransactionId :
            transactions[t] # None /\ ~transactions[t].is_active
            => ~transactions'[t].is_active
       /\ \A h \in HoldingId :
            holdings[h] # None /\ ~holdings[h].is_active
            => ~holdings'[h].is_active]_vars

\* Each holding has the units its completions and edits add up to: every
\* commit that turns a transaction COMPLETED moves its units exactly once.
HoldingsMatchCompletions ==
    \A h \in HoldingId : holdings[h] # None => holdings[h].units = booked[h]

\* The units of a holding that its completions and edits do not explain.
Unexplained(h) ==
    (IF holdings[h] = None THEN 0 ELSE holdings[h].units) - booked[h]

\* Nobody has changed what r read and is about to overwrite: the status of
\* its transaction, the row of its holding.
ReadIsCurrent(r) ==
    /\ loaded[r] # None
       => transactions[call[r].id].transaction_status
          = loaded[r].transaction_status
    /\ holdingWrite[r] # None /\ holdings[holdingWrite[r].id] # None
       => holdings[holdingWrite[r].id] = seen[r].row

\* Only a race makes a holding differ from what was booked to it: a commit of
\* a transaction call whose reads are still current, whatever others do in the
\* meantime, books exactly the units that it moves, and moves none twice.
OnlyRacesLoseUnits ==
    [][\A r \in Req :
          /\ pc[r] = "commit" /\ pc'[r] # "commit"
          /\ IsTransactionCall(r) /\ ReadIsCurrent(r)
          => \A h \in HoldingId : Unexplained(h)' = Unexplained(h)]_vars

\* A failed or cancelled transaction has not changed a holding.
CancelledHasNoEffect ==
    \A t \in TransactionId :
        /\ transactions[t] # None
        /\ transactions[t].transaction_status \in {"FAILED", "CANCELLED"}
        => applied[t] = 0

\* A completion changes the active holding of its position.
CompletionReachesActiveHolding ==
    \A r \in Req :
        /\ pc[r] = "commit"
        /\ IsTransactionCall(r)
        /\ holdingWrite[r] # None
        => LET h == holdingWrite[r].id
           IN  holdings[h] = None \/ holdings[h].is_active

\* The statement r is at waits for a lock or an index entry of o.
WaitsFor(r, o) ==
    /\ o # r
    /\ \/ /\ pc[r] = "flush_transaction"
          /\ DirtyTransaction(loaded[r], Subject(r)) # {}
          /\ txnWrite[o] # None /\ txnWrite[o].id = call[r].id
       \/ /\ pc[r] = "flush_holding"
          /\ DirtyHolding(seen[r].row, ChangedHolding(r)) # {}
          /\ holdingWrite[o] # None /\ holdingWrite[o].id = seen[r].id
       \/ /\ pc[r] = "insert_holding"
          /\ holdingWrite[o] # None
          /\ holdingWrite[o].row.position = NewHolding(r).position
          /\ \/ holdings[holdingWrite[o].id] = None
             \/ holdings[holdingWrite[o].id].is_active

\* PostgreSQL never has to break a deadlock: no requests wait for each other
\* in a circle, since a service method touches its transaction before its
\* holding and nothing after that, and nobody waits for a request that has
\* been answered.
NoDeadlock ==
    /\ \A r, o \in Req : WaitsFor(r, o) => pc[o] \notin {"idle", "done"}
    /\ \A S \in (SUBSET Req) \ {{}} :
          \E r \in S : \A o \in S : ~WaitsFor(r, o)

\* Every request that is received is answered: row locks and index waits
\* always end.
EveryRequestAnswered ==
    \A r \in Req : pc[r] # "idle" ~> pc[r] = "done"

-----------------------------------------------------------------------------
(* The inductive invariant behind the safety properties, in parts.         *)

\* Where a request can be, given its call, and what its session then holds.
ControlAt(r) ==
    /\ pc[r] \notin {"idle", "done"} => call[r] # None
    /\ pc[r] \in {"available_units", "apply_completed"}
       => IsTransactionCall(r)
    /\ pc[r] = "insert_transaction"
       => call[r].op = "create_transaction"
    /\ pc[r] \in {"load_transaction", "flush_transaction"}
       => call[r].op \in {"update_transaction", "delete_transaction"}
    /\ pc[r] = "find_holding" => call[r].op = "create_holding"
    /\ pc[r] = "insert_holding"
       => IsTransactionCall(r) \/ call[r].op = "create_holding"
    /\ pc[r] = "load_holding"
       => call[r].op \in {"update_holding", "delete_holding"}
    /\ pc[r] = "flush_holding"
       => /\ seen[r] # None
          /\ \/ IsTransactionCall(r)
             \/ call[r].op \in {"update_holding", "delete_holding"}
    /\ /\ pc[r] \notin {"idle", "load_transaction", "done"}
       /\ call[r].op \in {"update_transaction", "delete_transaction"}
       => loaded[r] # None

ControlInv == \A r \in Req : ControlAt(r)

\* Units are nonnegative in what a session has read and is about to write:
\* past the second comparison an outflow fits the row the session has.
UnitsAt(r) ==
    /\ seen[r] # None => seen[r].row.units >= 0
    /\ holdingWrite[r] # None => holdingWrite[r].row.units >= 0
    /\ pc[r] = "flush_holding" /\ IsTransactionCall(r)
       => ~Exceeds(Subject(r), seen[r].row)
    /\ pc[r] = "insert_holding" /\ IsTransactionCall(r)
       => Subject(r).transaction_type \notin OutflowTypes

UnitsInv == UnitsNonNegative /\ \A r \in Req : UnitsAt(r)

Inserting(r) == holdingWrite[r] # None /\ holdings[holdingWrite[r].id] = None

\* An UPDATE of a holding never writes is_active = TRUE, and an INSERT that
\* waits for its commit has the position to itself.
IndexAt(r) ==
    /\ seen[r] # None => seen[r].row.is_active /\ holdings[seen[r].id] # None
    /\ holdings[r] # None => pc[r] \in {"refresh", "done"}
    /\ holdingWrite[r] # None => pc[r] = "commit"
    /\ /\ holdingWrite[r] # None
       /\ ~Inserting(r)
       /\ "is_active" \in holdingWrite[r].dirty
       => ~holdingWrite[r].row.is_active
    /\ Inserting(r)
       => /\ holdingWrite[r].id = r
          /\ ActiveHoldings(holdingWrite[r].row.position) = {}
          /\ \A o \in Req \ {r} :
                Inserting(o) => holdingWrite[o].row.position
                                # holdingWrite[r].row.position

IndexInv == OneActiveHolding /\ \A r \in Req : IndexAt(r)

\* A session holds only transactions it has found active, so the UPDATE it
\* flushes can only deactivate.
DeletionAt(r) ==
    /\ pc[r] \in {"idle", "load_transaction", "done"}
       => loaded[r] = None
    /\ pc[r] \in {"idle", "load_transaction", "flush_transaction", "done"}
       => txnWrite[r] = None
    /\ transactions[r] # None => pc[r] \in {"refresh", "done"}
    /\ loaded[r] # None
       => /\ loaded[r].is_active
          /\ call[r].op \in {"update_transaction", "delete_transaction"}
          /\ transactions[call[r].id] # None
    /\ txnWrite[r] # None
       => /\ call[r].op \in {"create_transaction", "update_transaction",
                            "delete_transaction"}
          /\ txnWrite[r].id = SubjectId(r)
          /\ /\ transactions[txnWrite[r].id] # None
             /\ "is_active" \in txnWrite[r].dirty
             => ~txnWrite[r].row.is_active

DeletionInv == \A r \in Req : DeletionAt(r)

\* From the flush of status COMPLETED on, the session works for the row it has
\* written, and on a holding of that row's position.
CompletionAt(r) ==
    /\ /\ \/ pc[r] \in {"apply_completed", "insert_holding", "flush_holding"}
          \/ pc[r] = "available_units" /\ call[r].op = "update_transaction"
       /\ IsTransactionCall(r)
       => WritesCompleted(r) /\ txnWrite[r].row = Subject(r)
    /\ pc[r] = "flush_holding" /\ IsTransactionCall(r)
       => seen[r].row.position = Subject(r).position
    /\ seen[r] # None
       => seen[r].row.position = holdings[seen[r].id].position
    /\ pc[r] = "commit" /\ IsTransactionCall(r) => CommitsWhole(r)

CompletionInv == \A r \in Req : CompletionAt(r)

\* What a transaction call is about to commit is computed from what it read:
\* the status has changed, and the units are the ones read and its own.
WriteAt(r) ==
    /\ /\ txnWrite[r] # None /\ call[r].op = "update_transaction"
       /\ "transaction_status" \in txnWrite[r].dirty
       => txnWrite[r].row.transaction_status # loaded[r].transaction_status
    /\ holdingWrite[r] # None /\ IsTransactionCall(r)
       => /\ txnWrite[r].row = Subject(r)
          /\ \/ /\ holdingWrite[r].id = r
                /\ holdings[r] = None
                /\ holdingWrite[r].row.units = Signed(Subject(r))
             \/ /\ seen[r] # None
                /\ holdingWrite[r].id = seen[r].id
                /\ holdingWrite[r].row.position = seen[r].row.position
                /\ holdingWrite[r].row.units
                   = seen[r].row.units + Signed(Subject(r))

WriteInv == \A r \in Req : WriteAt(r)

\* A request that creates a row has flushed it when it commits, and has been
\* answered only when it is done.
AnswerAt(r) ==
    /\ response[r] # "none" => pc[r] = "done"
    /\ pc[r] = "idle" => call[r] = None
    /\ /\ pc[r] \in {"apply_completed", "insert_holding", "flush_holding",
                     "commit"}
       /\ call[r].op = "create_transaction"
       => /\ txnWrite[r] # None
          /\ txnWrite[r].row = Subject(r)
          /\ "transaction_status" \in txnWrite[r].dirty
    /\ pc[r] = "commit" /\ call[r].op = "create_holding"
       => holdingWrite[r] # None /\ holdingWrite[r].id = r
    /\ pc[r] = "refresh" /\ call[r].op = "create_transaction"
       => transactions[r] # None
    /\ pc[r] = "refresh" /\ call[r].op = "create_holding"
       => holdings[r] # None

AnswerInv == AnswerMatchesTables /\ \A r \in Req : AnswerAt(r)

\* What a session has read is what its call looks for: the holding of the
\* transaction's position, with units enough for an outflow.
ReadAt(r) ==
    /\ pc[r] \in {"idle", "available_units", "load_transaction",
                  "flush_transaction", "find_holding", "insert_holding",
                  "load_holding", "done"}
       => seen[r] = None
    /\ seen[r] # None => call[r].op \notin {"create_holding",
                                            "delete_transaction"}
    /\ seen[r] # None /\ IsTransactionCall(r)
       => /\ seen[r].row.position = Subject(r).position
          /\ ~Exceeds(Subject(r), seen[r].row)
    /\ /\ pc[r] \in {"insert_transaction", "apply_completed"}
       /\ seen[r] # None
       => Outflow(r)
    /\ /\ \/ pc[r] \in {"apply_completed", "insert_holding", "flush_holding"}
          \/ pc[r] = "available_units" /\ call[r].op = "update_transaction"
       /\ IsTransactionCall(r)
       => Completing(r)
    /\ pc[r] = "available_units" => Outflow(r)
    /\ pc[r] = "commit" /\ seen[r] = None
       => /\ call[r].op \notin {"update_holding", "delete_holding"}
          /\ ~(Completing(r) /\ Outflow(r))

\* The write the call of r makes of what it has read.
TransactionWriteOf(r) ==
    LET dirty == DirtyTransaction(loaded[r], Subject(r))
    IN  IF call[r].op = "create_transaction"
        THEN [id |-> r, row |-> Subject(r), dirty |-> TransactionColumns]
        ELSE IF /\ call[r].op \in {"update_transaction", "delete_transaction"}
                /\ dirty # {}
        THEN [id |-> call[r].id, row |-> Subject(r), dirty |-> dirty]
        ELSE None

HoldingWriteOf(r) ==
    LET dirty == DirtyHolding(seen[r].row, ChangedHolding(r))
    IN  IF /\ call[r].op \in {"create_transaction", "update_transaction",
                              "delete_transaction"}
           /\ ~Completing(r)
        THEN None
        ELSE IF seen[r] = None
        THEN [id |-> r, row |-> NewHolding(r), dirty |-> HoldingColumns]
        ELSE IF dirty # {}
        THEN [id |-> seen[r].id, row |-> ChangedHolding(r), dirty |-> dirty]
        ELSE None

\* From the flush of its transaction on, a request is about to commit exactly
\* the write that its call makes of what it has read; at its commit it has also
\* flushed exactly that write to a holding.
FlushedAt(r) ==
    /\ \/ pc[r] \in {"apply_completed", "insert_holding", "flush_holding",
                     "commit"}
       \/ pc[r] = "available_units" /\ call[r].op = "update_transaction"
       => txnWrite[r] = TransactionWriteOf(r)
    /\ pc[r] = "available_units" /\ call[r].op = "create_transaction"
       => txnWrite[r] = None
    /\ pc[r] = "commit" => holdingWrite[r] = HoldingWriteOf(r)

FlushInv == \A r \in Req : ReadAt(r) /\ FlushedAt(r)

LedgerInv ==
    /\ TypeOK /\ ControlInv
    /\ UnitsInv
    /\ IndexInv
    /\ DeletionInv
    /\ CompletionInv
    /\ WriteInv
    /\ AnswerInv
    /\ FlushInv

-----------------------------------------------------------------------------
(* The ledger of a server that handles one request at a time.              *)

\* Until its commit, what r has read is what is stored.
CurrentAt(r) ==
    pc[r] # "refresh"
    => /\ loaded[r] # None => transactions[call[r].id] = loaded[r]
       /\ seen[r] # None => holdings[seen[r].id] = seen[r].row

\* At most one request is being handled, nothing it has read is stale, and
\* every unit of a holding is explained.
SerialInv ==
    /\ \A r, o \in InFlight : r = o
    /\ \A r \in Req : CurrentAt(r)
    /\ \A h \in HoldingId : Unexplained(h) = 0

-----------------------------------------------------------------------------
(* The ledger as its clients see it.                                       *)

\* How far the call of each request is, for the client.
Stage ==
    [r \in Req |->
        CASE pc[r] = "idle" -> "new"
          [] pc[r] = "refresh" -> "stored"
          [] pc[r] = "done" -> response[r]
          [] OTHER -> "open"]

Abstract == INSTANCE AtomicLedger WITH stage <- Stage

\* However the statements of several requests interleave, wait or fail, the
\* commit of a call is one step that writes exactly what the call makes of
\* what it has read, into rows in which others may have written other columns;
\* a refusal has a reason in the committed rows, and nothing of a refused call
\* is stored.
ImplementsAtomicLedger == Abstract!Spec

=============================================================================
