----------------------------- MODULE LedgerRows -----------------------------
(***************************************************************************)
(* The rows of transactions and holdings, the calls about them, what a    *)
(* request has read, and what its call makes of it.                        *)
(*                                                                         *)
(* A position is a (folio, scheme) pair.  Units stand for the units column *)
(* counted in its last decimal; the money columns of a holding are written *)
(* in the same flushes as its units and are left out.                      *)
(***************************************************************************)
EXTENDS Integers, Functions

CONSTANTS
    Req,                  \* requests; each is received at most once
    Position,             \* (folio_id, scheme_id) pairs
    SameCustomerScheme,   \* positions of the same customer and scheme
    InitialTransactions,  \* rows stored before the first request
    InitialHoldings,
    Workload,             \* the service calls clients make
    None                  \* no row, no write, or a field absent from a PATCH

InflowTypes == {"BUY", "SIP_INSTALLMENT", "SWITCH_IN"}
OutflowTypes == {"SELL", "SWITCH_OUT"}
TransactionType == InflowTypes \cup OutflowTypes \cup {"DIVIDEND"}
TransactionStatus == {"PENDING", "COMPLETED", "FAILED", "CANCELLED"}

\* A row created by a request gets a fresh uuid: it is named by the request.
TransactionId == Req \cup DOMAIN InitialTransactions
HoldingId == Req \cup DOMAIN InitialHoldings

Transaction == [position: Position, transaction_type: TransactionType,
                transaction_status: TransactionStatus, units: Nat \ {0},
                is_active: BOOLEAN]
Holding == [position: Position, units: Int, is_active: BOOLEAN]

LoadedHolding == [id: HoldingId, row: Holding]

Call ==
    [op: {"create_transaction"}, position: Position,
     transaction_type: TransactionType,
     transaction_status: TransactionStatus, units: Nat \ {0}]
    \cup
    [op: {"update_transaction"}, id: TransactionId,
     transaction_status: TransactionStatus \cup {None},
     is_active: BOOLEAN \cup {None}]
    \cup
    [op: {"delete_transaction"}, id: TransactionId]
    \cup
    [op: {"create_holding"}, position: Position, units: Nat]
    \cup
    [op: {"update_holding"}, id: HoldingId, units: Nat \cup {None},
     is_active: BOOLEAN \cup {None}]
    \cup
    [op: {"delete_holding"}, id: HoldingId]

VARIABLES
    transactions,   \* committed transaction rows
    holdings,       \* committed holding rows
    call,           \* the service call a request made
    loaded,         \* session: the transaction row it has loaded
    seen            \* session: the holding row it has loaded, with its id

ASSUME RequestAssumption ==
    /\ Req \cap (DOMAIN InitialTransactions \cup DOMAIN InitialHoldings) = {}
    /\ Workload \subseteq Call

ASSUME PositionAssumption ==
    SameCustomerScheme \in [Position -> SUBSET Position]

ASSUME SeedAssumption ==
    /\ InitialTransactions \in [DOMAIN InitialTransactions -> Transaction]
    /\ InitialHoldings \in [DOMAIN InitialHoldings -> Holding]
    /\ \A h \in DOMAIN InitialHoldings : InitialHoldings[h].units >= 0
    /\ \A g, h \in DOMAIN InitialHoldings :
          /\ InitialHoldings[g].is_active /\ InitialHoldings[h].is_active
          /\ InitialHoldings[g].position = InitialHoldings[h].position
          => g = h

ASSUME NoneAssumption ==
    None \notin Transaction \cup Holding \cup LoadedHolding \cup Call
                \cup BOOLEAN \cup Nat \cup TransactionStatus

-----------------------------------------------------------------------------
Signed(txn) ==
    IF txn.transaction_type \in InflowTypes THEN txn.units
    ELSE IF txn.transaction_type \in OutflowTypes THEN -txn.units
    ELSE 0

\* Faulty: get_by_id without active_only.
AnyRow(row) == row # None

\* What active_only adds to a SELECT.
IsActive(row) == row # None /\ row.is_active

\* The units of the completed transactions among rows, of the customer and
\* the scheme of position p.
UnitsIn(rows, p) ==
    LET counted == {t \in TransactionId :
            /\ IsActive(rows[t])
            /\ rows[t].transaction_status = "COMPLETED"
            /\ rows[t].position \in SameCustomerScheme[p]}
    IN  SumFunctionOnSet([t \in counted |-> Signed(rows[t])], counted)

\* The setattr calls of update_transaction and delete_transaction.
PatchedTransaction(row, q) ==
    IF q.op = "delete_transaction" THEN [row EXCEPT !.is_active = FALSE]
    ELSE [row EXCEPT
            !.transaction_status =
                IF q.transaction_status = None THEN @
                ELSE q.transaction_status,
            !.is_active = IF q.is_active = None THEN @ ELSE q.is_active]

\* Faulty: the apply step relies on the earlier comparison.
NeverExceeds(txn, row) == FALSE

Exceeds(txn, row) ==
    txn.transaction_type \in OutflowTypes /\ txn.units > row.units

TransactionColumns == {"transaction_status", "is_active"}
HoldingColumns == {"units", "is_active"}

DirtyTransaction(old, new) ==
    {c \in TransactionColumns :
        \/ /\ c = "transaction_status"
           /\ new.transaction_status # old.transaction_status
        \/ /\ c = "is_active"
           /\ new.is_active # old.is_active}

DirtyHolding(old, new) ==
    {c \in HoldingColumns :
        \/ c = "units" /\ new.units # old.units
        \/ c = "is_active" /\ new.is_active # old.is_active}

-----------------------------------------------------------------------------
(* What request r has read, and what its call makes of it.                 *)

ActiveHoldings(p) ==
    {h \in HoldingId : IsActive(holdings[h]) /\ holdings[h].position = p}

\* The transaction a request creates or changes, as its session has it.
Subject(r) ==
    IF call[r].op = "create_transaction"
    THEN [position |-> call[r].position,
          transaction_type |-> call[r].transaction_type,
          transaction_status |-> call[r].transaction_status,
          units |-> call[r].units,
          is_active |-> TRUE]
    ELSE PatchedTransaction(loaded[r], call[r])

\* The requests that can complete a transaction.
IsTransactionCall(r) ==
    call[r].op \in {"create_transaction", "update_transaction"}

\* The call of r turns the transaction COMPLETED, so it moves units.
Completing(r) ==
    \/ /\ call[r].op = "create_transaction"
       /\ call[r].transaction_status = "COMPLETED"
    \/ /\ call[r].op = "update_transaction"
       /\ loaded[r] # None
       /\ loaded[r].transaction_status # "COMPLETED"
       /\ Subject(r).transaction_status = "COMPLETED"

Outflow(r) == Subject(r).transaction_type \in OutflowTypes

SubjectId(r) ==
    IF call[r].op = "create_transaction" THEN r ELSE call[r].id

\* The row an INSERT into portfolio_holdings leaves in the session: the
\* payload of create_holding, or zero units and then the transaction's.
NewHolding(r) ==
    IF call[r].op = "create_holding"
    THEN [position |-> call[r].position, units |-> call[r].units,
          is_active |-> TRUE]
    ELSE [position |-> Subject(r).position, units |-> Signed(Subject(r)),
          is_active |-> TRUE]

\* The loaded holding after the setattr calls of the service.
ChangedHolding(r) ==
    LET row == seen[r].row
        q == call[r]
    IN  CASE q.op = "delete_holding" -> [row EXCEPT !.is_active = FALSE]
          [] q.op = "update_holding" ->
                [row EXCEPT
                   !.units = IF q.units = None THEN @ ELSE q.units,
                   !.is_active = IF q.is_active = None THEN @
                                 ELSE q.is_active]
          [] OTHER -> [row EXCEPT !.units = @ + Signed(Subject(r))]
=============================================================================
