---------------------------- MODULE AtomicLedger ----------------------------
(***************************************************************************)
(* What one call about transactions and holdings promises its client.      *)
(*                                                                         *)
(* A call reads at most one transaction and one holding, each once, and    *)
(* then does all of its writes in one step: the completed status and the   *)
(* units that go with it become visible together.  The step merges columns *)
(* into the rows as they then are: a column that the call does not change  *)
(* keeps what others have written since the call read it.  A call that is  *)
(* refused has stored nothing, and there was a reason; one that is lost    *)
(* has stored everything or nothing.                                       *)
(*                                                                         *)
(* There are no statements, locks or rollbacks here, and no in-flight      *)
(* writes: a call is new, open, stored, or answered.                       *)
(***************************************************************************)
EXTENDS LedgerRows

VARIABLE stage   \* how far each call is, and its answer at the end

vars == <<transactions, holdings, call, loaded, seen, stage>>

-----------------------------------------------------------------------------
(* What the call of r stores.                                              *)

\* The columns in which new differs from old, written over stored.
MergedTransaction(stored, old, new) ==
    [stored EXCEPT
        !.transaction_status =
            IF new.transaction_status # old.transaction_status
            THEN new.transaction_status ELSE @,
        !.is_active = IF new.is_active # old.is_active THEN new.is_active
                      ELSE @]

MergedHolding(stored, old, new) ==
    [stored EXCEPT
        !.units = IF new.units # old.units THEN new.units ELSE @,
        !.is_active = IF new.is_active # old.is_active THEN new.is_active
                      ELSE @]

StoreTransaction(r) ==
    \/ /\ call[r].op = "create_transaction"
       /\ transactions' = [transactions EXCEPT ![r] = Subject(r)]
    \/ /\ call[r].op \in {"update_transaction", "delete_transaction"}
       /\ loaded[r] # None
       /\ transactions' =
            [transactions EXCEPT ![call[r].id] =
               MergedTransaction(@, loaded[r], Subject(r))]
    \/ /\ call[r].op \in {"create_holding", "update_holding",
                          "delete_holding"}
       /\ UNCHANGED transactions

\* A holding is created only where the position has no active one, and never
\* by an outflow.
StoreHolding(r) ==
    \/ /\ \/ call[r].op = "delete_transaction"
          \/ IsTransactionCall(r) /\ ~Completing(r)
       /\ UNCHANGED holdings
    \/ /\ \/ call[r].op = "create_holding"
          \/ Completing(r) /\ ~Outflow(r)
       /\ seen[r] = None
       /\ ActiveHoldings(NewHolding(r).position) = {}
       /\ holdings' = [holdings EXCEPT ![r] = NewHolding(r)]
    \/ /\ \/ call[r].op \in {"update_holding", "delete_holding"}
          \/ Completing(r)
       /\ seen[r] # None
       /\ holdings' = [holdings EXCEPT ![seen[r].id] =
                         MergedHolding(@, seen[r].row, ChangedHolding(r))]

-----------------------------------------------------------------------------
(* Why a call may be refused.                                              *)

\* The row it names is not there, or soft-deleted.
Missing(r) ==
    \/ /\ call[r].op \in {"update_transaction", "delete_transaction"}
       /\ ~IsActive(transactions[call[r].id])
    \/ /\ call[r].op \in {"update_holding", "delete_holding"}
       /\ ~IsActive(holdings[call[r].id])

\* The position already has an active holding.
Taken(r) ==
    /\ \/ call[r].op = "create_holding"
       \/ /\ call[r].op = "create_transaction"
          /\ Completing(r) /\ ~Outflow(r)
    /\ ActiveHoldings(NewHolding(r).position) # {}

\* An outflow takes units that are not there.
Short(r) ==
    /\ Completing(r) \/ call[r].op = "create_transaction"
    /\ Outflow(r)
    /\ LET p == Subject(r).position
       IN  \/ /\ ActiveHoldings(p) = {}
              /\ Completing(r) \/ Subject(r).units > UnitsIn(transactions, p)
           \/ \E h \in ActiveHoldings(p) : Exceeds(Subject(r), holdings[h])

-----------------------------------------------------------------------------
Close(r, answer) ==
    /\ stage' = [stage EXCEPT ![r] = answer]
    /\ loaded' = [loaded EXCEPT ![r] = None]
    /\ seen' = [seen EXCEPT ![r] = None]
    /\ UNCHANGED call

Receive(r, q) ==
    /\ stage[r] = "new"
    /\ call' = [call EXCEPT ![r] = q]
    /\ stage' = [stage EXCEPT ![r] = "open"]
    /\ UNCHANGED <<transactions, holdings, loaded, seen>>

ReadTransaction(r) ==
    /\ stage[r] = "open"
    /\ call[r].op \in {"update_transaction", "delete_transaction"}
    /\ loaded[r] = None
    /\ IsActive(transactions[call[r].id])
    /\ loaded' = [loaded EXCEPT ![r] = transactions[call[r].id]]
    /\ UNCHANGED <<transactions, holdings, call, seen, stage>>

\* The holding a call names, or the active one of its transaction's position
\* if an outflow fits it.
ReadHolding(r) ==
    /\ stage[r] = "open"
    /\ \E h \in HoldingId :
          /\ IsActive(holdings[h])
          /\ \/ /\ call[r].op \in {"update_holding", "delete_holding"}
                /\ h = call[r].id
             \/ /\ call[r].op = "create_transaction" \/ loaded[r] # None
                /\ \/ Completing(r)
                   \/ call[r].op = "create_transaction" /\ Outflow(r)
                /\ holdings[h].position = Subject(r).position
                /\ ~Exceeds(Subject(r), holdings[h])
          /\ seen' = [seen EXCEPT ![r] = [id |-> h, row |-> holdings[h]]]
    /\ UNCHANGED <<transactions, holdings, call, loaded, stage>>

\* A deletion is answered at once, the other calls read their row again.
Store(r) ==
    /\ stage[r] = "open"
    /\ StoreTransaction(r)
    /\ StoreHolding(r)
    /\ \/ /\ call[r].op \in {"delete_transaction", "delete_holding"}
          /\ Close(r, "ok")
       \/ /\ call[r].op \notin {"delete_transaction", "delete_holding"}
          /\ stage' = [stage EXCEPT ![r] = "stored"]
          /\ UNCHANGED <<call, loaded, seen>>

Answer(r) ==
    /\ stage[r] = "stored"
    /\ Close(r, "ok")
    /\ UNCHANGED <<transactions, holdings>>

\* A new call is refused for reasons outside this module.
Refuse(r) ==
    /\ \/ stage[r] = "new"
       \/ stage[r] = "open" /\ (Missing(r) \/ Taken(r) \/ Short(r))
    /\ Close(r, "client_error")
    /\ UNCHANGED <<transactions, holdings>>

Lose(r) ==
    /\ stage[r] \in {"open", "stored"}
    /\ Close(r, "unavailable")
    /\ UNCHANGED <<transactions, holdings>>

Init ==
    /\ transactions = [t \in TransactionId |->
                         IF t \in Req THEN None ELSE InitialTransactions[t]]
    /\ holdings = [h \in HoldingId |->
                     IF h \in Req THEN None ELSE InitialHoldings[h]]
    /\ call = [r \in Req |-> None]
    /\ loaded = [r \in Req |-> None]
    /\ seen = [r \in Req |-> None]
    /\ stage = [r \in Req |-> "new"]

Next ==
    \E r \in Req :
        \/ \E q \in Workload : Receive(r, q)
        \/ ReadTransaction(r) \/ ReadHolding(r)
        \/ Store(r) \/ Answer(r)
        \/ Refuse(r) \/ Lose(r)

Spec == Init /\ [][Next]_vars
=============================================================================
