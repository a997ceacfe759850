------------------------- MODULE MCTransactionLedger -------------------------
(***************************************************************************)
(* Instances of TransactionLedger for TLC: one customer with two folios in *)
(* one scheme, so two positions whose transactions the availability        *)
(* fallback adds up, and a few service calls that collide on them.         *)
(***************************************************************************)
EXTENDS TransactionLedger, TLC

CONSTANTS p1, p2, t1, t2, t3, h1, h2

MCSameCustomerScheme == (p1 :> {p1, p2}) @@ (p2 :> {p1, p2})

\* t1 is a sale waiting for completion, t2 a completed purchase in the other
\* folio (whose holding was deleted), t3 a purchase that failed.
MCTransactions ==
    (t1 :> [position |-> p1, transaction_type |-> "SELL",
            transaction_status |-> "PENDING", units |-> 2,
            is_active |-> TRUE])
    @@ (t2 :> [position |-> p2, transaction_type |-> "BUY",
               transaction_status |-> "COMPLETED", units |-> 2,
               is_active |-> TRUE])
    @@ (t3 :> [position |-> p1, transaction_type |-> "SIP_INSTALLMENT",
               transaction_status |-> "FAILED", units |-> 1,
               is_active |-> TRUE])

MCHoldings ==
    (h1 :> [position |-> p1, units |-> 2, is_active |-> TRUE])
    @@ (h2 :> [position |-> p2, units |-> 2, is_active |-> FALSE])

Symmetry == Permutations(Req)

CreateTransaction(p, type, status, units) ==
    [op |-> "create_transaction", position |-> p, transaction_type |-> type,
     transaction_status |-> status, units |-> units]
UpdateTransaction(t, status, is_active) ==
    [op |-> "update_transaction", id |-> t, transaction_status |-> status,
     is_active |-> is_active]
DeleteTransaction(t) == [op |-> "delete_transaction", id |-> t]
CreateHolding(p, units) ==
    [op |-> "create_holding", position |-> p, units |-> units]
UpdateHolding(h, units, is_active) ==
    [op |-> "update_holding", id |-> h, units |-> units,
     is_active |-> is_active]
DeleteHolding(h) == [op |-> "delete_holding", id |-> h]

\* Every operation, with the values that make them collide.
FullWorkload ==
    {CreateTransaction(p1, "BUY", "COMPLETED", 1),
     CreateTransaction(p2, "SWITCH_IN", "COMPLETED", 2),
     CreateTransaction(p1, "SELL", "COMPLETED", 2),
     CreateTransaction(p2, "SWITCH_OUT", "PENDING", 2),
     CreateTransaction(p1, "DIVIDEND", "COMPLETED", 1),
     UpdateTransaction(t1, "COMPLETED", None),
     UpdateTransaction(t1, "CANCELLED", TRUE),
     UpdateTransaction(t3, "COMPLETED", FALSE),
     UpdateTransaction(t3, None, TRUE),
     UpdateTransaction(t2, "COMPLETED", None),
     UpdateTransaction(t1, "PENDING", None),
     DeleteTransaction(t1), DeleteTransaction(t3),
     CreateHolding(p1, 1), UpdateHolding(h1, 0, None),
     UpdateHolding(h1, None, FALSE), DeleteHolding(h1)} \cup
    {UpdateTransaction(r, "COMPLETED", None) : r \in Req} \cup
    {DeleteHolding(r) : r \in Req}

\* Two purchases of one position.
BuyWorkload == {CreateTransaction(p1, "BUY", "COMPLETED", 1)}

\* A sale that is completed and a cancellation of the same sale.
CancelWorkload ==
    {UpdateTransaction(t1, "COMPLETED", None),
     UpdateTransaction(t1, "CANCELLED", None)}

\* A purchase and the deletion of the holding it would change.
BuyAndDeleteWorkload == BuyWorkload \cup {DeleteHolding(h1)}

=============================================================================
