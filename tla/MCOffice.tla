------------------------------ MODULE MCOffice ------------------------------
(***************************************************************************)
(* Instances of Office for TLC: advisor a1 has customers c1 and c2, a2 has *)
(* c3.  c1 has a folio with a holding, a monthly and a quarterly SIP and a *)
(* pending installment; c3 has a folio without a holding.                  *)
(***************************************************************************)
EXTENDS Office, TLC

CONSTANTS a1, a2, c1, c2, c3, s1, f1, f3, h1, p1, p2, t1

Blank == [table |-> "schemes", advisor |-> None, customer |-> None,
          folio |-> None, scheme |-> None, sip |-> None, is_active |-> TRUE,
          status |-> None, frequency |-> None, type |-> None, amount |-> None]
Customer(c, a, kyc) ==
    [Blank EXCEPT !.table = "customers", !.advisor = a, !.customer = c,
                  !.status = kyc]
Folio(c, a) == [Blank EXCEPT !.table = "folios", !.advisor = a, !.customer = c]
Child(t, c, a, f) ==
    [Folio(c, a) EXCEPT !.table = t, !.folio = f, !.scheme = s1, !.amount = 1]
Sip(c, a, f, frequency) ==
    [Child("sips", c, a, f) EXCEPT !.status = "ACTIVE", !.frequency = frequency]
Transaction(c, a, f, p, type, status) ==
    [Child("transactions", c, a, f) EXCEPT
       !.sip = p, !.type = type, !.status = status]

MCRows ==
    (c1 :> Customer(c1, a1, "PENDING")) @@ (c2 :> Customer(c2, a1, "VERIFIED"))
    @@ (c3 :> Customer(c3, a2, "PENDING")) @@ (s1 :> Blank)
    @@ (f1 :> Folio(c1, a1)) @@ (f3 :> Folio(c3, a2))
    @@ (h1 :> Child("holdings", c1, a1, f1))
    @@ (p1 :> Sip(c1, a1, f1, "MONTHLY"))
    @@ (p2 :> Sip(c1, a1, f1, "QUARTERLY"))
    @@ (t1 :> Transaction(c1, a1, f1, p1, "SIP_INSTALLMENT", "PENDING"))

Symmetry == Permutations(Req)

NoPatch ==
    [is_active |-> None, status |-> None, frequency |-> None, amount |-> None]
Creation(by, row) ==
    [op |-> "create", by |-> by, id |-> None, row |-> row, set |-> NoPatch,
     report |-> None]
Edit(by, x, set) ==
    [op |-> "update", by |-> by, id |-> x, set |-> set, report |-> None,
     row |-> [Blank EXCEPT !.table = MCRows[x].table]]
Deletion(by, x) == Edit(by, x, [NoPatch EXCEPT !.is_active = FALSE])
Read(by, x) == [Edit(by, x, NoPatch) EXCEPT !.op = "get"]
Reported(by, report, c) ==
    [op |-> "report", by |-> by, id |-> None, set |-> NoPatch,
     report |-> report, row |-> [Blank EXCEPT !.customer = c]]

Creations ==
    {Creation(None, Customer(None, a2, "PENDING")),
     Creation(None, Blank),
     Creation(a1, Folio(c2, None)),
     Creation(a2, Child("holdings", c3, a2, f3)),
     Creation(None, Sip(c1, None, f3, "QUARTERLY")),
     Creation(None, Sip(c1, None, f1, "QUARTERLY")),
     Creation(None, Transaction(c3, a2, f3, p2, "BUY", "COMPLETED")),
     Creation(a1, Transaction(c1, None, f1, p1, "SIP_INSTALLMENT", "PENDING")),
     Creation(None, Transaction(c1, None, f1, None, "SELL", "COMPLETED")),
     Creation(None, Transaction(c1, None, f1, None, "DIVIDEND", "COMPLETED"))}

Deletions ==
    {Deletion(a1, c1), Deletion(a2, c3), Deletion(None, s1), Deletion(a1, h1),
     Deletion(None, f1)}

Edits ==
    {Edit(a1, t1, [NoPatch EXCEPT !.status = "COMPLETED"]),
     Edit(a1, p1, [NoPatch EXCEPT !.frequency = "QUARTERLY", !.amount = 2]),
     Edit(a1, c1, [NoPatch EXCEPT !.status = "VERIFIED"]),
     Edit(a2, h1, [NoPatch EXCEPT !.amount = 2]),
     Read(a1, h1)}

Reports ==
    {Reported(a1, "dashboard", None), Reported(None, "dashboard", None),
     Reported(a1, "sip_summary", c1), Reported(a2, "list_transactions", c3),
     Reported(None, "portfolio_summary", c3),
     Reported(a2, "list_holdings", None)}

FullWorkload == Creations \cup Deletions \cup Edits \cup Reports
DashboardWorkload == {Reported(a1, "dashboard", None), Read(a1, c1)} \cup Edits
=============================================================================
