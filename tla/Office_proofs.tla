---------------------------- MODULE Office_proofs ----------------------------
(***************************************************************************)
(* Theorems about Office, for any requests, advisors, stored rows and      *)
(* calls: OfficeInv is inductive.  Copies of ownership agree, a child gets *)
(* no parent that was deleted before, reports keep to their advisor, and   *)
(* add up unless what they are about has changed.                          *)
(***************************************************************************)
EXTENDS Office, SequenceTheorems, TLAPS

-----------------------------------------------------------------------------
(* Uuids, rows and what calls make of them.                                *)

\* The uuids of new rows are new and different.
LEMMA NewIds ==
    /\ \A r \in Req : /\ OwnId(r) \in Id /\ OwnId(r) \notin Seed
                      /\ BookedId(r) \in Id /\ BookedId(r) \notin Seed
                      /\ OwnId(r) # BookedId(r)
    /\ \A r, o \in Req : r # o => /\ OwnId(r) # OwnId(o)
                                  /\ OwnId(r) # BookedId(o)
                                  /\ BookedId(r) # BookedId(o)
BY IdAssumption DEF Id, OwnId, BookedId

\* None is none of the values it stands beside.
LEMMA NoneIsApart ==
    /\ \A x \in Id : x # None
    /\ \A a \in Advisor : a # None
    /\ \A u \in Row : u # None
    /\ \A q \in Call : q # None
    /\ \A k \in Status \cup Frequency \cup Type : k # None
    /\ None # FALSE /\ None # TRUE /\ None # "SIP_INSTALLMENT"
BY NoneAssumption DEF Type

\* The columns of a row.
LEMMA RowShape ==
    ASSUME NEW u \in Row
    PROVE  /\ u.table \in Table /\ u.advisor \in Advisor \cup {None}
           /\ u.customer \in Id \cup {None} /\ u.folio \in Id \cup {None}
           /\ u.scheme \in Id \cup {None} /\ u.sip \in Id \cup {None}
           /\ u.is_active \in BOOLEAN /\ u.status \in Status \cup {None}
           /\ u.frequency \in Frequency \cup {None}
           /\ u.type \in Type \cup {None} /\ u.amount \in Amount \cup {None}
BY DEF Row

\* The parts of a call.
LEMMA CallShape ==
    ASSUME NEW q \in Call
    PROVE  /\ q.op \in {"create", "get", "update", "report"}
           /\ q.by \in Advisor \cup {None} /\ q.id \in Id \cup {None}
           /\ q.row \in Row
           /\ q.set.is_active \in {FALSE, None}
           /\ q.set.status \in Status \cup {None}
           /\ q.set.frequency \in Frequency \cup {None}
           /\ q.set.amount \in Amount \cup {None}
           /\ q.report \in Report \cup {None}
<1>1. q.set \in Patch
  BY DEF Call
<1>2. QED
  BY <1>1 DEF Call, Patch

\* The call of a request at work.
LEMMA CallAtWork ==
    ASSUME TypeOK, NEW r \in Req, ControlAt(r), pc[r] \notin {"idle", "done"}
    PROVE  call[r] \in Workload /\ call[r] \in Call /\ MayCall(call[r])
BY CallAssumption DEF ControlAt

\* Whose a new row is.
LEMMA OwnerType ==
    ASSUME NEW q \in Call, NEW l \in [Slot -> Row \cup {None}]
    PROVE  Owner(q, l) \in Advisor \cup {None}
<1>1. "folio" \in Slot /\ "customer" \in Slot
  BY DEF Slot
<1>2. /\ l["folio"] # None => l["folio"].advisor \in Advisor \cup {None}
      /\ l["customer"] # None => l["customer"].advisor \in Advisor \cup {None}
      /\ q.row.advisor \in Advisor \cup {None}
  BY <1>1, RowShape, CallShape
<1>3. QED
  BY <1>2, CallShape DEF Owner

\* The row that a creation stores.
LEMMA NewRowType ==
    ASSUME TypeOK, NEW r \in Req, call[r] \in Call
    PROVE  /\ NewRow(r) \in Row
           /\ NewRow(r).table = call[r].row.table
           /\ NewRow(r).advisor = Owner(call[r], loaded[r])
           /\ NewRow(r).customer = IF call[r].row.table = "customers"
                                   THEN OwnId(r) ELSE call[r].row.customer
           /\ NewRow(r).folio = call[r].row.folio
           /\ NewRow(r).scheme = call[r].row.scheme
           /\ NewRow(r).sip = call[r].row.sip
           /\ NewRow(r).type = call[r].row.type
           /\ NewRow(r).is_active
<1> DEFINE a == Owner(call[r], loaded[r])
           c == IF call[r].row.table = "customers" THEN OwnId(r)
                ELSE call[r].row.customer
<1>1. call[r].row \in Row /\ a \in Advisor \cup {None}
  BY CallShape, OwnerType DEF TypeOK
<1>2. c \in Id \cup {None}
  BY <1>1, RowShape, NewIds
<1>3. NewRow(r) = [call[r].row EXCEPT !.advisor = a, !.customer = c,
                                      !.is_active = TRUE]
  BY <1>1 DEF NewRow, Row
<1> HIDE DEF a, c
<1>4. /\ NewRow(r) \in Row
      /\ NewRow(r).table = call[r].row.table
      /\ NewRow(r).advisor = a /\ NewRow(r).customer = c
      /\ NewRow(r).folio = call[r].row.folio
      /\ NewRow(r).scheme = call[r].row.scheme
      /\ NewRow(r).sip = call[r].row.sip
      /\ NewRow(r).type = call[r].row.type
      /\ NewRow(r).is_active
  BY <1>1, <1>2, <1>3 DEF Row
<1>5. QED
  BY <1>4 DEF a, c

\* The holding that a first inflow stores.
LEMMA BookedType ==
    ASSUME TypeOK, NEW r \in Req, call[r] \in Call,
           call[r].op # "create" => loaded[r]["self"] # None,
           NEW v \in Amount
    PROVE  LET t == IF call[r].op = "create" THEN NewRow(r)
                    ELSE loaded[r]["self"]
           IN  /\ t \in Row /\ BookedHolding(r, v) \in Row
               /\ BookedHolding(r, v).table = "holdings"
               /\ BookedHolding(r, v).advisor = t.advisor
               /\ BookedHolding(r, v).customer = t.customer
               /\ BookedHolding(r, v).folio = t.folio
               /\ BookedHolding(r, v).scheme = t.scheme
               /\ BookedHolding(r, v).sip = None
               /\ BookedHolding(r, v).type = None
<1> DEFINE t == IF call[r].op = "create" THEN NewRow(r) ELSE loaded[r]["self"]
<1>1. "self" \in Slot
  BY DEF Slot
<1>2. t \in Row
  BY <1>1, NewRowType DEF TypeOK
<1>3. BookedHolding(r, v)
      = [t EXCEPT !.table = "holdings", !.sip = None, !.is_active = TRUE,
                  !.status = None, !.type = None, !.amount = v]
  BY DEF BookedHolding
<1> HIDE DEF t
<1>4. /\ BookedHolding(r, v) \in Row
      /\ BookedHolding(r, v).table = "holdings"
      /\ BookedHolding(r, v).advisor = t.advisor
      /\ BookedHolding(r, v).customer = t.customer
      /\ BookedHolding(r, v).folio = t.folio
      /\ BookedHolding(r, v).scheme = t.scheme
      /\ BookedHolding(r, v).sip = None
      /\ BookedHolding(r, v).type = None
  BY <1>2, <1>3 DEF Row, Table
<1>5. QED
  BY <1>2, <1>4 DEF t

\* An UPDATE leaves the row in its place and never revives it.
LEMMA PatchedType ==
    ASSUME NEW r \in Req, call[r] \in Call, NEW row \in Row
    PROVE  /\ Patched(r, row) \in Row /\ SamePlace(Patched(r, row), row)
           /\ Patched(r, row).is_active => row.is_active
<1> DEFINE q == call[r].set
           was == loaded[r]["self"]
           new(value, old, current) ==
               IF value \notin {None, old} THEN value ELSE current
           b == new(q.is_active, was.is_active, row.is_active)
           k == new(q.status, was.status, row.status)
           m == new(q.frequency, was.frequency, row.frequency)
           n == new(q.amount, was.amount, row.amount)
<1>1. /\ b \in BOOLEAN /\ (b => row.is_active)
      /\ k \in Status \cup {None} /\ m \in Frequency \cup {None}
      /\ n \in Amount \cup {None}
  BY RowShape, CallShape
<1>2. Patched(r, row) = [row EXCEPT !.is_active = b, !.status = k,
                                    !.frequency = m, !.amount = n]
  BY DEF Patched
<1> HIDE DEF b, k, m, n
<1>3. QED
  BY <1>1, <1>2 DEF Row, SamePlace

\* A row whose amount changes stays in its place.
LEMMA PaidType ==
    ASSUME NEW row \in Row, NEW v \in Amount
    PROVE  /\ [row EXCEPT !.amount = v] \in Row
           /\ SamePlace([row EXCEPT !.amount = v], row)
           /\ [row EXCEPT !.amount = v].is_active = row.is_active
BY DEF Row, SamePlace

-----------------------------------------------------------------------------
(* What a step does to the tables.                                         *)

\* The writes are those of two actions.
Stores(r) == Write(r) \/ WriteCompletion(r)

\* What a request that writes has read.
LEMMA WriterHasRead ==
    ASSUME OfficeInv, NEW r \in Req, pc[r] = "write"
    PROVE  /\ call[r] \in Call /\ call[r].op \in {"create", "update"}
           /\ call[r].op = "update"
              => /\ loaded[r]["self"] # None /\ loaded[r]["self"] \in Row
                 /\ call[r].id \in Id /\ rows[call[r].id] # None
                 /\ SamePlace(rows[call[r].id], loaded[r]["self"])
           /\ call[r].op = "create"
              => /\ HasRead(r, Needed(call[r]))
                 /\ Fits(call[r], loaded[r])
           /\ rows[OwnId(r)] = None /\ rows[BookedId(r)] = None
           /\ held[r] # None => held[r] \in Id /\ rows[held[r]] # None
<1>1. TypeOK /\ ControlAt(r) /\ LoadedAt(r) /\ FreshAt(r)
  BY DEF OfficeInv
<1>2. call[r] \in Call
  BY <1>1, CallAtWork
<1>3. \/ call[r].op = "update" /\ HasRead(r, {"self"})
      \/ /\ call[r].op = "create" /\ HasRead(r, Needed(call[r]))
         /\ Fits(call[r], loaded[r])
  BY <1>1 DEF ControlAt
<1>4. "self" \in Slot /\ Target(call[r], "self") = call[r].id
  BY DEF Slot, Target
<1>5. ASSUME call[r].op = "update"
      PROVE  /\ loaded[r]["self"] # None /\ loaded[r]["self"] \in Row
             /\ call[r].id \in Id /\ rows[call[r].id] # None
             /\ SamePlace(rows[call[r].id], loaded[r]["self"])
  BY <1>1, <1>3, <1>4, <1>5 DEF HasRead, LoadedAt, Is, TypeOK
<1>6. QED
  BY <1>1, <1>2, <1>3, <1>5 DEF FreshAt, LoadedAt, TypeOK

\* The row of the call: a new one, or the old one in its place.
LEMMA FlushEffect ==
    ASSUME OfficeInv, NEW r \in Req, pc[r] = "write"
    PROVE  /\ Flushed(r) \in [Id -> Row \cup {None}]
           /\ \A x \in Id :
                 \/ Flushed(r)[x] = rows[x]
                 \/ /\ rows[x] # None /\ Flushed(r)[x] \in Row
                    /\ SamePlace(Flushed(r)[x], rows[x])
                    /\ Flushed(r)[x].is_active => rows[x].is_active
                 \/ /\ x = OwnId(r) /\ call[r].op = "create"
                    /\ rows[x] = None /\ Flushed(r)[x] = NewRow(r)
<1>1. TypeOK
  BY DEF OfficeInv
<1>2. CASE call[r].op = "create"
  <2>1. NewRow(r) \in Row /\ OwnId(r) \in Id /\ rows[OwnId(r)] = None
    BY <1>1, WriterHasRead, NewRowType, NewIds
  <2>2. Flushed(r) = [rows EXCEPT ![OwnId(r)] = NewRow(r)]
    BY <1>2 DEF Flushed
  <2>3. QED
    BY <1>1, <1>2, <2>1, <2>2 DEF TypeOK
<1>3. CASE call[r].op = "update"
  <2>1. call[r].id \in Id /\ rows[call[r].id] \in Row /\ rows[call[r].id] # None
    BY <1>1, <1>3, WriterHasRead DEF TypeOK
  <2>2. /\ Patched(r, rows[call[r].id]) \in Row
        /\ SamePlace(Patched(r, rows[call[r].id]), rows[call[r].id])
        /\ Patched(r, rows[call[r].id]).is_active => rows[call[r].id].is_active
    BY <2>1, PatchedType, WriterHasRead
  <2>3. Flushed(r) = [rows EXCEPT ![call[r].id]
                        = Patched(r, rows[call[r].id])]
    BY <1>3 DEF Flushed
  <2>4. QED
    BY <1>1, <2>1, <2>2, <2>3 DEF TypeOK
<1>4. QED
  BY <1>2, <1>3, WriterHasRead

\* A write stores the row of the call, and at most a holding with it.
LEMMA StoreEffect ==
    ASSUME OfficeInv, NEW r \in Req, Stores(r)
    PROVE  /\ pc[r] = "write" /\ rows' \in [Id -> Row \cup {None}]
           /\ \A x \in Id :
                 \/ rows'[x] = rows[x]
                 \/ /\ rows[x] # None /\ rows'[x] \in Row
                    /\ SamePlace(rows'[x], rows[x])
                    /\ rows'[x].is_active => rows[x].is_active
                 \/ /\ x = OwnId(r) /\ call[r].op = "create"
                    /\ rows[x] = None /\ rows'[x] = NewRow(r)
                 \/ /\ x = BookedId(r) /\ rows[x] = None
                    /\ Completes(call[r], loaded[r])
                    /\ \E v \in Amount : rows'[x] = BookedHolding(r, v)
           /\ call[r].op = "create" => rows'[OwnId(r)] = NewRow(r)
           /\ SipExists(call[r])
<1>1. TypeOK /\ pc[r] = "write" /\ SipExists(call[r])
  BY DEF OfficeInv, Stores, Write, WriteCompletion
<1>2. /\ Flushed(r) \in [Id -> Row \cup {None}]
      /\ \A x \in Id :
            \/ Flushed(r)[x] = rows[x]
            \/ /\ rows[x] # None /\ Flushed(r)[x] \in Row
               /\ SamePlace(Flushed(r)[x], rows[x])
               /\ Flushed(r)[x].is_active => rows[x].is_active
            \/ /\ x = OwnId(r) /\ call[r].op = "create"
               /\ rows[x] = None /\ Flushed(r)[x] = NewRow(r)
  BY <1>1, FlushEffect
<1>3. call[r].op = "create" => Flushed(r)[OwnId(r)] = NewRow(r)
  BY <1>1, NewIds DEF Flushed, TypeOK
<1>4. CASE Write(r)
  <2>1. rows' = Flushed(r)
    BY <1>4 DEF Write, Store
  <2>2. QED
    BY <1>1, <1>2, <1>3, <2>1
<1>5. CASE WriteCompletion(r)
  <2>1. PICK v \in Amount :
           \/ /\ held[r] # None
              /\ rows' = [Flushed(r) EXCEPT
                            ![held[r]] = [rows[held[r]] EXCEPT !.amount = v]]
           \/ /\ held[r] = None
              /\ rows' = [Flushed(r) EXCEPT ![BookedId(r)]
                            = BookedHolding(r, v)]
    BY <1>5 DEF WriteCompletion, Store
  <2>2. Completes(call[r], loaded[r])
    BY <1>5 DEF WriteCompletion
  <2>3. CASE held[r] # None
    <3>1. held[r] \in Id /\ rows[held[r]] # None /\ rows[held[r]] \in Row
          /\ rows[OwnId(r)] = None
      BY <1>1, <2>3, WriterHasRead DEF TypeOK
    <3>2. DEFINE u == [rows[held[r]] EXCEPT !.amount = v]
    <3>3. u \in Row /\ SamePlace(u, rows[held[r]])
          /\ (u.is_active => rows[held[r]].is_active)
      BY <3>1, PaidType
    <3>4. rows' = [Flushed(r) EXCEPT ![held[r]] = u]
      BY <2>1, <2>3
    <3> HIDE DEF u
    <3>5. held[r] # OwnId(r)
      BY <3>1
    <3>6. QED
      BY <1>1, <1>2, <1>3, <3>1, <3>3, <3>4, <3>5, NewIds
  <2>4. CASE held[r] = None
    <3>1. BookedHolding(r, v) \in Row
      BY <1>1, BookedType, WriterHasRead
    <3>2. BookedId(r) \in Id /\ rows[BookedId(r)] = None
          /\ BookedId(r) # OwnId(r)
      BY <1>1, NewIds, WriterHasRead
    <3>3. rows' = [Flushed(r) EXCEPT ![BookedId(r)] = BookedHolding(r, v)]
      BY <2>1, <2>4
    <3>4. QED
      BY <1>1, <1>2, <1>3, <2>2, <3>1, <3>2, <3>3, NewIds
  <2>5. QED
    BY <2>3, <2>4
<1>6. QED
  BY <1>4, <1>5 DEF Stores

\* Only a write changes the tables.
LEMMA RowsChangeByStores ==
    ASSUME [Next]_vars
    PROVE  UNCHANGED rows \/ \E r \in Req : Stores(r)
BY DEF Next, Receive, Refuse, ReadRow, FindHolding, ReadFigure, Fail, Close,
       Quiescent, vars, Stores

\* Rows stay in their place, and what was deleted stays deleted.
LEMMA RowsStay ==
    ASSUME OfficeInv, [Next]_vars, NEW x \in Id, rows[x] # None
    PROVE  /\ rows'[x] # None /\ SamePlace(rows'[x], rows[x])
           /\ ~rows[x].is_active => ~rows'[x].is_active
<1>1. CASE UNCHANGED rows
  BY <1>1 DEF SamePlace
<1>2. ASSUME NEW r \in Req, Stores(r)
      PROVE  /\ rows'[x] # None /\ SamePlace(rows'[x], rows[x])
             /\ ~rows[x].is_active => ~rows'[x].is_active
  <2>1. \/ rows'[x] = rows[x]
        \/ /\ rows'[x] \in Row /\ SamePlace(rows'[x], rows[x])
           /\ rows'[x].is_active => rows[x].is_active
    BY <1>2, StoreEffect
  <2>2. QED
    BY <2>1, NoneIsApart DEF SamePlace
<1>3. QED
  BY <1>1, <1>2, RowsChangeByStores

-----------------------------------------------------------------------------
(* OfficeInv is inductive: types.                                          *)

\* The SELECTs of a report.
LEMMA FiguresOfReport ==
    ASSUME NEW p \in Report
    PROVE  Figures[p] \in Seq(Figure) /\ Figures[p] # <<>>
<1>1. DOMAIN Figures = {"dashboard", "portfolio_summary", "sip_summary",
                        "transaction_summary", "list_customers",
                        "list_folios", "list_holdings", "list_sips",
                        "list_transactions"}
  BY DEF Figures
<1>2. CASE p = "dashboard"
  <2>1. Figures[p] = <<"recent_transactions", "total_customers", "total_aum",
                       "monthly_sip_amount", "pending_kyc", "active_sips">>
    BY <1>2 DEF Figures
  <2>2. QED
    BY <2>1 DEF Figure
<1>3. CASE p = "sip_summary"
  <2>1. Figures[p] = <<"sips", "monthly_sips", "next_due">>
    BY <1>3 DEF Figures
  <2>2. QED
    BY <2>1 DEF Figure
<1>4. CASE p \notin {"dashboard", "sip_summary"}
  <2>1. \E f \in Figure : Figures[p] = <<f>>
    BY <1>1, <1>4 DEF Report, Figures, Figure
  <2>2. QED
    BY <2>1
<1>5. QED
  BY <1>2, <1>3, <1>4

\* What a request does touches no other one.
Unmoved(o) ==
    /\ pc'[o] = pc[o] /\ call'[o] = call[o] /\ todo'[o] = todo[o]
    /\ loaded'[o] = loaded[o] /\ held'[o] = held[o]
    /\ answer'[o] = answer[o] /\ gone'[o] = gone[o]

\* The steps of a request.
Acts(r) ==
    \/ \E q \in Workload : Receive(r, q)
    \/ Refuse(r) \/ ReadRow(r) \/ FindHolding(r) \/ Stores(r)
    \/ ReadFigure(r) \/ Fail(r)

LEMMA OthersUnmoved ==
    ASSUME TypeOK, NEW r \in Req, Acts(r), NEW o \in Req \ {r}
    PROVE  Unmoved(o)
<1>1. CASE \E q \in Workload : Receive(r, q)
  BY <1>1 DEF Receive, TypeOK, Unmoved
<1>2. CASE Close(r)
  BY <1>2 DEF Close, TypeOK, Unmoved
<1>3. CASE Stores(r)
  BY <1>3 DEF Stores, Write, WriteCompletion, Store, TypeOK, Unmoved
<1>4. CASE ReadRow(r) /\ ~Close(r)
  BY <1>4 DEF ReadRow, TypeOK, Unmoved
<1>5. CASE FindHolding(r) /\ ~Close(r)
  BY <1>5 DEF FindHolding, TypeOK, Unmoved
<1>6. CASE ReadFigure(r)
  BY <1>6 DEF ReadFigure, TypeOK, Unmoved
<1>7. QED
  BY <1>1, <1>2, <1>3, <1>4, <1>5, <1>6 DEF Acts, Refuse, Fail

LEMMA StepShape ==
    ASSUME [Next]_vars
    PROVE  UNCHANGED vars \/ \E r \in Req : Acts(r)
BY DEF Next, Acts, Stores, Quiescent

LEMMA ReadRowEffect ==
    ASSUME TypeOK, NEW r \in Req, ReadRow(r), ~Close(r)
    PROVE  LET l == [loaded[r] EXCEPT ![pc[r]]
                       = rows[Target(call[r], pc[r])]]
               next == Following(call[r], pc[r], l)
           IN  /\ pc[r] \in Slot
               /\ Target(call[r], pc[r]) \in Id
               /\ Active(Target(call[r], pc[r]), TableOf(call[r], pc[r]))
               /\ next \notin Slot => Admits(call[r], l)
               /\ loaded'[r] = l /\ pc'[r] = next
               /\ l \in [Slot -> Row \cup {None}]
               /\ l[pc[r]] # None
               /\ UNCHANGED <<rows, call, todo, held, answer, gone, touched>>
<1> DEFINE x == Target(call[r], pc[r])
           l == [loaded[r] EXCEPT ![pc[r]] = rows[x]]
           next == Following(call[r], pc[r], l)
<1>1. /\ pc[r] \in Slot /\ Found(x, TableOf(call[r], pc[r]))
      /\ next \notin Slot => Admits(call[r], l)
      /\ loaded' = [loaded EXCEPT ![r] = l]
      /\ pc' = [pc EXCEPT ![r] = next]
      /\ UNCHANGED <<rows, call, todo, held, answer, gone, touched>>
  BY DEF ReadRow
<1>2. /\ x \in Id /\ rows[x] # None /\ rows[x] \in Row
      /\ Active(x, TableOf(call[r], pc[r]))
  BY <1>1 DEF Found, Active, Is, TypeOK
<1>3. l \in [Slot -> Row \cup {None}] /\ l[pc[r]] # None
  BY <1>1, <1>2 DEF TypeOK
<1> HIDE DEF l, next
<1>4. loaded'[r] = l /\ pc'[r] = next
  BY <1>1 DEF TypeOK
<1>5. QED
  BY <1>1, <1>2, <1>3, <1>4 DEF l, next

\* Every step keeps the types.
LEMMA TypeStep ==
    ASSUME OfficeInv, [Next]_vars
    PROVE  TypeOK'
<1>1. TypeOK /\ \A r \in Req : ControlAt(r)
  BY DEF OfficeInv
<1>2. ASSUME NEW r \in Req, Close(r) PROVE TypeOK'
  <2>1. Nothing \in [Slot -> Row \cup {None}] /\ <<>> \in Seq(Figure)
    BY DEF Nothing
  <2>2. DOMAIN Unread = Figure /\ \A f \in Figure : Unread[f] = None
    BY DEF Unread
  <2>3. UNCHANGED rows /\ answer' = [answer EXCEPT ![r] = Unread]
    BY <1>2 DEF Close
  <2>4. /\ DOMAIN answer' = Req
        /\ \A o \in Req :
              /\ DOMAIN answer'[o] = Figure
              /\ \A f \in Figure : answer'[o][f] # None =>
                    \A x \in DOMAIN answer'[o][f] : x \in Id /\ rows'[x] # None
    BY <1>1, <2>2, <2>3 DEF TypeOK
  <2>5. QED
    BY <1>1, <1>2, <2>1, <2>4 DEF Close, TypeOK
<1>3. ASSUME NEW r \in Req, NEW q \in Workload, Receive(r, q) PROVE TypeOK'
  <2>1. q \in Call
    BY CallAssumption
  <2>2. First(q) \in Slot \cup {"write", "report"}
    BY <2>1, CallShape DEF First, Slot
  <2>3. (IF q.op = "report" THEN Figures[q.report] ELSE <<>>) \in Seq(Figure)
    <3>1. q.op = "report" => q.report \in Report
      BY <2>1, CallAssumption, CallShape
    <3>2. QED
      BY <3>1, FiguresOfReport
  <2>4. QED
    BY <1>1, <1>3, <2>1, <2>2, <2>3 DEF Receive, TypeOK
<1>4. ASSUME NEW r \in Req, ReadRow(r), ~Close(r) PROVE TypeOK'
  <2> DEFINE l == [loaded[r] EXCEPT ![pc[r]] = rows[Target(call[r], pc[r])]]
             next == Following(call[r], pc[r], l)
  <2>1. /\ l \in [Slot -> Row \cup {None}]
        /\ UNCHANGED <<rows, call, todo, held, answer, gone, touched>>
        /\ loaded' = [loaded EXCEPT ![r] = l]
        /\ pc' = [pc EXCEPT ![r] = next]
    BY <1>1, <1>4, ReadRowEffect DEF ReadRow
  <2>2. next \in Slot \cup {"report", "done", "holding", "write"}
    BY DEF Following, Slot
  <2> HIDE DEF l, next
  <2>3. QED
    BY <1>1, <2>1, <2>2 DEF TypeOK
<1>5. ASSUME NEW r \in Req, FindHolding(r), ~Close(r) PROVE TypeOK'
  <2>1. /\ UNCHANGED <<rows, call, todo, loaded, answer, gone, touched>>
        /\ pc' = [pc EXCEPT ![r] = "write"]
        /\ \/ UNCHANGED held
           \/ \E x \in Id : held' = [held EXCEPT ![r] = x]
    BY <1>5 DEF FindHolding, Holdings
  <2>2. held' \in [Req -> Id \cup {None}]
    <3>1. held \in [Req -> Id \cup {None}]
      BY <1>1 DEF TypeOK
    <3>2. CASE UNCHANGED held
      BY <3>1, <3>2
    <3>3. ASSUME NEW x \in Id, held' = [held EXCEPT ![r] = x]
          PROVE  held' \in [Req -> Id \cup {None}]
      BY <3>1, <3>3
    <3>4. QED
      BY <2>1, <3>2, <3>3
  <2>3. pc' \in [Req -> Slot \cup {"idle", "holding", "write", "report", "done"}]
    BY <1>1, <2>1 DEF TypeOK
  <2>4. QED
    BY <1>1, <2>1, <2>2, <2>3 DEF TypeOK
<1>6. ASSUME NEW r \in Req, Stores(r) PROVE TypeOK'
  <2>1. PICK new : Store(r, new)
    BY <1>6 DEF Stores, Write, WriteCompletion
  <2>2. rows' \in [Id -> Row \cup {None}]
    BY <1>6, StoreEffect
  <2>3. \A o \in Req :
           /\ DOMAIN answer'[o] = Figure
           /\ \A f \in Figure : answer'[o][f] # None =>
                 \A x \in DOMAIN answer'[o][f] : x \in Id /\ rows'[x] # None
    <3>1. answer' = answer
      BY <2>1 DEF Store
    <3>2. QED
      BY <1>1, <3>1, RowsStay DEF TypeOK
  <2>4. touched' \in [Req -> BOOLEAN]
    <3>1. touched' = [o \in Req |-> \/ touched[o]
                                    \/ \E x \in Id : /\ new[x] # rows[x]
                                                     /\ Concerns(o, new, x)]
      BY <2>1 DEF Store
    <3>2. ASSUME NEW o \in Req
          PROVE  (\/ touched[o]
                  \/ \E x \in Id : new[x] # rows[x] /\ Concerns(o, new, x))
                 \in BOOLEAN
      OBVIOUS
    <3>3. QED
      BY <3>1, <3>2, Zenon
  <2>5. Nothing \in [Slot -> Row \cup {None}]
    BY DEF Nothing
  <2>6. QED
    BY <1>1, <2>1, <2>2, <2>3, <2>4, <2>5 DEF Store, TypeOK
<1>7. ASSUME NEW r \in Req, ReadFigure(r) PROVE TypeOK'
  <2> DEFINE h == Head(todo[r])
  <2>1. todo[r] \in Seq(Figure) /\ todo[r] # <<>>
    BY <1>1, <1>7 DEF ReadFigure, ControlAt, TypeOK
  <2>2. h \in Figure /\ Tail(todo[r]) \in Seq(Figure)
    BY <2>1
  <2>3. answer' = [answer EXCEPT ![r][h] = Selection(call[r], h)]
        /\ UNCHANGED rows
    BY <1>7 DEF ReadFigure
  <2>4. \A x \in DOMAIN Selection(call[r], h) : x \in Id /\ rows[x] # None
    <3>1. \A a, c : \A x \in Selected(h, a, c) : x \in Id /\ rows[x] # None
      BY <2>2 DEF Selected, Counts, Active, Is, Figure
    <3>2. QED
      BY <3>1 DEF Selection
  <2> HIDE DEF h
  <2>5. /\ DOMAIN answer' = Req
        /\ \A o \in Req :
              /\ DOMAIN answer'[o] = Figure
              /\ \A f \in Figure : answer'[o][f] # None =>
                    \A x \in DOMAIN answer'[o][f] : x \in Id /\ rows'[x] # None
    BY <1>1, <2>2, <2>3, <2>4 DEF TypeOK
  <2>6. /\ todo' = [todo EXCEPT ![r] = Tail(todo[r])]
        /\ pc' = [pc EXCEPT ![r] =
                    IF Tail(todo[r]) = <<>> THEN "done" ELSE pc[r]]
        /\ UNCHANGED <<rows, call, loaded, held, gone, touched>>
    BY <1>1, <1>7 DEF ReadFigure, TypeOK
  <2>7. QED
    BY <1>1, <2>2, <2>5, <2>6 DEF TypeOK
<1>8. CASE UNCHANGED vars
  BY <1>1, <1>8 DEF vars, TypeOK
<1>9. QED
  BY <1>2, <1>3, <1>4, <1>5, <1>6, <1>7, <1>8, StepShape
     DEF Acts, Refuse, Fail

-----------------------------------------------------------------------------
(* What a request carries from one step to the next.                       *)

\* Another request leaves the control state.
LEMMA ControlFrame ==
    ASSUME NEW o \in Req, ControlAt(o), Unmoved(o)
    PROVE  ControlAt(o)'
BY DEF ControlAt, Unmoved, HasRead

\* A request that has been refused.
LEMMA ControlClosed ==
    ASSUME TypeOK, NEW r \in Req, Close(r)
    PROVE  ControlAt(r)'
<1>1. pc'[r] = "done" /\ answer'[r] = Unread
  BY DEF Close, TypeOK
<1>2. \A f \in Figure : answer'[r][f] = None
  BY <1>1 DEF Unread
<1>3. QED
  BY <1>1, <1>2 DEF ControlAt

\* A request that has just come.
LEMMA ControlReceived ==
    ASSUME TypeOK, NEW r \in Req, ControlAt(r), NEW q \in Workload, Receive(r, q)
    PROVE  ControlAt(r)'
<1>1. /\ pc[r] = "idle" /\ call'[r] = q /\ pc'[r] = First(q)
      /\ todo'[r] = IF q.op = "report" THEN Figures[q.report] ELSE <<>>
      /\ loaded'[r] = Nothing /\ MayCall(q)
      /\ \A f \in Figure : answer'[r][f] = None
  BY DEF Receive, TypeOK, ControlAt
<1>2. q \in Call /\ q # None
  BY CallAssumption, NoneIsApart
<1>3. q.op \in {"create", "get", "update", "report"}
  BY <1>2, CallShape
<1>4. CASE q.op \in {"get", "update"}
  <2>1. pc'[r] = "self"
    BY <1>1, <1>4 DEF First
  <2>2. QED
    BY <1>1, <1>4, <2>1 DEF ControlAt
<1>5. CASE q.op = "report"
  <2>1. pc'[r] = IF q.row.customer # None THEN "customer" ELSE "report"
    BY <1>1, <1>5 DEF First
  <2>2. todo'[r] # <<>>
    <3>1. q.report \in Report
      BY <1>2, <1>5, CallAssumption, CallShape
    <3>2. QED
      BY <1>1, <1>5, <3>1, FiguresOfReport
  <2>3. QED
    BY <1>1, <1>5, <2>1, <2>2 DEF ControlAt
<1>6. CASE q.op = "create" /\ q.row.table \notin {"customers", "schemes"}
  <2>1. pc'[r] = "customer"
    BY <1>1, <1>6 DEF First
  <2>2. QED
    BY <1>1, <1>6, <2>1 DEF ControlAt
<1>7. CASE q.op = "create" /\ q.row.table \in {"customers", "schemes"}
  <2>1. pc'[r] = "write"
    BY <1>1, <1>7 DEF First
  <2>2. Needed(q) = {}
    BY <1>7 DEF Needed
  <2>3. Nothing["customer"] = None /\ Nothing["folio"] = None
        /\ Nothing["sip"] = None
    BY DEF Nothing, Slot
  <2>4. Fits(q, Nothing)
    <3>1. Owner(q, Nothing) = IF q.by # None THEN q.by ELSE q.row.advisor
      BY <2>3 DEF Owner
    <3>2. OwnerAdmits(q, Nothing)
      <4>1. q.row.table = "schemes" => q.by = None
        BY <1>1, <1>7 DEF MayCall
      <4>2. QED
        BY <1>7, <3>1, <4>1 DEF OwnerAdmits
    <3>3. QED
      BY <2>3, <3>2 DEF Fits
  <2>5. HasRead(r, Needed(q))'
    BY <2>2 DEF HasRead
  <2>6. QED
    BY <1>1, <1>7, <2>1, <2>4, <2>5 DEF ControlAt, HasRead
<1>8. QED
  BY <1>3, <1>4, <1>5, <1>6, <1>7

\* A request that has read a row.
LEMMA ControlRead ==
    ASSUME TypeOK, NEW r \in Req, ControlAt(r), ReadRow(r), ~Close(r)
    PROVE  ControlAt(r)'
<1> DEFINE q == call[r]
           p == pc[r]
           l == [loaded[r] EXCEPT ![p] = rows[Target(q, p)]]
           next == Following(q, p, l)
<1>1. /\ p \in Slot
      /\ next \notin Slot => Admits(q, l)
      /\ loaded'[r] = l /\ pc'[r] = next
      /\ l \in [Slot -> Row \cup {None}]
      /\ l[p] # None
      /\ call' = call /\ todo' = todo /\ answer' = answer
  BY ReadRowEffect
<1>2. /\ p \notin {"idle", "done", "report", "holding", "write"}
      /\ \A s \in Slot : loaded[r][s] # None => l[s] # None
  BY <1>1 DEF Slot, TypeOK
<1>3. /\ q \in Workload /\ q \in Call /\ MayCall(q)
      /\ \A f \in Figure : answer[r][f] # None => call[r].op = "report"
      /\ call[r] # None
  BY <1>2, CallAtWork, NoneIsApart DEF ControlAt
<1> HIDE DEF l
<1>4. CASE q.op = "report"
  <2>1. p = "customer" /\ next = "report"
    BY <1>1, <1>4 DEF ControlAt, Slot, Following
  <2>2. todo[r] # <<>>
    BY <1>2, <1>4 DEF ControlAt
  <2>3. QED
    BY <1>1, <1>2, <1>3, <1>4, <2>1, <2>2 DEF ControlAt, HasRead, Slot
<1>5. CASE q.op = "get"
  <2>1. p = "self" /\ next = "done"
    BY <1>1, <1>5 DEF ControlAt, Slot, Following
  <2>2. QED
    BY <1>1, <1>3, <1>5, <2>1 DEF ControlAt
<1>6. CASE q.op = "update"
  <2>1. p = "self" /\ next \in {"holding", "write"}
    BY <1>1, <1>6 DEF ControlAt, Slot, Following
  <2>2. QED
    BY <1>1, <1>3, <1>6, <2>1 DEF ControlAt, HasRead
<1>7. CASE q.op = "create"
  <2>1. p \in {"customer", "folio", "scheme", "sip"}
    BY <1>1, <1>7 DEF ControlAt, Slot
  <2>2. ASSUME next \in {"holding", "write"},
               \A s \in Needed(q) : l[s] # None
        PROVE  ControlAt(r)'
    <3>1. Fits(q, l)
      BY <1>1, <1>7, <2>2 DEF Admits, Slot
    <3>2. QED
      BY <1>1, <1>3, <1>7, <2>2, <3>1 DEF ControlAt, HasRead
  <2>3. CASE p = "customer"
    <3>1. q.row.table \notin {"customers", "schemes"}
      BY <1>7, <2>3 DEF ControlAt
    <3>2. CASE q.row.table = "folios"
      <4>1. next = "write"
        BY <1>7, <2>3, <3>2
           DEF Following, Completes, CreatesHolding
      <4>2. Needed(q) = {"customer"}
        BY <3>2 DEF Needed
      <4>3. QED
        BY <1>1, <2>2, <2>3, <4>1, <4>2
    <3>3. CASE q.row.table # "folios"
      <4>1. next = "folio"
        BY <1>7, <2>3, <3>3 DEF Following
      <4>2. QED
        BY <1>1, <1>3, <1>7, <2>3, <3>1, <3>3, <4>1 DEF ControlAt, HasRead
    <3>4. QED
      BY <3>2, <3>3
  <2>4. CASE p # "customer"
    <3>1. q.row.table \notin {"customers", "schemes", "folios"}
      BY <2>1, <2>4 DEF ControlAt
    <3>2. l["customer"] # None
      BY <1>2, <2>1, <2>4 DEF ControlAt, HasRead, Slot
    <3>3. CASE p = "folio"
      <4>1. next = "scheme"
        BY <1>7, <3>3 DEF Following
      <4>2. QED
        BY <1>1, <1>3, <1>7, <3>1, <3>2, <3>3, <4>1 DEF ControlAt, HasRead
    <3>4. CASE p = "scheme"
      <4>1. l["folio"] # None /\ l["scheme"] # None
        BY <1>1, <1>2, <3>4 DEF ControlAt, HasRead, Slot
      <4>2. CASE q.row.type = "SIP_INSTALLMENT"
        <5>1. next = "sip"
          BY <1>7, <3>4, <4>2 DEF Following
        <5>2. QED
          BY <1>1, <1>3, <1>7, <3>1, <3>2, <4>1, <5>1 DEF ControlAt, HasRead
      <4>3. CASE q.row.type # "SIP_INSTALLMENT"
        <5>1. next \in {"holding", "write"}
          BY <1>7, <3>4, <4>3 DEF Following
        <5>2. Needed(q) \subseteq {"customer", "folio", "scheme"}
          BY <3>1, <4>3 DEF Needed
        <5>3. QED
          BY <2>2, <3>2, <4>1, <5>1, <5>2
      <4>4. QED
        BY <4>2, <4>3
    <3>5. CASE p = "sip"
      <4>1. l["folio"] # None /\ l["scheme"] # None /\ l["sip"] # None
        BY <1>1, <1>2, <3>5 DEF ControlAt, HasRead, Slot
      <4>2. next \in {"holding", "write"}
        BY <1>7, <3>5 DEF Following
      <4>3. Needed(q) \subseteq {"customer", "folio", "scheme", "sip"}
        BY <3>1 DEF Needed
      <4>4. QED
        BY <2>2, <3>2, <4>1, <4>2, <4>3
    <3>6. QED
      BY <2>1, <2>4, <3>3, <3>4, <3>5
  <2>5. QED
    BY <2>3, <2>4
<1>8. QED
  BY <1>3, <1>4, <1>5, <1>6, <1>7, CallShape

\* Every step keeps the control state.
LEMMA ControlStep ==
    ASSUME OfficeInv, [Next]_vars
    PROVE  \A r \in Req : ControlAt(r)'
<1>1. TypeOK /\ \A r \in Req : ControlAt(r)
  BY DEF OfficeInv
<1>2. ASSUME NEW r \in Req, FindHolding(r), ~Close(r) PROVE ControlAt(r)'
  <2>1. /\ pc[r] = "holding" /\ pc'[r] = "write"
        /\ UNCHANGED <<call, todo, loaded, answer>>
    BY <1>1, <1>2 DEF FindHolding, TypeOK
  <2>2. QED
    BY <1>1, <2>1 DEF ControlAt, HasRead
<1>3. ASSUME NEW r \in Req, Stores(r) PROVE ControlAt(r)'
  <2>1. pc[r] = "write" /\ pc'[r] = "done" /\ UNCHANGED <<call, answer>>
    BY <1>1, <1>3 DEF Stores, Write, WriteCompletion, Store, TypeOK
  <2>2. QED
    BY <1>1, <2>1 DEF ControlAt
<1>4. ASSUME NEW r \in Req, ReadFigure(r) PROVE ControlAt(r)'
  <2>1. /\ pc[r] = "report" /\ todo'[r] = Tail(todo[r])
        /\ pc'[r] = IF Tail(todo[r]) = <<>> THEN "done" ELSE "report"
        /\ UNCHANGED <<call, loaded>>
    BY <1>1, <1>4 DEF ReadFigure, TypeOK
  <2>2. call[r].op = "report" /\ call[r] \in Workload /\ call[r] # None
    BY <1>1, <2>1, CallAtWork, NoneIsApart DEF ControlAt
  <2>3. QED
    BY <1>1, <2>1, <2>2 DEF ControlAt, HasRead
<1>5. ASSUME NEW r \in Req, Acts(r) PROVE ControlAt(r)'
  BY <1>1, <1>2, <1>3, <1>4, <1>5, ControlClosed, ControlReceived, ControlRead
     DEF Acts, Refuse, Fail
<1>6. CASE UNCHANGED vars
  <2>1. \A o \in Req : Unmoved(o)
    BY <1>6 DEF vars, Unmoved
  <2>2. QED
    BY <1>1, <2>1, ControlFrame
<1>7. QED
  BY <1>1, <1>5, <1>6, StepShape, OthersUnmoved, ControlFrame

\* Rows that are read stay what they were read for, whoever deletes them.
LEMMA LoadedStep ==
    ASSUME OfficeInv, [Next]_vars
    PROVE  \A r \in Req : LoadedAt(r)'
<1>1. TypeOK /\ \A r \in Req : LoadedAt(r) /\ ControlAt(r)
  BY DEF OfficeInv
<1>2. ASSUME NEW o \in Req, loaded'[o] = loaded[o], held'[o] = held[o],
             gone'[o] = gone[o], call'[o] = call[o]
      PROVE  LoadedAt(o)'
  <2>1. ASSUME NEW p \in Slot, loaded[o][p] # None
        PROVE  /\ call[o] # None
               /\ Target(call[o], p) \in Id \ gone[o]
               /\ Is(Target(call[o], p), TableOf(call[o], p))'
               /\ SamePlace(rows'[Target(call[o], p)], loaded[o][p])
    <3>1. /\ call[o] # None
          /\ Target(call[o], p) \in Id \ gone[o]
          /\ Is(Target(call[o], p), TableOf(call[o], p))
          /\ SamePlace(rows[Target(call[o], p)], loaded[o][p])
      BY <1>1, <2>1 DEF LoadedAt
    <3>2. /\ rows'[Target(call[o], p)] # None
          /\ SamePlace(rows'[Target(call[o], p)], rows[Target(call[o], p)])
      BY <3>1, RowsStay DEF Is
    <3>3. QED
      BY <1>2, <3>1, <3>2 DEF Is, SamePlace
  <2>2. held[o] # None => rows'[held[o]] # None
    BY <1>1, RowsStay DEF LoadedAt, TypeOK
  <2>3. \A x \in gone[o] : rows'[x] # None /\ ~rows'[x].is_active
    BY <1>1, RowsStay DEF LoadedAt, TypeOK
  <2>4. QED
    BY <1>2, <2>1, <2>2, <2>3 DEF LoadedAt, Is
<1>3. ASSUME NEW r \in Req, loaded'[r] = Nothing, held'[r] = None,
             gone'[r] = gone[r]
      PROVE  LoadedAt(r)'
  <2>1. \A x \in gone[r] : rows'[x] # None /\ ~rows'[x].is_active
    BY <1>1, RowsStay DEF LoadedAt, TypeOK
  <2>2. QED
    BY <1>3, <2>1 DEF LoadedAt, Nothing
<1>4. ASSUME NEW r \in Req, NEW q \in Workload, Receive(r, q)
      PROVE  LoadedAt(r)'
  <2>1. /\ loaded'[r] = Nothing /\ held'[r] = held[r] /\ rows' = rows
        /\ gone'[r] = {x \in Id : rows[x] # None /\ ~rows[x].is_active}
    BY <1>1, <1>4 DEF Receive, ControlAt, TypeOK
  <2>2. QED
    BY <1>1, <2>1 DEF LoadedAt, Nothing
<1>5. ASSUME NEW r \in Req, ReadRow(r), ~Close(r) PROVE LoadedAt(r)'
  <2> DEFINE t == Target(call[r], pc[r])
  <2>1. /\ pc[r] \in Slot /\ t \in Id
        /\ Active(t, TableOf(call[r], pc[r]))
        /\ loaded'[r] = [loaded[r] EXCEPT ![pc[r]] = rows[t]]
        /\ UNCHANGED <<rows, call, held, gone>>
    BY <1>1, <1>5, ReadRowEffect
  <2>2. call[r] # None
    BY <1>1, <2>1, CallAtWork, NoneIsApart DEF Slot
  <2>3. t \notin gone[r]
    BY <1>1, <2>1 DEF LoadedAt, Active
  <2>4. ASSUME NEW p \in Slot, loaded'[r][p] # None
        PROVE  /\ Target(call[r], p) \in Id \ gone[r]
               /\ Is(Target(call[r], p), TableOf(call[r], p))
               /\ SamePlace(rows[Target(call[r], p)], loaded'[r][p])
    <3>1. CASE p = pc[r]
      <4>1. loaded'[r][p] = rows[t]
        BY <1>1, <2>1, <3>1 DEF TypeOK
      <4>2. QED
        BY <2>1, <2>3, <3>1, <4>1 DEF Active, SamePlace
    <3>2. CASE p # pc[r]
      <4>1. loaded'[r][p] = loaded[r][p]
        BY <1>1, <2>1, <3>2 DEF TypeOK
      <4>2. QED
        BY <1>1, <2>4, <4>1 DEF LoadedAt
    <3>3. QED
      BY <3>1, <3>2
  <2> HIDE DEF t
  <2>5. QED
    BY <1>1, <2>1, <2>2, <2>4 DEF LoadedAt, Is
<1>6. ASSUME NEW r \in Req, FindHolding(r), ~Close(r) PROVE LoadedAt(r)'
  <2>1. /\ UNCHANGED <<rows, call, loaded, gone>>
        /\ held'[r] # None => held'[r] = held[r] \/ rows[held'[r]] # None
    BY <1>1, <1>6 DEF FindHolding, Holdings, Active, Is, TypeOK
  <2>2. QED
    BY <1>1, <2>1 DEF LoadedAt, Is
<1>7. ASSUME NEW r \in Req, Acts(r) PROVE LoadedAt(r)'
  <2>1. CASE Close(r) \/ Stores(r)
    <3>1. loaded'[r] = Nothing /\ held'[r] = None /\ gone'[r] = gone[r]
      BY <1>1, <2>1 DEF Close, Stores, Write, WriteCompletion, Store, TypeOK
    <3>2. QED
      BY <1>3, <3>1
  <2>2. CASE ReadFigure(r)
    BY <1>2, <2>2 DEF ReadFigure
  <2>3. QED
    BY <1>4, <1>5, <1>6, <1>7, <2>1, <2>2 DEF Acts, Refuse, Fail
<1>8. CASE UNCHANGED vars
  BY <1>2, <1>8 DEF vars
<1>9. QED
  BY <1>1, <1>2, <1>7, <1>8, StepShape, OthersUnmoved DEF Unmoved

\* A row that is new was stored by the request whose uuid it has.
LEMMA NewRowIsOwn ==
    ASSUME OfficeInv, [Next]_vars, NEW x \in Id, rows[x] = None,
           rows'[x] # None
    PROVE  \E r \in Req :
             /\ Stores(r) /\ pc[r] = "write"
             /\ \/ /\ x = OwnId(r) /\ call[r].op = "create"
                   /\ rows'[x] = NewRow(r)
                \/ /\ x = BookedId(r) /\ Completes(call[r], loaded[r])
                   /\ \E v \in Amount : rows'[x] = BookedHolding(r, v)
             /\ call[r].op = "create" => rows'[OwnId(r)] = NewRow(r)
             /\ SipExists(call[r])
<1>1. PICK r \in Req : Stores(r)
  BY RowsChangeByStores
<1>2. QED
  BY <1>1, StoreEffect

\* Every step keeps the uuids of requests free until they have written.
LEMMA FreshStep ==
    ASSUME OfficeInv, [Next]_vars
    PROVE  \A r \in Req : FreshAt(r)'
<1>1. TypeOK /\ \A r \in Req : FreshAt(r)
  BY DEF OfficeInv
<1>2. SUFFICES ASSUME NEW o \in Req, pc'[o] # "done"
               PROVE  rows'[OwnId(o)] = None /\ rows'[BookedId(o)] = None
  BY DEF FreshAt
<1>3. pc[o] # "done"
  <2>1. ASSUME Acts(o) PROVE pc[o] # "done"
    BY <2>1, <1>2 DEF Acts, Receive, Refuse, ReadRow, FindHolding, Stores,
                      Write, WriteCompletion, ReadFigure, Fail, Slot
  <2>2. CASE UNCHANGED vars
    BY <1>2, <2>2 DEF vars
  <2>3. QED
    BY <1>1, <1>2, <2>1, <2>2, StepShape, OthersUnmoved DEF Unmoved
<1>4. rows[OwnId(o)] = None /\ rows[BookedId(o)] = None
  BY <1>1, <1>3 DEF FreshAt
<1>5. ASSUME NEW r \in Req, Stores(r) PROVE r # o
  <2>1. pc'[r] = "done"
    BY <1>1, <1>5 DEF Stores, Write, WriteCompletion, Store, TypeOK
  <2>2. QED
    BY <1>2, <2>1
<1>6. QED
  BY <1>4, <1>5, NewRowIsOwn, NewIds

-----------------------------------------------------------------------------
(* Ownership.                                                              *)

\* Row w goes together with its parents in table t.
Placed(t, w) ==
    /\ w.customer = None <=> w.table = "schemes"
    /\ w.customer # None => /\ t[w.customer] # None
                            /\ t[w.customer].table = "customers"
                            /\ t[w.customer].advisor = w.advisor
                            /\ w.advisor # None
    /\ w.folio # None => /\ t[w.folio] # None
                         /\ t[w.folio].table = "folios"
                         /\ t[w.folio].customer = w.customer
    /\ w.sip # None => t[w.sip] # None /\ t[w.sip].table = "sips"
    /\ w.type = "SIP_INSTALLMENT" => /\ w.sip # None
                                     /\ t[w.sip].customer = w.customer
                                     /\ t[w.sip].folio = w.folio
                                     /\ t[w.sip].scheme = w.scheme

LEMMA AgreeingRows ==
    ASSUME NEW t
    PROVE  Agreeing(t) <=> \A x \in Id : t[x] # None => Placed(t, t[x])
BY DEF Agreeing, Placed

LEMMA PlacedSame ==
    ASSUME NEW t, NEW u, NEW v, Placed(t, u), SamePlace(v, u)
    PROVE  Placed(t, v)
BY DEF Placed, SamePlace

\* Parents stay where they are.
LEMMA PlacedStays ==
    ASSUME OfficeInv, [Next]_vars, NEW w \in Row, Placed(rows, w)
    PROVE  Placed(rows', w)
<1>1. /\ w.customer # None => w.customer \in Id
      /\ w.folio # None => w.folio \in Id
      /\ w.sip # None => w.sip \in Id
  BY RowShape
<1>2. \A x \in Id : rows[x] # None =>
         rows'[x] # None /\ SamePlace(rows'[x], rows[x])
  BY RowsStay
<1>3. QED
  BY <1>1, <1>2 DEF Placed, SamePlace

\* A row that a session has read for a slot.
LEMMA ReadParent ==
    ASSUME OfficeInv, NEW r \in Req, NEW p \in Slot, loaded[r][p] # None
    PROVE  /\ Target(call[r], p) \in Id \ gone[r]
           /\ rows[Target(call[r], p)] # None
           /\ rows[Target(call[r], p)].table = TableOf(call[r], p)
           /\ SamePlace(rows[Target(call[r], p)], loaded[r][p])
           /\ loaded[r][p] \in Row
           /\ Placed(rows, loaded[r][p])
<1>1. /\ Target(call[r], p) \in Id \ gone[r]
      /\ rows[Target(call[r], p)] # None
      /\ rows[Target(call[r], p)].table = TableOf(call[r], p)
      /\ SamePlace(rows[Target(call[r], p)], loaded[r][p])
  BY DEF OfficeInv, LoadedAt, Is
<1>2. loaded[r][p] \in Row
  BY DEF OfficeInv, TypeOK
<1>3. Placed(rows, rows[Target(call[r], p)])
  BY <1>1, AgreeingRows DEF OfficeInv, OwnershipAgrees
<1>4. SamePlace(loaded[r][p], rows[Target(call[r], p)])
  BY <1>1 DEF SamePlace
<1>5. QED
  BY <1>1, <1>2, <1>3, <1>4, PlacedSame

\* What a creation stores goes together with what it has read.
LEMMA NewRowPlaced ==
    ASSUME OfficeInv, [Next]_vars, NEW r \in Req, pc[r] = "write",
           call[r].op = "create", rows'[OwnId(r)] = NewRow(r),
           SipExists(call[r])
    PROVE  Placed(rows', NewRow(r))
<1> DEFINE q == call[r]
           l == loaded[r]
           w == NewRow(r)
<1>1. /\ TypeOK /\ q \in Call /\ q \in Workload /\ MayCall(q)
      /\ HasRead(r, Needed(q)) /\ Fits(q, l)
      /\ w \in Row
  BY WriterHasRead, NewRowType, CallAtWork DEF OfficeInv
<1>2. /\ w.table = q.row.table /\ w.advisor = Owner(q, l)
      /\ w.customer = IF q.row.table = "customers" THEN OwnId(r)
                      ELSE q.row.customer
      /\ w.folio = q.row.folio /\ w.scheme = q.row.scheme
      /\ w.sip = q.row.sip /\ w.type = q.row.type
  BY <1>1, NewRowType
<1>3. /\ {"customer", "folio", "scheme", "sip"} \subseteq Slot
      /\ Target(q, "customer") = q.row.customer
      /\ TableOf(q, "customer") = "customers"
      /\ Target(q, "folio") = q.row.folio /\ TableOf(q, "folio") = "folios"
      /\ Target(q, "sip") = q.row.sip /\ TableOf(q, "sip") = "sips"
  BY DEF Slot, Target, TableOf
<1>4. /\ l["customer"] # None
         => /\ q.row.customer \in Id /\ rows[q.row.customer] # None
            /\ rows[q.row.customer].table = "customers"
            /\ rows[q.row.customer].advisor = l["customer"].advisor
            /\ l["customer"].advisor # None
      /\ l["folio"] # None
         => /\ q.row.folio \in Id /\ rows[q.row.folio] # None
            /\ rows[q.row.folio].table = "folios"
            /\ rows[q.row.folio].customer = l["folio"].customer
      /\ l["sip"] # None
         => /\ q.row.sip \in Id /\ rows[q.row.sip] # None
            /\ rows[q.row.sip].table = "sips"
            /\ SamePlace(rows[q.row.sip], l["sip"])
  <2>1. ASSUME l["customer"] # None
        PROVE  /\ q.row.customer \in Id /\ rows[q.row.customer] # None
               /\ rows[q.row.customer].table = "customers"
               /\ rows[q.row.customer].advisor = l["customer"].advisor
               /\ l["customer"].advisor # None
    <3>1. /\ q.row.customer \in Id /\ rows[q.row.customer] # None
          /\ rows[q.row.customer].table = "customers"
          /\ SamePlace(rows[q.row.customer], l["customer"])
          /\ Placed(rows, l["customer"])
      BY <1>3, <2>1, ReadParent
    <3>2. QED
      BY <3>1 DEF SamePlace, Placed
  <2>2. ASSUME l["folio"] # None
        PROVE  /\ q.row.folio \in Id /\ rows[q.row.folio] # None
               /\ rows[q.row.folio].table = "folios"
               /\ rows[q.row.folio].customer = l["folio"].customer
    BY <1>3, <2>2, ReadParent DEF SamePlace
  <2>3. ASSUME l["sip"] # None
        PROVE  /\ q.row.sip \in Id /\ rows[q.row.sip] # None
               /\ rows[q.row.sip].table = "sips"
               /\ SamePlace(rows[q.row.sip], l["sip"])
    BY <1>3, <2>3, ReadParent
  <2>4. QED
    BY <2>1, <2>2, <2>3
<1>5. CASE q.row.table = "customers"
  <2>1. q.row.folio = None /\ q.row.sip = None /\ q.row.type = None
    BY <1>1, <1>5, CallAssumption
  <2>2. l["folio"] = None
    BY <1>4, <2>1, NoneIsApart
  <2>3. w.advisor # None
    <3>1. q.by = None => q.row.advisor # None
      BY <1>1, <1>5 DEF MayCall
    <3>2. QED
      BY <1>2, <1>4, <2>2, <3>1 DEF Owner
  <2>4. OwnId(r) \in Id /\ OwnId(r) # None
    BY NewIds, NoneIsApart
  <2>5. w # None
    BY <1>1, NoneIsApart
  <2> HIDE DEF w
  <2>6. rows'[OwnId(r)] = w
    BY DEF w
  <2>7. Placed(rows', w)
    BY <1>2, <1>5, <2>1, <2>3, <2>4, <2>5, <2>6, NoneIsApart DEF Placed
  <2>8. QED
    BY <2>7 DEF w
<1>6. CASE q.row.table = "schemes"
  <2>1. /\ q.row.customer = None /\ q.row.folio = None
        /\ q.row.sip = None /\ q.row.type = None
    BY <1>1, <1>6, CallAssumption
  <2>2. QED
    BY <1>2, <1>6, <2>1, NoneIsApart DEF Placed
<1>7. CASE q.row.table = "folios"
  <2>1. q.row.folio = None /\ q.row.sip = None /\ q.row.type = None
    BY <1>1, <1>7, CallAssumption
  <2>2. l["folio"] = None /\ l["customer"] # None
    BY <1>1, <1>4, <1>7, <2>1, NoneIsApart DEF HasRead, Needed
  <2>3. w.advisor = l["customer"].advisor
    BY <1>2, <2>2 DEF Owner
  <2>4. q.row.customer # None
    BY <1>4, <2>2, NoneIsApart
  <2>5. Placed(rows, w)
    BY <1>2, <1>4, <1>7, <2>1, <2>2, <2>3, <2>4, NoneIsApart
       DEF Placed
  <2>6. QED
    BY <1>1, <2>5, PlacedStays
<1>8. CASE q.row.table \notin {"customers", "schemes", "folios"}
  <2>1. /\ l["customer"] # None /\ l["folio"] # None
        /\ q.row.type = "SIP_INSTALLMENT" => l["sip"] # None
    BY <1>1, <1>8 DEF HasRead, Needed
  <2>2. /\ l["folio"].customer = q.row.customer
        /\ l["folio"].advisor = l["customer"].advisor
        /\ l["sip"] # None => /\ l["sip"].customer = q.row.customer
                              /\ l["sip"].folio = q.row.folio
                              /\ l["sip"].scheme = q.row.scheme
    BY <1>1, <2>1 DEF Fits
  <2>3. w.advisor = l["customer"].advisor
    BY <1>2, <2>1, <2>2 DEF Owner
  <2>4. q.row.customer # None
    BY <1>4, <2>1, NoneIsApart
  <2>5. Placed(rows, w)
    <3>1. /\ w.customer # None => /\ rows[w.customer] # None
                                  /\ rows[w.customer].table = "customers"
                                  /\ rows[w.customer].advisor = w.advisor
                                  /\ w.advisor # None
          /\ w.customer # None /\ w.table # "schemes"
          /\ rows[w.folio] # None /\ rows[w.folio].table = "folios"
          /\ rows[w.folio].customer = w.customer
      BY <1>2, <1>4, <1>8, <2>1, <2>2, <2>3, <2>4
    <3>2. w.sip # None => rows[w.sip] # None /\ rows[w.sip].table = "sips"
      BY <1>2 DEF SipExists, Is
    <3>3. w.type = "SIP_INSTALLMENT" => /\ w.sip # None
                                       /\ rows[w.sip].customer = w.customer
                                       /\ rows[w.sip].folio = w.folio
                                       /\ rows[w.sip].scheme = w.scheme
      BY <1>2, <1>4, <1>8, <2>1, <2>2, NoneIsApart DEF SamePlace
    <3> HIDE DEF w
    <3>4. QED
      BY <3>1, <3>2, <3>3 DEF Placed
  <2>6. QED
    BY <1>1, <2>5, PlacedStays
<1>9. QED
  BY <1>5, <1>6, <1>7, <1>8

\* So does the holding that a completion stores.
LEMMA BookedPlaced ==
    ASSUME OfficeInv, [Next]_vars, NEW r \in Req, pc[r] = "write",
           call[r].op = "create" => rows'[OwnId(r)] = NewRow(r),
           SipExists(call[r]), Completes(call[r], loaded[r]), NEW v \in Amount
    PROVE  Placed(rows', BookedHolding(r, v))
<1> DEFINE t == IF call[r].op = "create" THEN NewRow(r) ELSE loaded[r]["self"]
<1>1. /\ TypeOK /\ call[r] \in Call /\ call[r].op \in {"create", "update"}
      /\ call[r].op = "update" => loaded[r]["self"] # None
  BY WriterHasRead DEF OfficeInv
<1>2. t \in Row /\ t.table = "transactions" /\ Placed(rows', t)
  <2>1. call[r].row.table = "transactions"
    BY DEF Completes
  <2>2. CASE call[r].op = "create"
    <3>1. NewRow(r) \in Row /\ NewRow(r).table = "transactions"
      BY <1>1, <2>1, NewRowType
    <3>2. QED
      BY <2>2, <3>1, NewRowPlaced
  <2>3. CASE call[r].op = "update"
    <3>1. "self" \in Slot /\ TableOf(call[r], "self") = call[r].row.table
      BY DEF Slot, TableOf
    <3>2. /\ loaded[r]["self"] \in Row /\ Placed(rows, loaded[r]["self"])
          /\ loaded[r]["self"].table = "transactions"
      BY <1>1, <2>1, <2>3, <3>1, ReadParent DEF SamePlace
    <3>3. QED
      BY <2>3, <3>2, PlacedStays
  <2>4. QED
    BY <1>1, <2>2, <2>3
<1>3. /\ BookedHolding(r, v).table = "holdings"
      /\ BookedHolding(r, v).advisor = t.advisor
      /\ BookedHolding(r, v).customer = t.customer
      /\ BookedHolding(r, v).folio = t.folio
      /\ BookedHolding(r, v).sip = None
      /\ BookedHolding(r, v).type = None
  BY <1>1, BookedType
<1> HIDE DEF t
<1>4. QED
  BY <1>2, <1>3, NoneIsApart DEF Placed, Type

\* Every step keeps copies of ownership in agreement.
LEMMA AgreesStep ==
    ASSUME OfficeInv, [Next]_vars
    PROVE  OwnershipAgrees'
<1>1. ASSUME NEW x \in Id, rows'[x] # None PROVE Placed(rows', rows'[x])
  <2>1. CASE rows[x] # None
    <3>1. rows[x] \in Row /\ Placed(rows, rows[x])
      BY <2>1, AgreeingRows DEF OfficeInv, OwnershipAgrees, TypeOK
    <3>2. Placed(rows', rows[x])
      BY <3>1, PlacedStays
    <3>3. SamePlace(rows'[x], rows[x])
      BY <2>1, RowsStay
    <3>4. QED
      BY <3>2, <3>3, PlacedSame
  <2>2. CASE rows[x] = None
    BY <1>1, <2>2, NewRowIsOwn, NewRowPlaced, BookedPlaced
  <2>3. QED
    BY <2>1, <2>2
<1>2. QED
  BY <1>1, AgreeingRows DEF OwnershipAgrees

\* Every step keeps deleted parents from new rows.
LEMMA ParentsStep ==
    ASSUME OfficeInv, [Next]_vars
    PROVE  ParentsStoodAtStart'
<1>1. /\ TypeOK /\ ParentsStoodAtStart
      /\ \A r \in Req : LoadedAt(r) /\ FreshAt(r) /\ ControlAt(r)
  BY DEF OfficeInv
<1>2. ASSUME NEW o \in Req, rows'[OwnId(o)] # None
      PROVE  gone'[o] = gone[o]
  <2>1. ASSUME NEW q \in Workload, Receive(o, q) PROVE FALSE
    <3>1. rows' = rows /\ pc[o] = "idle"
      BY <2>1 DEF Receive
    <3>2. QED
      BY <1>1, <1>2, <3>1 DEF FreshAt
  <2>2. CASE Acts(o)
    BY <2>1, <2>2
       DEF Acts, Refuse, ReadRow, FindHolding, Stores, Write, WriteCompletion,
           Store, ReadFigure, Fail, Close
  <2>3. CASE UNCHANGED vars
    BY <2>3 DEF vars
  <2>4. QED
    BY <1>1, <2>2, <2>3, StepShape, OthersUnmoved DEF Unmoved
<1>3. ASSUME NEW o \in Req, rows'[OwnId(o)] # None,
             NEW w, w = rows'[OwnId(o)]
      PROVE  /\ {w.customer, w.folio, w.scheme} \cap gone[o] = {}
             /\ w.type = "SIP_INSTALLMENT" => w.sip \notin gone[o]
  <2>1. OwnId(o) \in Id
    BY NewIds
  <2>2. CASE rows[OwnId(o)] # None
    <3>1. SamePlace(w, rows[OwnId(o)])
      BY <1>3, <2>1, <2>2, RowsStay
    <3>2. QED
      BY <1>1, <2>2, <3>1 DEF ParentsStoodAtStart, SamePlace
  <2>3. CASE rows[OwnId(o)] = None
    <3>1. /\ Stores(o) /\ pc[o] = "write" /\ call[o].op = "create"
          /\ w = NewRow(o)
      BY <1>3, <2>1, <2>3, NewRowIsOwn, NewIds
    <3>2. /\ call[o] \in Call /\ call[o] \in Workload
          /\ HasRead(o, Needed(call[o]))
      BY <1>1, <3>1, WriterHasRead, CallAtWork
    <3>3. /\ w.customer = IF call[o].row.table = "customers" THEN OwnId(o)
                          ELSE call[o].row.customer
          /\ w.folio = call[o].row.folio
          /\ w.scheme = call[o].row.scheme
          /\ w.sip = call[o].row.sip /\ w.type = call[o].row.type
      BY <1>1, <3>1, <3>2, NewRowType
    <3>4. None \notin gone[o] /\ OwnId(o) \notin gone[o]
      BY <1>1, <2>3, NoneIsApart DEF LoadedAt, TypeOK
    <3>5. \A p \in Slot : loaded[o][p] # None
                          => Target(call[o], p) \notin gone[o]
      BY <1>1 DEF LoadedAt
    <3>6. /\ {"customer", "folio", "scheme", "sip"} \subseteq Slot
          /\ Target(call[o], "customer") = call[o].row.customer
          /\ Target(call[o], "folio") = call[o].row.folio
          /\ Target(call[o], "scheme") = call[o].row.scheme
          /\ Target(call[o], "sip") = call[o].row.sip
      BY DEF Slot, Target
    <3>7. CASE call[o].row.table \in {"customers", "schemes"}
      <4>1. /\ call[o].row.folio = None /\ call[o].row.scheme = None
            /\ call[o].row.sip = None /\ call[o].row.type = None
            /\ call[o].row.table = "schemes" => call[o].row.customer = None
        BY <3>1, <3>2, <3>7, CallAssumption
      <4>2. QED
        BY <3>3, <3>4, <3>7, <4>1
    <3>8. CASE call[o].row.table = "folios"
      <4>1. /\ call[o].row.folio = None /\ call[o].row.scheme = None
            /\ call[o].row.sip = None /\ call[o].row.type = None
        BY <3>1, <3>2, <3>8, CallAssumption
      <4>2. loaded[o]["customer"] # None
        BY <3>2, <3>8 DEF HasRead, Needed
      <4>3. QED
        BY <3>3, <3>4, <3>5, <3>6, <3>8, <4>1, <4>2
    <3>9. CASE call[o].row.table \notin {"customers", "schemes", "folios"}
      <4>1. /\ loaded[o]["customer"] # None /\ loaded[o]["folio"] # None
            /\ loaded[o]["scheme"] # None
            /\ call[o].row.type = "SIP_INSTALLMENT" => loaded[o]["sip"] # None
        BY <3>2, <3>9 DEF HasRead, Needed
      <4>2. QED
        BY <3>3, <3>4, <3>5, <3>6, <3>9, <4>1
    <3>10. QED
      BY <3>7, <3>8, <3>9
  <2>4. QED
    BY <2>2, <2>3
<1>4. QED
  BY <1>2, <1>3 DEF ParentsStoodAtStart

-----------------------------------------------------------------------------
(* Reports.                                                                *)

\* What the code counts has a table that belongs to customers.
LEMMA CountedRow ==
    ASSUME NEW f \in Figure, NEW x \in Id, Counts(f, x)
    PROVE  rows[x] # None /\ rows[x].table # "schemes"
BY DEF Figure, Counts, Active, Is

\* A figure for one customer is what the summaries of this customer select.
LEMMA OfCustomerIs ==
    ASSUME NEW f \in Figure, NEW c \in Id
    PROVE  OfCustomer(f, c) = {x \in Id : Counts(f, x) /\ rows[x].customer = c}
<1>1. c # None
  BY NoneIsApart
<1>2. \A g : Selected(g, None, c)
             = {x \in Id : Counts(g, x) /\ rows[x].customer = c}
  BY <1>1 DEF Selected
<1>3. CASE f = "total_aum"
  BY <1>2, <1>3 DEF OfCustomer, Counts
<1>4. CASE f = "monthly_sip_amount"
  BY <1>2, <1>4 DEF OfCustomer, Counts
<1>5. CASE f = "active_sips"
  BY <1>2, <1>5 DEF OfCustomer, Counts
<1>6. CASE f = "recent_transactions"
  BY <1>2, <1>6 DEF OfCustomer, Counts
<1>7. CASE f \notin {"total_aum", "monthly_sip_amount", "active_sips",
                     "recent_transactions"}
  BY <1>2, <1>7 DEF OfCustomer
<1>8. QED
  BY <1>3, <1>4, <1>5, <1>6, <1>7

\* What a report promises, row by row.
LEMMA PromisedIs ==
    (TypeOK /\ OwnershipAgrees) =>
      \A q \in Call, f \in Figure :
        Promised(q, f) = {x \in Id : /\ Counts(f, x)
                                     /\ q.by \in {None, rows[x].advisor}
                                     /\ q.row.customer \in {None, rows[x].customer}}
<1> SUFFICES ASSUME TypeOK, OwnershipAgrees, NEW q \in Call, NEW f \in Figure
             PROVE  Promised(q, f)
                    = {x \in Id : /\ Counts(f, x)
                                  /\ q.by \in {None, rows[x].advisor}
                                  /\ q.row.customer \in {None, rows[x].customer}}
  OBVIOUS
<1> DEFINE C == {y \in Id : /\ Is(y, "customers")
                            /\ q.by \in {None, rows[y].advisor}
                            /\ q.row.customer \in {None, y}}
<1>1. \A x : x \in Promised(q, f) <=> \E c \in C : x \in OfCustomer(f, c)
  BY DEF Promised
<1>2. \A c \in C : OfCustomer(f, c)
                   = {x \in Id : Counts(f, x) /\ rows[x].customer = c}
  BY OfCustomerIs
<1>3. \A x : x \in Promised(q, f)
             <=> x \in Id /\ Counts(f, x) /\ rows[x].customer \in C
  BY <1>1, <1>2
<1>4. ASSUME NEW x \in Id, Counts(f, x)
      PROVE  /\ rows[x].customer \in Id
             /\ rows[rows[x].customer] # None
             /\ rows[rows[x].customer].table = "customers"
             /\ rows[rows[x].customer].advisor = rows[x].advisor
  <2>1. rows[x] # None /\ rows[x].table # "schemes"
    BY <1>4, CountedRow
  <2>2. rows[x] \in Row /\ Placed(rows, rows[x])
    BY <2>1, AgreeingRows DEF OwnershipAgrees, TypeOK
  <2>3. QED
    BY <2>1, <2>2, RowShape DEF Placed
<1>5. \A x \in Id : Counts(f, x) =>
         (rows[x].customer \in C <=>
            /\ q.by \in {None, rows[x].advisor}
            /\ q.row.customer \in {None, rows[x].customer})
  BY <1>4 DEF Is
<1> HIDE DEF C
<1>6. QED
  BY <1>3, <1>5

\* The same in the next state.
LEMMA PromisedIsNext ==
    ASSUME TypeOK', OwnershipAgrees'
    PROVE  \A q \in Call, f \in Figure :
              Promised(q, f)' =
                {x \in Id : /\ Counts(f, x)'
                            /\ q.by \in {None, rows'[x].advisor}
                            /\ q.row.customer \in {None, rows'[x].customer}}
<1>1. ((TypeOK /\ OwnershipAgrees) =>
      \A q \in Call, f \in Figure :
        Promised(q, f) = {x \in Id : /\ Counts(f, x)
                                     /\ q.by \in {None, rows[x].advisor}
                                     /\ q.row.customer \in {None, rows[x].customer}})'
  BY PromisedIs, PTL
<1>2. QED
  BY <1>1

\* What a SELECT of a report returns is what the report promises: a summary is
\* of one customer, and the caller has been admitted to him.
LEMMA FigureIsPromised ==
    ASSUME OfficeInv, NEW r \in Req, pc[r] = "report", NEW f \in Figure
    PROVE  Selection(call[r], f) = [x \in Promised(call[r], f) |-> rows[x]]
<1> DEFINE q == call[r]
<1>1. TypeOK /\ OwnershipAgrees /\ ControlAt(r) /\ LoadedAt(r)
  BY DEF OfficeInv
<1>2. q \in Workload /\ q \in Call /\ q.op = "report"
  BY <1>1, CallAtWork DEF ControlAt
<1>3. Promised(q, f) = {x \in Id : /\ Counts(f, x)
                                   /\ q.by \in {None, rows[x].advisor}
                                   /\ q.row.customer \in {None, rows[x].customer}}
  BY <1>1, <1>2, PromisedIs
<1>4. CASE q.report \notin Summary
  <2>1. Selected(f, q.by, q.row.customer) = Promised(q, f)
    BY <1>3 DEF Selected
  <2>2. QED
    BY <1>4, <2>1 DEF Selection
<1>5. CASE q.report \in Summary
  <2>1. q.row.customer # None
    BY <1>2, <1>5, CallAssumption
  <2>2. HasRead(r, {"customer"}) /\ Admits(q, loaded[r])
    BY <1>1, <2>1 DEF ControlAt
  <2>3. /\ "customer" \in Slot /\ loaded[r]["customer"] # None
        /\ Target(q, "customer") = q.row.customer
    BY <2>2 DEF HasRead, Slot, Target
  <2>4. q.by \in {None, loaded[r]["customer"].advisor}
    BY <1>2, <2>2 DEF Admits
  <2>5. q.by \in {None, rows[q.row.customer].advisor}
    BY <2>3, <2>4, ReadParent DEF SamePlace
  <2>6. ASSUME NEW x \in Id, Counts(f, x), rows[x].customer = q.row.customer
        PROVE  q.by \in {None, rows[x].advisor}
    <3>1. rows[x] # None
      BY <2>6, CountedRow
    <3>2. Placed(rows, rows[x])
      BY <1>1, <3>1, AgreeingRows DEF OwnershipAgrees
    <3>3. QED
      BY <2>1, <2>5, <2>6, <3>2 DEF Placed
  <2>7. Selected(f, None, q.row.customer) = Promised(q, f)
    BY <1>3, <2>1, <2>6 DEF Selected
  <2>8. QED
    BY <1>5, <2>7 DEF Selection
<1>6. QED
  BY <1>4, <1>5

\* Where the figures of a report come from.
LEMMA AnswerMoves ==
    ASSUME OfficeInv, [Next]_vars, NEW o \in Req, NEW f \in Figure,
           answer'[o][f] # None
    PROVE  /\ call'[o] = call[o] /\ call[o] \in Call
           /\ call[o].op = "report" /\ pc[o] # "idle"
           /\ \/ answer'[o][f] = answer[o][f]
              \/ /\ pc[o] = "report" /\ UNCHANGED <<rows, touched>>
                 /\ answer'[o][f] = Selection(call[o], f)
<1>1. TypeOK /\ ControlAt(o)
  BY DEF OfficeInv
<1>2. answer[o][f] # None => /\ call[o] \in Call /\ call[o].op = "report"
                             /\ pc[o] # "idle"
  BY <1>1 DEF ControlAt, TypeOK
<1>3. ASSUME NEW q \in Workload, Receive(o, q) PROVE FALSE
  BY <1>2, <1>3 DEF Receive
<1>4. CASE answer'[o] = answer[o] /\ call'[o] = call[o]
  BY <1>2, <1>4
<1>5. CASE Close(o)
  BY <1>1, <1>5 DEF Close, Unread, TypeOK
<1>6. CASE ReadFigure(o)
  <2>1. /\ pc[o] = "report" /\ call'[o] = call[o]
        /\ UNCHANGED <<rows, touched>>
    BY <1>6 DEF ReadFigure
  <2>2. call[o] \in Call /\ call[o].op = "report"
    BY <1>1, <2>1, CallAtWork DEF ControlAt
  <2>3. answer'[o] = [answer[o] EXCEPT ![Head(todo[o])] =
                         Selection(call[o], Head(todo[o]))]
    BY <1>1, <1>6 DEF ReadFigure, TypeOK
  <2>4. answer'[o][f] \in {answer[o][f], Selection(call[o], f)}
    BY <1>1, <2>3 DEF TypeOK
  <2>5. QED
    BY <2>1, <2>2, <2>4
<1>7. CASE Acts(o)
  BY <1>3, <1>4, <1>5, <1>6, <1>7
     DEF Acts, Refuse, ReadRow, FindHolding, Stores, Write, WriteCompletion,
         Store, Fail
<1>8. CASE \E r \in Req \ {o} : Acts(r)
  BY <1>1, <1>4, <1>8, OthersUnmoved DEF Unmoved
<1>9. CASE UNCHANGED vars
  BY <1>4, <1>9 DEF vars
<1>10. QED
  BY <1>7, <1>8, <1>9, StepShape

\* The stored rows that a report may show, and their customers.
LEMMA OwnRowsStep ==
    ASSUME OfficeInv, [Next]_vars
    PROVE  OwnRowsOnly'
<1>1. TypeOK /\ OwnershipAgrees /\ OwnRowsOnly
  BY DEF OfficeInv
<1>2. ASSUME NEW o \in Req, NEW f \in Figure, call'[o] # None,
             call'[o].by # None, answer'[o][f] # None,
             NEW x \in DOMAIN answer'[o][f]
      PROVE  /\ rows'[x].customer # None
             /\ rows'[rows'[x].customer].advisor = call'[o].by
  <2>1. call'[o] = call[o] /\ call[o] \in Call
    BY <1>2, AnswerMoves
  <2>2. /\ x \in Id /\ rows[x] # None /\ rows[x].customer # None
        /\ rows[rows[x].customer].advisor = call[o].by
    <3>1. CASE answer'[o][f] = answer[o][f]
      BY <1>1, <1>2, <2>1, <3>1 DEF OwnRowsOnly, TypeOK
    <3>2. CASE pc[o] = "report" /\ answer'[o][f] = Selection(call[o], f)
      <4>1. x \in Promised(call[o], f)
        BY <1>2, <3>2, FigureIsPromised
      <4>2. x \in Id /\ Counts(f, x) /\ call[o].by \in {None, rows[x].advisor}
        BY <1>1, <2>1, <4>1, PromisedIs
      <4>3. rows[x] # None /\ rows[x].table # "schemes"
        BY <4>2, CountedRow
      <4>4. Placed(rows, rows[x])
        BY <1>1, <4>2, <4>3, AgreeingRows DEF OwnershipAgrees
      <4>5. QED
        BY <1>2, <2>1, <4>2, <4>3, <4>4 DEF Placed
    <3>3. QED
      BY <1>2, <3>1, <3>2, AnswerMoves
  <2>3. /\ rows[x].customer \in Id /\ rows[rows[x].customer] # None
    <3>1. rows[x] \in Row
      BY <1>1, <2>2 DEF TypeOK
    <3>2. Placed(rows, rows[x])
      BY <1>1, <2>2, AgreeingRows DEF OwnershipAgrees
    <3>3. QED
      BY <2>2, <3>1, <3>2, RowShape DEF Placed
  <2>4. /\ SamePlace(rows'[x], rows[x])
        /\ SamePlace(rows'[rows[x].customer], rows[rows[x].customer])
    BY <2>2, <2>3, RowsStay
  <2>5. QED
    BY <2>1, <2>2, <2>4 DEF SamePlace
<1>3. QED
  BY <1>2 DEF OwnRowsOnly

\* What a report promises does not move with the rows of other customers.
LEMMA PromisedStays ==
    ASSUME OfficeInv, [Next]_vars, NEW q \in Call, NEW f \in Figure,
           \A x \in Id : rows'[x] # rows[x] =>
             ~ /\ rows'[x].customer # None
               /\ q.by \in {None, rows'[rows'[x].customer].advisor}
               /\ q.row.customer \in {None, rows'[x].customer}
    PROVE  /\ Promised(q, f)' = Promised(q, f)
           /\ \A x \in Promised(q, f) : rows'[x] = rows[x]
<1>1. TypeOK /\ OwnershipAgrees /\ TypeOK' /\ OwnershipAgrees'
  BY TypeStep, AgreesStep DEF OfficeInv
<1> DEFINE In(x) == /\ Counts(f, x)
                    /\ q.by \in {None, rows[x].advisor}
                    /\ q.row.customer \in {None, rows[x].customer}
           InNext(x) == /\ Counts(f, x)'
                        /\ q.by \in {None, rows'[x].advisor}
                        /\ q.row.customer \in {None, rows'[x].customer}
<1>2. Promised(q, f) = {x \in Id : In(x)}
  BY <1>1, PromisedIs
<1>3. Promised(q, f)' = {x \in Id : InNext(x)}
  BY <1>1, PromisedIsNext
<1>4. ASSUME NEW x \in Id, rows'[x] = rows[x] PROVE In(x) <=> InNext(x)
  BY <1>4 DEF Counts, Active, Is
<1>5. ASSUME NEW x \in Id, rows'[x] # rows[x] PROVE ~In(x) /\ ~InNext(x)
  <2>1. rows'[x] # None
    BY <1>5, RowsStay
  <2>2. Placed(rows', rows'[x])
    BY <1>1, <2>1, AgreeingRows DEF OwnershipAgrees
  <2>3. \/ rows'[x].table = "schemes"
        \/ q.by \notin {None, rows'[x].advisor}
        \/ q.row.customer \notin {None, rows'[x].customer}
    BY <1>5, <2>2 DEF Placed
  <2>4. Counts(f, x)' => rows'[x].table # "schemes"
    BY DEF Figure, Counts, Active, Is
  <2>5. ~InNext(x)
    BY <2>3, <2>4
  <2>6. In(x) => /\ rows[x].table # "schemes"
                 /\ SamePlace(rows'[x], rows[x])
    BY CountedRow, RowsStay
  <2>7. ~In(x)
    BY <2>3, <2>6 DEF SamePlace
  <2>8. QED
    BY <2>5, <2>7
<1> HIDE DEF In, InNext
<1>6. QED
  BY <1>2, <1>3, <1>4, <1>5

\* Every step keeps untouched reports adding up.
LEMMA AnswerStep ==
    ASSUME OfficeInv, [Next]_vars
    PROVE  ReportsAddUp'
<1>1. TypeOK /\ ReportsAddUp
  BY DEF OfficeInv
<1>2. ASSUME NEW o \in Req, NEW f \in Figure, ~touched'[o],
             answer'[o][f] # None
      PROVE  (answer[o][f] = [x \in Promised(call[o], f) |-> rows[x]])'
  <2>1. /\ call'[o] = call[o] /\ call[o] \in Call
        /\ call[o].op = "report" /\ pc[o] # "idle"
    BY <1>2, AnswerMoves
  <2>2. ~touched[o] /\ \A x \in Id : rows'[x] # rows[x] =>
             ~ /\ rows'[x].customer # None
               /\ call[o].by \in {None, rows'[rows'[x].customer].advisor}
               /\ call[o].row.customer \in {None, rows'[x].customer}
    <3>1. CASE UNCHANGED <<rows, touched>>
      BY <1>2, <3>1
    <3>2. ASSUME NEW r \in Req, NEW new, Store(r, new)
          PROVE  ~touched[o] /\ \A x \in Id : rows'[x] # rows[x] =>
                                  ~Concerns(o, rows', x)
      BY <1>2, <3>2 DEF Store
    <3>3. CASE \E r \in Req : Stores(r)
      <4>1. ~touched[o] /\ \A x \in Id : rows'[x] # rows[x] =>
                             ~Concerns(o, rows', x)
        BY <3>2, <3>3 DEF Stores, Write, WriteCompletion
      <4>2. call[o] # None
        BY <2>1, NoneIsApart
      <4>3. QED
        BY <2>1, <4>1, <4>2 DEF Concerns
    <3>4. QED
      BY <3>1, <3>3, StepShape
         DEF Acts, Receive, Refuse, Close, ReadRow, FindHolding, ReadFigure,
             Fail, vars
  <2>3. PICK q \in Call : q = call[o]
    BY <2>1
  <2>4. /\ Promised(q, f)' = Promised(q, f)
        /\ \A x \in Promised(q, f) : rows'[x] = rows[x]
    BY <2>2, <2>3, PromisedStays
  <2>5. Promised(call[o], f)' = Promised(q, f)'
    BY <2>1, <2>3 DEF Promised
  <2>6. answer'[o][f] = [x \in Promised(q, f) |-> rows[x]]
    BY <1>1, <1>2, <2>2, <2>3, AnswerMoves, FigureIsPromised
       DEF ReportsAddUp, AnswerAt
  <2>7. QED
    BY <2>4, <2>5, <2>6
<1>3. QED
  BY <1>2 DEF ReportsAddUp, AnswerAt

-----------------------------------------------------------------------------
(* The theorems.                                                           *)

LEMMA InvInit ==
    ASSUME Init
    PROVE  OfficeInv
<1>1. \A x \in Id : rows[x] = IF x \in Seed THEN SeedRows[x] ELSE None
  BY DEF Init, SeedTable
<1>2. TypeOK
  <2>1. rows \in [Id -> Row \cup {None}]
    BY <1>1, SeedAssumption DEF Init, SeedTable
  <2>2. QED
    BY <2>1 DEF Init, TypeOK, Nothing, Unread
<1>3. OwnershipAgrees
  BY SeedAssumption DEF Init, OwnershipAgrees
<1>4. ASSUME NEW r \in Req PROVE ControlAt(r) /\ LoadedAt(r) /\ FreshAt(r)
  <2>1. rows[OwnId(r)] = None /\ rows[BookedId(r)] = None
    BY <1>1, NewIds
  <2>2. QED
    BY <2>1 DEF Init, ControlAt, LoadedAt, FreshAt, Nothing, Unread
<1>5. ParentsStoodAtStart
  BY <1>1, NewIds DEF ParentsStoodAtStart
<1>6. OwnRowsOnly /\ ReportsAddUp
  BY DEF Init, OwnRowsOnly, ReportsAddUp, AnswerAt, Unread
<1>7. QED
  BY <1>2, <1>3, <1>4, <1>5, <1>6 DEF OfficeInv

\* The inductive invariant holds in every state of the office.
THEOREM OfficeInvariant == Spec => []OfficeInv
<1>1. Init => OfficeInv
  BY InvInit
<1>2. OfficeInv /\ [Next]_vars => OfficeInv'
  BY TypeStep, ControlStep, LoadedStep, FreshStep, AgreesStep, ParentsStep,
     OwnRowsStep, AnswerStep
     DEF OfficeInv
<1>3. QED
  BY <1>1, <1>2, PTL DEF Spec

\* The variables keep their types, and reports show stored rows.
THEOREM TypeCorrect == Spec => []TypeOK
<1>1. OfficeInv => TypeOK
  BY DEF OfficeInv
<1>2. QED
  BY <1>1, OfficeInvariant, PTL

\* The advisor, customer, folio, scheme and SIP of every row go together, even
\* when parents are deleted while a child is being created.
THEOREM OwnershipIsConsistent == Spec => []OwnershipAgrees
<1>1. OfficeInv => OwnershipAgrees
  BY DEF OfficeInv
<1>2. QED
  BY <1>1, OfficeInvariant, PTL

\* No creation takes a parent that was deleted before it was asked for.
THEOREM NoDeadParents == Spec => []ParentsStoodAtStart
<1>1. OfficeInv => ParentsStoodAtStart
  BY DEF OfficeInv
<1>2. QED
  BY <1>1, OfficeInvariant, PTL

\* A report to an advisor is about his own customers.
THEOREM ReportsKeepToTheirAdvisor == Spec => []OwnRowsOnly
<1>1. OfficeInv => OwnRowsOnly
  BY DEF OfficeInv
<1>2. QED
  BY <1>1, OfficeInvariant, PTL

\* A report none of whose rows has changed since it was asked for is of one
\* state, whatever is stored for other customers meanwhile.
THEOREM UndisturbedReportsAddUp == Spec => []ReportsAddUp
<1>1. OfficeInv => ReportsAddUp
  BY DEF OfficeInv
<1>2. QED
  BY <1>1, OfficeInvariant, PTL
=============================================================================
