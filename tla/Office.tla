------------------------------- MODULE Office -------------------------------
(***************************************************************************)
(* Customers, schemes, folios, holdings, SIPs and transactions as the tree *)
(* they form: every creation reads its parents, every report reads many    *)
(* rows, and neither locks what it reads.                                  *)
(*                                                                         *)
(* A step is one SELECT, or one flush together with its COMMIT: only the   *)
(* readers matter here.  Waits, unique keys and the rules of single rows   *)
(* are those of Registry, PatchRules, TransactionLedger and Valuation.     *)
(***************************************************************************)
EXTENDS Sequences

CONSTANTS
    Req,        \* requests
    Advisor,    \* advisor profiles
    Seed,       \* uuids of the rows stored at the start
    SeedRows,   \* those rows
    Amount,     \* sums of money
    Workload,   \* calls that clients make
    None        \* NULL, and the advisor of a SUPER_ADMIN or COMPLIANCE user

Id == Seed \cup (Req \X {"row", "holding"})
OwnId(r) == <<r, "row">>
BookedId(r) == <<r, "holding">>

Table == {"customers", "schemes", "folios", "holdings", "sips", "transactions"}
\* Of customers' KYC, of SIPs and of transactions.
Status == {"PENDING", "VERIFIED", "REJECTED", "ACTIVE", "PAUSED", "CANCELLED",
           "COMPLETED", "FAILED"}
Frequency == {"MONTHLY", "QUARTERLY", "YEARLY"}
Outflow == {"SELL", "SWITCH_OUT"}
Type == Outflow \cup {"BUY", "SIP_INSTALLMENT", "SWITCH_IN", "DIVIDEND"}

\* A row.  The customer of a row in customers is the row itself.
Row == [table : Table, advisor : Advisor \cup {None},
        customer : Id \cup {None}, folio : Id \cup {None},
        scheme : Id \cup {None}, sip : Id \cup {None}, is_active : BOOLEAN,
        status : Status \cup {None}, frequency : Frequency \cup {None},
        type : Type \cup {None}, amount : Amount \cup {None}]

\* What a PATCH sets, None where it does not; a DELETE clears is_active.
Patch == [is_active : {FALSE, None}, status : Status \cup {None},
          frequency : Frequency \cup {None}, amount : Amount \cup {None}]

\* The SELECTs of each report, in the order of the code.
Figures ==
    [dashboard |-> <<"recent_transactions", "total_customers", "total_aum",
                     "monthly_sip_amount", "pending_kyc", "active_sips">>,
     portfolio_summary   |-> <<"holdings">>,
     sip_summary         |-> <<"sips", "monthly_sips", "next_due">>,
     transaction_summary |-> <<"completed_transactions">>,
     list_customers      |-> <<"customers">>,
     list_folios         |-> <<"folios">>,
     list_holdings       |-> <<"holdings">>,
     list_sips           |-> <<"sips">>,
     list_transactions   |-> <<"transactions">>]
Report == DOMAIN Figures
Summary == {"portfolio_summary", "sip_summary", "transaction_summary"}
Figure == {"recent_transactions", "total_customers", "total_aum",
           "monthly_sip_amount", "pending_kyc", "active_sips", "holdings",
           "sips", "monthly_sips", "next_due", "completed_transactions",
           "customers", "folios", "transactions"}

\* by is the caller's advisor profile.  row is what a creation asks for; else
\* it names the table of row id, or the customer that a report is about.
Call == [op : {"create", "get", "update", "report"},
         by : Advisor \cup {None}, id : Id \cup {None}, row : Row,
         set : Patch, report : Report \cup {None}]

ASSUME IdAssumption == Seed \cap (Req \X {"row", "holding"}) = {}
ASSUME NoneAssumption ==
    /\ None \notin Id \cup Advisor \cup Amount \cup Status
    /\ None \notin Frequency \cup Type
    /\ None \notin BOOLEAN \cup Row \cup Call \cup Report
ASSUME CallAssumption ==
    /\ Workload \subseteq Call
    /\ \A q \in Workload :
          /\ q.op = "report" => q.report # None
          /\ q.report \in Summary => q.row.customer # None
          /\ q.op = "create" /\ q.row.table \in {"customers", "schemes", "folios"}
                => /\ q.row.folio = None
                   /\ q.row.scheme = None
                   /\ q.row.sip = None
                   /\ q.row.type = None
          /\ q.op = "create" /\ q.row.table = "schemes" => q.row.customer = None

\* In table t every row has the advisor of its customer and the customer of its
\* folio, and an installment is in the folio and scheme of its SIP.  What SIP
\* another transaction names is up to the client: it only has to be stored.
Agreeing(t) ==
    \A x \in Id : t[x] # None =>
        LET w == t[x]
            is(y, name) == t[y] # None /\ t[y].table = name
        IN
        /\ w.customer = None <=> w.table = "schemes"
        /\ w.customer # None => /\ is(w.customer, "customers")
                                /\ t[w.customer].advisor = w.advisor
                                /\ w.advisor # None
        /\ w.folio # None => /\ is(w.folio, "folios")
                             /\ t[w.folio].customer = w.customer
        /\ w.sip # None => is(w.sip, "sips")
        /\ w.type = "SIP_INSTALLMENT" => /\ w.sip # None
                                         /\ t[w.sip].customer = w.customer
                                         /\ t[w.sip].folio = w.folio
                                         /\ t[w.sip].scheme = w.scheme

SeedTable == [x \in Id |-> IF x \in Seed THEN SeedRows[x] ELSE None]
ASSUME SeedAssumption == SeedRows \in [Seed -> Row] /\ Agreeing(SeedTable)

-----------------------------------------------------------------------------

VARIABLES
    rows,       \* committed rows
    pc,         \* the next step of each request, "get_..." the row it reads
    call,       \* its call
    todo,       \* figures that it has still to read
    loaded,     \* session: the rows it has read
    held,       \* session: the holding it has found
    answer,     \* the figures it has read, each as the rows it is made of
    gone,       \* history: rows that were deleted when it was received
    touched     \* history: a row that its report is about has changed

vars == <<rows, pc, call, todo, loaded, held, answer, gone, touched>>

\* The rows a method reads by id before it acts, "self" being its subject.
Slot == {"customer", "folio", "scheme", "sip", "self"}
Nothing == [p \in Slot |-> None]
Unread == [f \in Figure |-> None]

Is(x, t) == rows[x] # None /\ rows[x].table = t
Active(x, t) == Is(x, t) /\ rows[x].is_active

\* Faulty: get_by_id does not ask for is_active.
Stored(x, t) == x \in Id /\ Is(x, t)
Found(x, t) == x \in Id /\ Active(x, t)

\* The WHERE clause of a figure, without its owner.
Counts(f, x) ==
    CASE f \in {"customers", "total_customers"} -> Active(x, "customers")
      [] f = "pending_kyc" ->
            Active(x, "customers") /\ rows[x].status = "PENDING"
      [] f = "folios" -> Active(x, "folios")
      [] f \in {"holdings", "total_aum"} -> Active(x, "holdings")
      [] f = "sips" -> Active(x, "sips")
      [] f \in {"active_sips", "next_due"} ->
            Active(x, "sips") /\ rows[x].status = "ACTIVE"
      [] f \in {"monthly_sips", "monthly_sip_amount"} ->
            /\ Active(x, "sips")
            /\ rows[x].status = "ACTIVE"
            /\ rows[x].frequency = "MONTHLY"
      [] f = "transactions" -> Active(x, "transactions")
      [] f \in {"completed_transactions", "recent_transactions"} ->
            Active(x, "transactions") /\ rows[x].status = "COMPLETED"

\* Faulty: no advisor_id in the WHERE clause.
SelectedOfAll(f, a, c) ==
    {x \in Id : Counts(f, x) /\ (c = None \/ rows[x].customer = c)}

\* The rows selected for advisor a (None: all) and customer c (None: all).
Selected(f, a, c) ==
    {x \in Id : /\ Counts(f, x)
                /\ a = None \/ rows[x].advisor = a
                /\ c = None \/ rows[x].customer = c}

\* A summary is selected by its customer alone, once that one may be read.
Selection(q, f) ==
    LET a == IF q.report \in Summary THEN None ELSE q.by
    IN  [x \in Selected(f, a, q.row.customer) |-> rows[x]]

\* The active holding of a position.
Holdings(p) ==
    {x \in Id : /\ Active(x, "holdings")
                /\ rows[x].folio = p.folio
                /\ rows[x].scheme = p.scheme}

-----------------------------------------------------------------------------
(* What the methods decide from their call q and the rows l they have read. *)

\* Only a SUPER_ADMIN changes schemes, and he has to say whose a customer is.
MayCall(q) ==
    /\ q.op \in {"create", "update"} /\ q.row.table = "schemes" => q.by = None
    /\ q.op = "create" /\ q.row.table = "customers" /\ q.by = None
          => q.row.advisor # None

TableOf(q, p) ==
    CASE p = "customer" -> "customers" [] p = "folio" -> "folios"
      [] p = "scheme" -> "schemes" [] p = "sip" -> "sips"
      [] OTHER -> q.row.table
Target(q, p) ==
    CASE p = "customer" -> q.row.customer [] p = "folio" -> q.row.folio
      [] p = "scheme" -> q.row.scheme [] p = "sip" -> q.row.sip
      [] OTHER -> q.id

Owner(q, l) ==
    CASE l["folio"] # None -> l["folio"].advisor
      [] l["folio"] = None /\ l["customer"] # None -> l["customer"].advisor
      [] OTHER -> IF q.by # None THEN q.by ELSE q.row.advisor

\* An advisor creates under his own customers; naming another is refused, or
\* ignored when the customer is the new row.
OwnerAdmits(q, l) ==
    /\ q.by \in {None, Owner(q, l)}
    /\ q.row.table = "customers" \/ q.row.advisor \in {None, Owner(q, l)}

\* Faulty: the folio may be another customer's.
FitsAnyFolio(q, l) == OwnerAdmits(q, l)

\* The relationships of a new row.
Fits(q, l) ==
    /\ l["folio"] # None =>
          /\ l["folio"].customer = q.row.customer
          /\ l["folio"].advisor = l["customer"].advisor
    /\ l["sip"] # None =>
          /\ l["sip"].advisor = l["folio"].advisor
          /\ l["sip"].customer = q.row.customer
          /\ l["sip"].folio = q.row.folio
          /\ l["sip"].scheme = q.row.scheme
    /\ OwnerAdmits(q, l)

\* Whether what was read may be acted on; else 400, or 404 for another's row.
Admits(q, l) ==
    CASE q.op = "create" -> Fits(q, l)
      [] q.op = "report" -> q.by \in {None, l["customer"].advisor}
      [] q.op \in {"get", "update"} ->
            q.row.table = "schemes" \/ q.by \in {None, l["self"].advisor}

\* The transaction that the call completes, if it does.
Completes(q, l) ==
    /\ q.row.table = "transactions"
    /\ \/ q.op = "create" /\ q.row.status = "COMPLETED"
       \/ /\ q.op = "update"
          /\ q.set.status = "COMPLETED"
          /\ l["self"].status # "COMPLETED"
Subject(q, l) == IF q.op = "create" THEN q.row ELSE l["self"]
CreatesHolding(q) == q.op = "create" /\ q.row.table = "holdings"

\* Faulty: the scheme is not looked up.
FollowingNoScheme(q, p, l) ==
    CASE q.op = "report" -> "report"
      [] q.op = "get" -> "done"
      [] p = "customer" /\ q.op = "create" /\ q.row.table # "folios" -> "folio"
      [] p = "folio" /\ q.row.type = "SIP_INSTALLMENT" -> "sip"
      [] OTHER -> "write"

\* The step after the one that has read slot p.
Following(q, p, l) ==
    CASE q.op = "report" -> "report"
      [] q.op = "get" -> "done"
      [] p = "customer" /\ q.op = "create" /\ q.row.table # "folios" -> "folio"
      [] p = "folio" -> "scheme"
      [] p = "scheme" /\ q.row.type = "SIP_INSTALLMENT" -> "sip"
      [] OTHER -> IF Completes(q, l) \/ CreatesHolding(q)
                  THEN "holding" ELSE "write"

First(q) ==
    CASE q.op \in {"get", "update"} -> "self"
      [] q.op = "report" ->
            IF q.row.customer # None THEN "customer" ELSE "report"
      [] q.op = "create" ->
            IF q.row.table \in {"customers", "schemes"} THEN "write"
            ELSE "customer"

NewRow(r) ==
    [call[r].row EXCEPT
       !.advisor = Owner(call[r], loaded[r]),
       !.customer = IF call[r].row.table = "customers" THEN OwnId(r) ELSE @,
       !.is_active = TRUE]

\* Faulty: the new holding is the caller's.
BookedForCaller(r, v) ==
    [call[r].row EXCEPT !.table = "holdings", !.advisor = call[r].by,
                        !.sip = None, !.status = None, !.type = None]

\* The holding of a first inflow belongs to the owner of the transaction, and
\* nobody asks again whether that one and the scheme are still active.
BookedHolding(r, v) ==
    LET t == IF call[r].op = "create" THEN NewRow(r) ELSE loaded[r]["self"]
    IN  [t EXCEPT !.table = "holdings", !.sip = None, !.is_active = TRUE,
                  !.status = None, !.type = None, !.amount = v]

\* The UPDATE sets the columns in which the loaded row was changed.
Patched(r, row) ==
    LET q == call[r].set
        was == loaded[r]["self"]
        new(value, old, current) ==
            IF value \notin {None, old} THEN value ELSE current
    IN  [row EXCEPT
           !.is_active = new(q.is_active, was.is_active, row.is_active),
           !.status = new(q.status, was.status, row.status),
           !.frequency = new(q.frequency, was.frequency, row.frequency),
           !.amount = new(q.amount, was.amount, row.amount)]

-----------------------------------------------------------------------------
(* Steps of the service methods.                                           *)

Receive(r, q) ==
    /\ pc[r] = "idle"
    /\ MayCall(q)
    /\ call' = [call EXCEPT ![r] = q]
    /\ pc' = [pc EXCEPT ![r] = First(q)]
    /\ todo' = [todo EXCEPT ![r] =
                  IF q.op = "report" THEN Figures[q.report] ELSE <<>>]
    /\ gone' = [gone EXCEPT ![r] =
                  {x \in Id : rows[x] # None /\ ~rows[x].is_active}]
    /\ UNCHANGED <<rows, loaded, held, answer, touched>>

\* The session is closed and nothing stored: 4xx or 503.
Close(r) ==
    /\ pc' = [pc EXCEPT ![r] = "done"]
    /\ todo' = [todo EXCEPT ![r] = <<>>]
    /\ loaded' = [loaded EXCEPT ![r] = Nothing]
    /\ held' = [held EXCEPT ![r] = None]
    /\ answer' = [answer EXCEPT ![r] = Unread]
    /\ UNCHANGED <<rows, call, gone, touched>>

\* The call is refused at once: 401, 403 or 422.
Refuse(r) == pc[r] = "idle" /\ Close(r)

\* One SELECT of a row by id, and after the last one the checks.
ReadRow(r) ==
    LET q == call[r]
        p == pc[r]
        x == Target(q, p)
        l == [loaded[r] EXCEPT ![p] = rows[x]]
        next == Following(q, p, l)
    IN
    /\ p \in Slot
    /\ IF Found(x, TableOf(q, p)) /\ (next \notin Slot => Admits(q, l))
       THEN /\ loaded' = [loaded EXCEPT ![r] = l]
            /\ pc' = [pc EXCEPT ![r] = next]
            /\ UNCHANGED <<rows, call, todo, held, answer, gone, touched>>
       ELSE Close(r)

\* get_by_folio_and_scheme: taken for a new holding, missing for an outflow.
FindHolding(r) ==
    LET s == Subject(call[r], loaded[r])
        found == Holdings(s)
    IN
    /\ pc[r] = "holding"
    /\ \/ /\ found = {}
          /\ s.type \notin Outflow
          /\ pc' = [pc EXCEPT ![r] = "write"]
          /\ UNCHANGED <<rows, call, todo, loaded, held, answer, gone, touched>>
       \/ /\ ~CreatesHolding(call[r])
          /\ \E x \in found : held' = [held EXCEPT ![r] = x]
          /\ pc' = [pc EXCEPT ![r] = "write"]
          /\ UNCHANGED <<rows, call, todo, loaded, answer, gone, touched>>
       \/ /\ IF CreatesHolding(call[r]) THEN found # {}
             ELSE found = {} /\ s.type \in Outflow
          /\ Close(r)

\* Row x, one of the new rows, is what the report of request o is about.
Concerns(o, new, x) ==
    /\ pc[o] # "idle" /\ call[o] # None /\ call[o].op = "report"
    /\ new[x].customer # None
    /\ call[o].by \in {None, new[new[x].customer].advisor}
    /\ call[o].row.customer \in {None, new[x].customer}

Store(r, new) ==
    /\ rows' = new
    /\ touched' = [o \in Req |-> \/ touched[o]
                                 \/ \E x \in Id : /\ new[x] # rows[x]
                                                  /\ Concerns(o, new, x)]
    /\ pc' = [pc EXCEPT ![r] = "done"]
    /\ loaded' = [loaded EXCEPT ![r] = Nothing]
    /\ held' = [held EXCEPT ![r] = None]
    /\ UNCHANGED <<call, todo, answer, gone>>

\* sips.id is a foreign key, and all there is to check if the transaction is
\* not an installment.
SipExists(q) ==
    q.op = "create" /\ q.row.sip # None => Is(q.row.sip, "sips")

\* The row of the call, as the flush leaves it.
Flushed(r) ==
    IF call[r].op = "create" THEN [rows EXCEPT ![OwnId(r)] = NewRow(r)]
    ELSE [rows EXCEPT ![call[r].id] = Patched(r, rows[call[r].id])]

\* The flush and the COMMIT.  The partial index admits one active holding.
Write(r) ==
    /\ pc[r] = "write"
    /\ ~Completes(call[r], loaded[r])
    /\ SipExists(call[r])
    /\ CreatesHolding(call[r]) => Holdings(call[r].row) = {}
    /\ Store(r, Flushed(r))

\* A completion also pays into the holding, or out of it, unless it is a
\* dividend; the new value is for TransactionLedger and Valuation to say.
WriteCompletion(r) ==
    /\ pc[r] = "write"
    /\ Completes(call[r], loaded[r])
    /\ SipExists(call[r])
    /\ \E v \in Amount :
          \/ /\ held[r] # None
             /\ Subject(call[r], loaded[r]).type = "DIVIDEND" =>
                   v = rows[held[r]].amount
             /\ Store(r, [Flushed(r) EXCEPT
                            ![held[r]] = [rows[held[r]] EXCEPT !.amount = v]])
          \/ /\ held[r] = None
             /\ Holdings(Subject(call[r], loaded[r])) = {}
             /\ Store(r, [Flushed(r) EXCEPT ![BookedId(r)] =
                            BookedHolding(r, v)])

\* One SELECT of a report.
ReadFigure(r) ==
    /\ pc[r] = "report"
    /\ answer' = [answer EXCEPT ![r][Head(todo[r])] =
                    Selection(call[r], Head(todo[r]))]
    /\ todo' = [todo EXCEPT ![r] = Tail(@)]
    /\ pc' = [pc EXCEPT ![r] = IF Tail(todo[r]) = <<>> THEN "done" ELSE @]
    /\ UNCHANGED <<rows, call, loaded, held, gone, touched>>

\* A unique key is taken, units are missing, or any statement fails: rollback
\* and 400 or 503.
Fail(r) == pc[r] \notin {"idle", "done"} /\ Close(r)

Init ==
    /\ rows = SeedTable
    /\ pc = [r \in Req |-> "idle"]
    /\ call = [r \in Req |-> None]
    /\ todo = [r \in Req |-> <<>>]
    /\ loaded = [r \in Req |-> Nothing]
    /\ held = [r \in Req |-> None]
    /\ answer = [r \in Req |-> Unread]
    /\ gone = [r \in Req |-> {}]
    /\ touched = [r \in Req |-> FALSE]

Quiescent == (\A r \in Req : pc[r] = "done") /\ UNCHANGED vars

Next ==
    \/ \E r \in Req :
          \/ \E q \in Workload : Receive(r, q)
          \/ Refuse(r)
          \/ ReadRow(r)
          \/ FindHolding(r)
          \/ Write(r)
          \/ WriteCompletion(r)
          \/ ReadFigure(r)
          \/ Fail(r)
    \/ Quiescent

Spec == Init /\ [][Next]_vars

-----------------------------------------------------------------------------
(* Types, and what every request carries from one step to the next.        *)

\* Types of all variables.
TypeOK ==
    /\ rows \in [Id -> Row \cup {None}]
    /\ pc \in [Req -> Slot \cup {"idle", "holding", "write", "report", "done"}]
    /\ call \in [Req -> Call \cup {None}]
    /\ todo \in [Req -> Seq(Figure)]
    /\ loaded \in [Req -> [Slot -> Row \cup {None}]]
    /\ held \in [Req -> Id \cup {None}]
    /\ gone \in [Req -> SUBSET Id]
    /\ touched \in [Req -> BOOLEAN]
    /\ DOMAIN answer = Req
    /\ \A r \in Req :
          /\ DOMAIN answer[r] = Figure
          /\ \A f \in Figure : answer[r][f] # None =>
                \A x \in DOMAIN answer[r][f] : x \in Id /\ rows[x] # None

\* What no statement ever changes in a row.
SamePlace(u, v) ==
    /\ u.table = v.table
    /\ u.advisor = v.advisor
    /\ u.customer = v.customer
    /\ u.folio = v.folio
    /\ u.scheme = v.scheme
    /\ u.sip = v.sip
    /\ u.type = v.type

HasRead(r, S) == \A p \in S : loaded[r][p] # None

\* The slots that the creation of a row fills before it writes.
Needed(q) ==
    CASE q.row.table \in {"customers", "schemes"} -> {}
      [] q.row.table = "folios" -> {"customer"}
      [] OTHER -> {"customer", "folio", "scheme"} \cup
                  IF q.row.type = "SIP_INSTALLMENT" THEN {"sip"} ELSE {}

\* Which steps a call can be at, and what it has read by then.
ControlAt(r) ==
    /\ pc[r] \notin {"idle", "done"} => call[r] \in Workload /\ MayCall(call[r])
    /\ pc[r] = "idle" => call[r] = None /\ loaded[r] = Nothing
    /\ pc[r] \in {"customer", "folio", "scheme", "sip"} =>
          \/ call[r].op = "create"
          \/ call[r].op = "report" /\ pc[r] = "customer"
    /\ pc[r] = "self" => call[r].op \in {"get", "update"}
    /\ pc[r] \in {"folio", "scheme", "sip"} =>
          call[r].row.table \notin {"customers", "schemes", "folios"}
    /\ pc[r] = "customer" /\ call[r].op = "create" =>
          call[r].row.table \notin {"customers", "schemes"}
    /\ pc[r] \in {"folio", "scheme", "sip"} => HasRead(r, {"customer"})
    /\ pc[r] \in {"scheme", "sip"} => HasRead(r, {"folio"})
    /\ pc[r] = "sip" => HasRead(r, {"scheme"})
    /\ pc[r] \in {"holding", "write"} =>
          \/ call[r].op = "update" /\ HasRead(r, {"self"})
          \/ /\ call[r].op = "create"
             /\ HasRead(r, Needed(call[r]))
             /\ Fits(call[r], loaded[r])
    /\ pc[r] \notin {"idle", "done"} /\ call[r].op = "report" => todo[r] # <<>>
    /\ pc[r] = "report" =>
          /\ call[r].op = "report"
          /\ call[r].row.customer # None =>
                HasRead(r, {"customer"}) /\ Admits(call[r], loaded[r])
    /\ \A f \in Figure : answer[r][f] # None =>
          pc[r] # "idle" /\ call[r] # None /\ call[r].op = "report"

\* A row that a session has read is still in its place, and had not been
\* deleted before the call came.  What had been, still is.
LoadedAt(r) ==
    /\ \A p \in Slot : loaded[r][p] # None =>
          /\ call[r] # None
          /\ Target(call[r], p) \in Id \ gone[r]
          /\ Is(Target(call[r], p), TableOf(call[r], p))
          /\ SamePlace(rows[Target(call[r], p)], loaded[r][p])
    /\ held[r] # None => rows[held[r]] # None
    /\ \A x \in gone[r] : rows[x] # None /\ ~rows[x].is_active

\* What a request is going to store is not there yet.
FreshAt(r) ==
    pc[r] # "done" => rows[OwnId(r)] = None /\ rows[BookedId(r)] = None

-----------------------------------------------------------------------------
(* What the tables and the reports promise.                                *)

\* The advisor, customer and folio of every row go together, and an installment
\* with its SIP, although each is a column of its own that no constraint ties to
\* the others, and the rows it was copied from were read earlier and not locked.
OwnershipAgrees == Agreeing(rows)

\* Parents may be deleted while a child is being created, but a child never
\* gets a parent that had been deleted before its creation was asked for.
ParentsStoodAtStart ==
    \A r \in Req : rows[OwnId(r)] # None =>
        LET w == rows[OwnId(r)]
        IN  /\ {w.customer, w.folio, w.scheme} \cap gone[r] = {}
            /\ w.type = "SIP_INSTALLMENT" => w.sip \notin gone[r]

\* Nothing in a report to an advisor is about a customer of somebody else.
OwnRowsOnly ==
    \A r \in Req : call[r] # None =>
        \A f \in Figure : call[r].by # None /\ answer[r][f] # None =>
            \A x \in DOMAIN answer[r][f] :
                /\ rows[x].customer # None
                /\ rows[rows[x].customer].advisor = call[r].by

\* The figure of the dashboard for one customer, by his own summaries.
OfCustomer(f, c) ==
    CASE f = "total_aum" -> Selected("holdings", None, c)
      [] f = "monthly_sip_amount" -> Selected("monthly_sips", None, c)
      [] f = "active_sips" ->
            {x \in Selected("sips", None, c) : rows[x].status = "ACTIVE"}
      [] f = "recent_transactions" ->
            Selected("completed_transactions", None, c)
      [] OTHER -> Selected(f, None, c)

Promised(q, f) ==
    UNION {OfCustomer(f, c) :
             c \in {y \in Id : /\ Is(y, "customers")
                               /\ q.by \in {None, rows[y].advisor}
                               /\ q.row.customer \in {None, y}}}

AnswerAt(r) ==
    \A f \in Figure : ~touched[r] /\ answer[r][f] # None =>
        answer[r][f] = [x \in Promised(call[r], f) |-> rows[x]]

\* Unless a row of the customers it is about was stored since the call came,
\* all figures of a report describe one state, the present one, and those of
\* the dashboard add up from the summaries of the customers, deleted ones
\* included.  What is stored for other advisors never disturbs it.
ReportsAddUp == \A r \in Req : AnswerAt(r)

\* src/README.md:168: active_sips is calculated from active monthly SIPs.
ActiveSipsAreMonthly ==
    \A r \in Req : answer[r]["active_sips"] # None =>
        \A x \in DOMAIN answer[r]["active_sips"] :
            answer[r]["active_sips"][x].frequency = "MONTHLY"

\* The inductive invariant.
OfficeInv ==
    /\ TypeOK
    /\ OwnershipAgrees
    /\ \A r \in Req : ControlAt(r) /\ LoadedAt(r) /\ FreshAt(r)
    /\ ParentsStoodAtStart
    /\ OwnRowsOnly
    /\ ReportsAddUp
=============================================================================
