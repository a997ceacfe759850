-------------------------- MODULE Valuation_proofs --------------------------
(***************************************************************************)
(* Theorems about Valuation, for any requests, holdings, NAVs and          *)
(* workload: ValuationInv is inductive; a recalculation takes back         *)
(* nothing, is exact unless something changed while it ran, and never      *)
(* waits in a circle.                                                      *)
(***************************************************************************)
EXTENDS Valuation, TLAPS

-----------------------------------------------------------------------------
(* Columns, assignments and valuations.                                    *)

LEMMA ColsShape ==
    ASSUME NEW k \in Cols
    PROVE  /\ \A c \in NotNull : c \in Column /\ k[c] \in Nat
           /\ \A c \in Column : k[c] \in Nat \cup {None}
           /\ k \in Assignment
BY NoneAssumption DEF Cols, Column, NotNull, Assignment

LEMMA NotNullColumns ==
    ASSUME NEW k \in Cols
    PROVE  /\ k["units"] \in Nat /\ k["current_value"] \in Nat
           /\ k["invested_amount"] \in Nat
BY ColsShape DEF NotNull

\* An UPDATE keeps a row of the table one.
LEMMA OverwriteType ==
    ASSUME NEW k \in Cols, NEW p \in Assignment
    PROVE  Overwrite(k, p) \in Cols
<1>1. \A c \in Column :
        (IF p[c] # Unset THEN p[c] ELSE k[c]) \in Nat \cup {None}
  BY ColsShape DEF Assignment
<1>2. \A c \in NotNull : (IF p[c] # Unset THEN p[c] ELSE k[c]) # None
  BY DEF Assignment, Cols
<1>3. NotNull \subseteq Column
  BY DEF NotNull, Column
<1>4. QED
  BY <1>1, <1>2, <1>3 DEF Overwrite, Cols

LEMMA DifferingType ==
    ASSUME NEW k \in Cols, NEW p \in Assignment, NEW b
    PROVE  Differing(k, p, b) \in Assignment
<1>1. \A c \in Column : p[c] \in Nat \cup {None, Unset}
  BY DEF Assignment
<1>2. \A c \in NotNull : p[c] # None
  BY DEF Assignment
<1>3. NotNull \subseteq Column
  BY DEF NotNull, Column
<1>4. QED
  BY <1>1, <1>2, <1>3, NoneAssumption DEF Differing, Assignment

\* Writing what differs is writing everything.
LEMMA OverwriteDiffering ==
    ASSUME NEW k \in Cols, NEW p \in Cols, NEW b
    PROVE  Overwrite(k, Differing(k, p, b)) = p
<1>1. \A c \in Column : p[c] # Unset
  BY ColsShape, NoneAssumption
<1>2. \A c \in Column : Overwrite(k, Differing(k, p, b))[c] = p[c]
  BY <1>1 DEF Overwrite, Differing
<1>3. p = [c \in Column |-> p[c]]
  BY DEF Cols
<1>4. QED
  BY <1>2, <1>3 DEF Overwrite

\* Nothing differs only if all columns are as they were.
LEMMA NothingDiffers ==
    ASSUME NEW k \in Cols, NEW p \in Cols, NEW b,
           Differing(k, p, b) = NoColumns
    PROVE  p = k
<1>1. \A c \in Column : p[c] # Unset
  BY ColsShape, NoneAssumption
<1>2. \A c \in Column : Differing(k, p, b)[c] = Unset
  BY DEF NoColumns
<1>3. \A c \in Column : p[c] = k[c]
  BY <1>1, <1>2 DEF Differing
<1>4. p = [c \in Column |-> p[c]] /\ k = [c \in Column |-> k[c]]
  BY DEF Cols
<1>5. QED
  BY <1>3, <1>4

\* One column after the other is assigned a number.
LEMMA ExceptType ==
    ASSUME NEW k \in Cols, NEW c \in Column, NEW n \in Nat
    PROVE  [k EXCEPT ![c] = n] \in Cols
<1> DEFINE new == [k EXCEPT ![c] = n]
<1>1. k \in [Column -> Nat \cup {None}] /\ \A d \in NotNull : k[d] # None
  BY DEF Cols
<1>2. new \in [Column -> Nat \cup {None}]
  BY <1>1
<1>3. n # None
  BY NoneAssumption
<1>4. \A d \in Column : new[d] = IF d = c THEN n ELSE k[d]
  BY <1>1
<1>5. \A d \in NotNull : new[d] # None
  BY <1>1, <1>3, <1>4 DEF NotNull, Column
<1>6. QED
  BY <1>2, <1>5 DEF Cols

LEMMA WorthType ==
    ASSUME NEW units \in Nat, NEW nav \in Nat
    PROVE  Worth(units, nav) \in Nat
<1>1. Cent \in Nat /\ Cent > 0
  BY CentAssumption
<1>2. Cent \div 2 \in Nat
  BY <1>1
<1>3. units * nav \in Nat
  OBVIOUS
<1>4. ASSUME NEW m \in Nat
      PROVE  m \div Cent \in Nat
  BY <1>1
<1>5. QED
  BY <1>2, <1>3, <1>4 DEF Worth

LEMMA QuoteShape ==
    ASSUME NEW q \in Quote
    PROVE  q.value \in Nat /\ q.date \in Nat
BY QuoteAssumption

\* What the columns of a valued holding are.
LEMMA ValuedColumns ==
    ASSUME NEW k \in Cols, NEW q \in Quote
    PROVE  /\ ValuedBy(k, q) \in Cols
           /\ ValuedBy(k, q)["current_nav"] = q.value
           /\ ValuedBy(k, q)["valuation_date"] = q.date
           /\ ValuedBy(k, q)["units"] = k["units"]
<1> DEFINE w == Worth(k["units"], q.value)
           a == [k EXCEPT !["current_value"] = w]
           b == [a EXCEPT !["current_nav"] = q.value]
<1>1. w \in Nat /\ q.value \in Nat /\ q.date \in Nat
  BY NotNullColumns, QuoteShape, WorthType
<1>2. "current_value" \in Column /\ "current_nav" \in Column
      /\ "valuation_date" \in Column /\ "units" \in Column
  BY DEF Column
<1>3. ValuedBy(k, q) = [b EXCEPT !["valuation_date"] = q.date]
  BY DEF ValuedBy
<1> HIDE DEF w
<1>4. a \in Cols
  BY <1>1, <1>2, ExceptType
<1>5. b \in Cols
  BY <1>1, <1>2, <1>4, ExceptType
<1>6. ValuedBy(k, q) \in Cols
  BY <1>1, <1>2, <1>3, <1>5, ExceptType
<1>7. QED
  BY <1>2, <1>3, <1>6 DEF Cols

LEMMA RevaluedType ==
    ASSUME NEW k \in Cols, NEW q \in Quote
    PROVE  /\ ValuedBy(k, q) \in Cols
           /\ Revalued(k, q) \in Assignment
           /\ Overwrite(k, Revalued(k, q)) = ValuedBy(k, q)
           /\ Revalued(k, q) = NoColumns => ValuedBy(k, q) = k
           /\ Revalued(k, q)["units"] = Unset
<1> DEFINE b == IF k["units"] * q.value # k["current_value"] * Cent
                THEN {"current_value"} ELSE {}
<1>1. ValuedBy(k, q) \in Cols /\ ValuedBy(k, q)["units"] = k["units"]
  BY ValuedColumns
<1>2. Revalued(k, q) = Differing(k, ValuedBy(k, q), b) /\ "units" \notin b
  BY DEF Revalued
<1> HIDE DEF b
<1>3. ValuedBy(k, q) \in Assignment
  BY <1>1, ColsShape
<1>4. Revalued(k, q)["units"] = Unset
  BY <1>1, <1>2 DEF Differing, Column
<1>5. QED
  BY <1>1, <1>2, <1>3, <1>4, DifferingType, OverwriteDiffering, NothingDiffers

\* What a call is, by its operation.
LEMMA CallShape ==
    ASSUME NEW q \in Call
    PROVE  /\ q.op \in {"recalculate", "inflow", "outflow", "edit", "create"}
           /\ q.op = "recalculate" => q \in Recalculate
           /\ q.op \in {"inflow", "outflow"} => q \in Apply
           /\ q.op = "edit" => q \in Edit
           /\ q.op = "create" => q \in Create
BY DEF Call, Recalculate, Apply, Edit, Create

LEMMA AverageType ==
    ASSUME NEW cost \in Nat, NEW units \in Nat \ {0}
    PROVE  /\ AverageNav(cost, units) \in Nat
           /\ 2 * (AverageNav(cost, units) * units - Cent * cost)
                \in -units..units
<1> DEFINE n == Cent * cost
           T == 2 * units
           v == AverageNav(cost, units)
<1>1. n \in Nat /\ T \in Nat /\ T > 0
  BY CentAssumption
<1>2. v = (2 * n + units) \div T
  BY CentAssumption DEF AverageNav
<1>3. /\ v \in Nat
      /\ T * v <= 2 * n + units /\ 2 * n + units < T * v + T
  <2>1. ASSUME NEW a \in Nat, NEW b \in Nat, b > 0
        PROVE  /\ a \div b \in Nat
               /\ b * (a \div b) <= a /\ a < b * (a \div b) + b
    BY <2>1
  <2>2. 2 * n + units \in Nat
    BY <1>1
  <2> HIDE DEF n, T, v
  <2>3. QED
    BY <1>1, <1>2, <2>1, <2>2
<1> HIDE DEF n, v
<1>4. 2 * (v * units - n) = T * v - 2 * n
  BY <1>1, <1>3
<1>5. 2 * (v * units - n) \in -units..units
  BY <1>1, <1>3, <1>4
<1>6. QED
  BY <1>3, <1>5 DEF n, v

\* The columns of a holding after an inflow, and after an outflow.
LEMMA IncreasedColumns ==
    ASSUME NEW q \in Apply, NEW k \in Cols
    PROVE  LET new == Increased(k, q)
           IN  /\ new \in Cols
               /\ new["units"] = k["units"] + q.units
               /\ new["invested_amount"] = k["invested_amount"] + q.amount
               /\ new["current_value"] = k["current_value"] + q.amount
               /\ new["average_nav"] =
                    AverageNav(new["invested_amount"], new["units"])
               /\ new["current_nav"] = q.nav
               /\ new["valuation_date"] = q.date
<1> DEFINE units == k["units"] + q.units
           cost == k["invested_amount"] + q.amount
           value == k["current_value"] + q.amount
           price == AverageNav(cost, units)
           a == [k EXCEPT !["units"] = units]
           b == [a EXCEPT !["invested_amount"] = cost]
           c == [b EXCEPT !["current_value"] = value]
           d == [c EXCEPT !["average_nav"] = price]
           e == [d EXCEPT !["current_nav"] = q.nav]
           f == [e EXCEPT !["valuation_date"] = q.date]
<1>1. units \in Nat \ {0} /\ cost \in Nat /\ value \in Nat
      /\ q.nav \in Nat /\ q.date \in Nat
  BY NotNullColumns DEF Apply
<1>2. price \in Nat
  BY <1>1, AverageType
<1>3. Increased(k, q) = f
  BY DEF Increased, Cols, Column
<1> HIDE DEF units, cost, value, price
<1>4. Column = {"units", "invested_amount", "current_value", "average_nav",
                "current_nav", "valuation_date"}
  BY DEF Column
<1>5. a \in Cols /\ b \in Cols /\ c \in Cols
  <2>1. a \in Cols
    BY <1>1, <1>4, ExceptType
  <2>2. b \in Cols
    BY <1>1, <1>4, <2>1, ExceptType
  <2>3. QED
    BY <1>1, <1>4, <2>1, <2>2, ExceptType
<1>6. d \in Cols /\ e \in Cols /\ f \in Cols
  <2>1. d \in Cols
    BY <1>2, <1>4, <1>5, ExceptType
  <2>2. e \in Cols
    BY <1>1, <1>4, <2>1, ExceptType
  <2>3. QED
    BY <1>1, <1>4, <2>1, <2>2, ExceptType
<1>7. /\ f["units"] = units /\ f["invested_amount"] = cost
      /\ f["current_value"] = value /\ f["average_nav"] = price
      /\ f["current_nav"] = q.nav /\ f["valuation_date"] = q.date
  BY <1>4, <1>5, <1>6 DEF Cols
<1>8. QED
  BY <1>3, <1>6, <1>7 DEF units, cost, value, price

LEMMA ReducedColumns ==
    ASSUME NEW q \in Apply, NEW k \in Cols, NEW value \in Nat,
           NEW cost \in Nat, q.units <= k["units"]
    PROVE  LET new == Reduced(k, q, value, cost)
           IN  /\ new \in Cols
               /\ new["units"] = k["units"] - q.units
               /\ new["invested_amount"] = cost
               /\ new["current_value"] = value
               /\ new["average_nav"] = k["average_nav"]
               /\ new["current_nav"] = q.nav
               /\ new["valuation_date"] = q.date
<1> DEFINE units == k["units"] - q.units
           a == [k EXCEPT !["units"] = units]
           b == [a EXCEPT !["invested_amount"] = cost]
           c == [b EXCEPT !["current_value"] = value]
           d == [c EXCEPT !["current_nav"] = q.nav]
           e == [d EXCEPT !["valuation_date"] = q.date]
<1>1. units \in Nat /\ q.nav \in Nat /\ q.date \in Nat
  BY NotNullColumns DEF Apply
<1>2. Reduced(k, q, value, cost) = e
  BY DEF Reduced, Cols, Column
<1> HIDE DEF units
<1>3. Column = {"units", "invested_amount", "current_value", "average_nav",
                "current_nav", "valuation_date"}
  BY DEF Column
<1>4. a \in Cols /\ b \in Cols /\ c \in Cols
  <2>1. a \in Cols
    BY <1>1, <1>3, ExceptType
  <2>2. b \in Cols
    BY <1>3, <2>1, ExceptType
  <2>3. QED
    BY <1>3, <2>1, <2>2, ExceptType
<1>5. d \in Cols /\ e \in Cols
  <2>1. d \in Cols
    BY <1>1, <1>3, <1>4, ExceptType
  <2>2. QED
    BY <1>1, <1>3, <2>1, ExceptType
<1>6. /\ e["units"] = units /\ e["invested_amount"] = cost
      /\ e["current_value"] = value /\ e["average_nav"] = k["average_nav"]
      /\ e["current_nav"] = q.nav /\ e["valuation_date"] = q.date
  BY <1>3, <1>4, <1>5 DEF Cols
<1>7. QED
  BY <1>2, <1>5, <1>6 DEF units

LEMMA AssignedType ==
    ASSUME NEW q \in Call, NEW k \in Cols,
           q.op \in {"inflow", "outflow", "edit"},
           NEW p \in Assigned(q, k)
    PROVE  p \in Assignment
<1>1. CASE q.op = "inflow"
  <2>1. q \in Apply
    BY <1>1, CallShape
  <2>2. Increased(k, q) \in Assignment
    BY <2>1, IncreasedColumns, ColsShape
  <2>3. QED
    BY <1>1, <2>2, DifferingType DEF Assigned
<1>2. CASE q.op = "outflow"
  <2>1. q \in Apply
    BY <1>2, CallShape
  <2>2. PICK value \in Remainders(k["current_value"], q.units, k["units"]),
             cost \in Remainders(k["invested_amount"], q.units, k["units"]) :
          p = Differing(k, Reduced(k, q, value, cost),
                        {c \in {"current_value", "invested_amount"} :
                           k[c] # 0})
    BY <1>2 DEF Assigned
  <2>3. q.units <= k["units"] /\ value \in Nat /\ cost \in Nat
    BY NotNullColumns DEF Remainders
  <2>4. Reduced(k, q, value, cost) \in Assignment
    BY <2>1, <2>3, ReducedColumns, ColsShape
  <2>5. QED
    BY <2>2, <2>4, DifferingType
<1>3. CASE q.op = "edit"
  <2>1. q.cols \in Assignment
    BY <1>3, CallShape DEF Edit
  <2>2. QED
    BY <1>3, <2>1, DifferingType DEF Assigned
<1>4. QED
  BY <1>1, <1>2, <1>3

LEMMA UpdatedType ==
    ASSUME TypeOK, NEW r \in Req, NEW x \in RowId, holdings[x] # None
    PROVE  /\ Updated(r, x) \in Row
           /\ Updated(r, x).scheme = holdings[x].scheme
           /\ Updated(r, x).advisor_id = holdings[x].advisor_id
<1>1. holdings[x] \in Row /\ dirty[r][x] \in Assignment
  BY DEF TypeOK
<1>2. Overwrite(holdings[x].cols, dirty[r][x]) \in Cols
  BY <1>1, OverwriteType DEF Row
<1>3. (holdings[x].is_active /\ ~Deactivates(call[r])) \in BOOLEAN
  BY <1>1 DEF Row
<1>4. QED
  BY <1>1, <1>2, <1>3 DEF Updated, Row

-----------------------------------------------------------------------------
(* The steps.                                                              *)

Control == \A r \in Req : ControlAt(r)

\* Load accepts the call and assigns p; Insert stores the row under x.
LoadAssigns(r, p) ==
    LET x == call[r].id
    IN  /\ pc[r] = "load" /\ Active(x)
        /\ p \in Assigned(call[r], holdings[x].cols)
        /\ dirty' = [dirty EXCEPT ![r][x] = p]
        /\ todo' = [todo EXCEPT ![r] =
                      IF p # NoColumns \/ Deactivates(call[r])
                      THEN {x} ELSE {}]
        /\ pc' = [pc EXCEPT ![r] = FlushOrCommit(todo'[r])]
        /\ loaded' = [loaded EXCEPT ![r][x] = holdings[x]]
        /\ UNCHANGED <<holdings, navs, call, write, history>>

InsertStores(r, x) ==
    /\ pc[r] = "insert"
    /\ holdings[x] = None /\ ~RowLocked(r, x)
    /\ write' = [write EXCEPT ![r][x] = call[r].row]
    /\ pc' = [pc EXCEPT ![r] = "commit"]
    /\ UNCHANGED <<holdings, navs, call, loaded, dirty, todo, history>>

\* The attributes of r's objects when the NAV q for holding x is found.
Assigns(r, x, q) ==
    [y \in RowId |-> IF y \in SameScheme(r, x)
                     THEN Revalued(loaded[r][y].cols, q) ELSE dirty[r][y]]

NoNav(r, x) ==
    /\ pc[r] = "quote" /\ x \in todo[r]
    /\ LatestNav(loaded[r][x].scheme) = {}
    /\ Valued(r, {x}, dirty[r])

FoundNav(r, x, q) ==
    /\ pc[r] = "quote" /\ x \in todo[r]
    /\ q \in LatestNav(loaded[r][x].scheme)
    /\ Valued(r, SameScheme(r, x), Assigns(r, x, q))

\* What a step of the system is.
LEMMA StepCases ==
    ASSUME TypeOK, Control, [Next]_vars
    PROVE  \/ UNCHANGED vars
           \/ \E r \in Req :
                \/ Reject(r)
                \/ \E q \in Workload : Receive(r, q)
                \/ \E s \in Scheme : \E old, new \in SUBSET Quote :
                     ChangeNav(r, s, old, new)
                \/ List(r)
                \/ \E x \in RowId :
                     \/ NoNav(r, x)
                     \/ \E q \in Quote : FoundNav(r, x, q)
                \/ \E p \in Assignment : LoadAssigns(r, p)
                \/ \E x \in RowId : InsertStores(r, x)
                \/ \E x \in RowId : Flush(r, x)
                \/ Commit(r)
<1>1. CASE UNCHANGED vars
  BY <1>1
<1>2. CASE Quiescent
  BY <1>2 DEF Quiescent
<1>3. ASSUME NEW r \in Req, Refuse(r) \/ Fail(r)
      PROVE  Reject(r)
  BY <1>3 DEF Refuse, Fail
<1>4. ASSUME NEW r \in Req, NEW s \in Scheme, NEW old \in SUBSET navs[s]
      PROVE  old \in SUBSET Quote
  BY DEF TypeOK
<1>5. ASSUME NEW r \in Req, NEW x \in RowId, ReadNav(r, x)
      PROVE  NoNav(r, x) \/ \E q \in Quote : FoundNav(r, x, q)
  <2>1. x \in todo[r]
    BY <1>5 DEF ReadNav
  <2>2. loaded[r][x] # None
    BY <2>1 DEF Control, ControlAt
  <2>3. loaded[r][x].scheme \in Scheme
    BY <2>2 DEF TypeOK, Row
  <2>4. LatestNav(loaded[r][x].scheme) \subseteq Quote
    BY <2>3 DEF LatestNav, TypeOK
  <2>5. QED
    BY <1>5, <2>4 DEF ReadNav, NoNav, FoundNav, Assigns
<1>6. ASSUME NEW r \in Req, Load(r), ~Reject(r)
      PROVE  \E p \in Assignment : LoadAssigns(r, p)
  <2>1. PICK p \in Assigned(call[r], holdings[call[r].id].cols) :
          LoadAssigns(r, p)
    BY <1>6 DEF Load, LoadAssigns
  <2>2. call[r] # None /\ call[r].op \in {"inflow", "outflow", "edit"}
    BY <1>6 DEF Load, Control, ControlAt, Running
  <2>3. call[r] \in Call
    BY <2>2 DEF TypeOK
  <2>4. call[r].id \in RowId
    BY <2>2, <2>3, CallShape DEF Apply, Edit
  <2>5. holdings[call[r].id].cols \in Cols
    BY <2>1, <2>4 DEF LoadAssigns, Active, TypeOK, Row
  <2>6. p \in Assignment
    BY <2>1, <2>2, <2>3, <2>5, AssignedType
  <2>7. QED
    BY <2>1, <2>6
<1>7. ASSUME NEW r \in Req, Insert(r), ~Reject(r)
      PROVE  \E x \in RowId : InsertStores(r, x)
  BY <1>7 DEF Insert, InsertStores
<1>8. QED
  BY <1>1, <1>2, <1>3, <1>4, <1>5, <1>6, <1>7 DEF Next, Step

-----------------------------------------------------------------------------
(* Type correctness.                                                       *)

LEMMA NothingType ==
    /\ Nothing \in [RowId -> Row \cup {None}]
    /\ NothingAssigned \in [RowId -> Assignment]
    /\ NoColumns \in Assignment
BY NoneAssumption
   DEF Nothing, NothingAssigned, NoColumns, Assignment, Column, NotNull

LEMMA TypeInit == Init => TypeOK
BY SeedAssumption, NothingType DEF Init, TypeOK

LEMMA TypeStep ==
    ASSUME TypeOK, Control, \A r \in Req, x \in RowId : WriteAt(r, x),
           [Next]_vars
    PROVE  TypeOK'
<1>1. CASE UNCHANGED vars
  BY <1>1 DEF TypeOK, vars, session, history
<1>2. ASSUME NEW r \in Req, Close(r)
      PROVE  /\ (pc \in [Req -> {"idle", "list", "quote", "load", "insert",
                                 "flush", "commit", "done"}])'
             /\ call' = call
             /\ loaded' \in [Req -> [RowId -> Row \cup {None}]]
             /\ dirty' \in [Req -> [RowId -> Assignment]]
             /\ todo' \in [Req -> SUBSET RowId]
             /\ write' \in [Req -> [RowId -> Row \cup {None}]]
  BY <1>2, NothingType DEF Close, TypeOK
<1>3. ASSUME NEW r \in Req, Reject(r)
      PROVE  TypeOK'
  BY <1>2, <1>3 DEF Reject, TypeOK, history
<1>4. ASSUME NEW r \in Req, NEW q \in Workload, Receive(r, q)
      PROVE  TypeOK'
  <2>1. q \in Call
    BY WorkloadAssumption
  <2>2. QED
    BY <1>4, <2>1 DEF Receive, TypeOK, history
<1>5. ASSUME NEW r \in Req, NEW s \in Scheme, NEW old \in SUBSET Quote,
             NEW new \in SUBSET Quote, ChangeNav(r, s, old, new)
      PROVE  TypeOK'
  <2>1. navs' \in [Scheme -> SUBSET Quote]
    BY <1>5 DEF ChangeNav, TypeOK
  <2>2. published' \in [Req -> [Scheme -> SUBSET SUBSET Quote]]
    BY <1>5, <2>1 DEF ChangeNav, TypeOK
  <2>3. QED
    BY <1>5, <2>1, <2>2 DEF ChangeNav, TypeOK, session
<1>6. ASSUME NEW r \in Req, List(r)
      PROVE  TypeOK'
  BY <1>6 DEF List, Listed, TypeOK
<1>7. ASSUME NEW r \in Req, NEW S, NEW d \in [RowId -> Assignment],
             Valued(r, S, d)
      PROVE  TypeOK'
  <2>1. dirty' \in [Req -> [RowId -> Assignment]]
    BY <1>7 DEF Valued, TypeOK
  <2>2. todo' \in [Req -> SUBSET RowId]
    <3>1. todo \in [Req -> SUBSET RowId] /\ todo[r] \ S \in SUBSET RowId
      BY DEF TypeOK
    <3>2. {x \in RowId : d[x] # NoColumns} \in SUBSET RowId
      OBVIOUS
    <3>3. QED
      BY <1>7, <3>1, <3>2 DEF Valued
  <2>3. (pc \in [Req -> {"idle", "list", "quote", "load", "insert", "flush",
                         "commit", "done"}])'
    BY <1>7 DEF Valued, FlushOrCommit, TypeOK
  <2>4. QED
    BY <1>7, <2>1, <2>2, <2>3 DEF Valued, TypeOK, history
<1>8. ASSUME NEW r \in Req, NEW x \in RowId, NoNav(r, x)
      PROVE  TypeOK'
  BY <1>7, <1>8 DEF NoNav, TypeOK
<1>9. ASSUME NEW r \in Req, NEW x \in RowId, NEW q \in Quote, FoundNav(r, x, q)
      PROVE  TypeOK'
  <2>1. ASSUME NEW y \in SameScheme(r, x)
        PROVE  Revalued(loaded[r][y].cols, q) \in Assignment
    <3>1. loaded[r][y] # None /\ y \in RowId
      BY DEF SameScheme, Control, ControlAt, TypeOK
    <3>2. QED
      BY <3>1, RevaluedType DEF TypeOK, Row
  <2>2. Assigns(r, x, q) \in [RowId -> Assignment]
    BY <2>1 DEF Assigns, TypeOK
  <2>3. QED
    BY <1>7, <1>9, <2>2 DEF FoundNav
<1>10. ASSUME NEW r \in Req, NEW p \in Assignment, LoadAssigns(r, p)
       PROVE  TypeOK'
  <2>1. call[r] # None /\ call[r].op \in {"inflow", "outflow", "edit"}
    BY <1>10 DEF LoadAssigns, Control, ControlAt, Running
  <2>2. call[r].id \in RowId
    BY <2>1, CallShape DEF TypeOK, Apply, Edit
  <2>3. QED
    BY <1>10, <2>2 DEF LoadAssigns, FlushOrCommit, TypeOK, history
<1>11. ASSUME NEW r \in Req, NEW x \in RowId, InsertStores(r, x)
       PROVE  TypeOK'
  <2>1. call[r] # None /\ call[r].op = "create"
    BY <1>11 DEF InsertStores, Control, ControlAt, Running
  <2>2. call[r].row \in Row
    BY <2>1, CallShape DEF TypeOK, Create
  <2>3. QED
    BY <1>11, <2>2 DEF InsertStores, TypeOK, history
<1>12. ASSUME NEW r \in Req, NEW x \in RowId, Flush(r, x)
       PROVE  TypeOK'
  <2>1. holdings[x] # None
    BY <1>12 DEF Flush, NextToFlush, Control, ControlAt
  <2>2. Updated(r, x) \in Row
    BY <2>1, UpdatedType
  <2>3. QED
    BY <1>12, <2>2 DEF Flush, FlushOrCommit, TypeOK, history
<1>13. ASSUME NEW r \in Req, Commit(r)
       PROVE  TypeOK'
  <2>1. holdings' \in [RowId -> Row \cup {None}]
    BY <1>13 DEF Commit, TypeOK
  <2>2. QED
    BY <1>2, <1>13, <2>1 DEF Commit, TypeOK
<1>14. QED
  BY <1>1, <1>3, <1>4, <1>5, <1>6, <1>8, <1>9, <1>10, <1>11, <1>12, <1>13,
     StepCases

-----------------------------------------------------------------------------
(* Control: where requests are and what their sessions hold.               *)

\* Rows stay, in their scheme and with their advisor.
KeepsRows ==
    \A x \in RowId :
        holdings[x] # None
        => /\ holdings'[x] # None
           /\ holdings'[x].scheme = holdings[x].scheme
           /\ holdings'[x].advisor_id = holdings[x].advisor_id

LEMMA RowsAreKept ==
    ASSUME TypeOK, \A r \in Req, x \in RowId : WriteAt(r, x),
           NEW r \in Req, holdings' = holdings \/ Commit(r)
    PROVE  KeepsRows
<1>1. CASE holdings' = holdings
  BY <1>1 DEF KeepsRows
<1>2. CASE Commit(r)
  <2>1. SUFFICES ASSUME NEW x \in RowId, holdings[x] # None
                 PROVE  /\ holdings'[x] # None
                        /\ holdings'[x].scheme = holdings[x].scheme
                        /\ holdings'[x].advisor_id = holdings[x].advisor_id
    BY DEF KeepsRows
  <2>2. CASE write[r][x] = None
    BY <1>2, <2>1, <2>2 DEF Commit
  <2>3. CASE write[r][x] # None
    <3>1. write[r][x] = Updated(r, x)
      BY <2>1, <2>3 DEF WriteAt
    <3>2. holdings'[x] = Updated(r, x)
      BY <1>2, <2>3, <3>1 DEF Commit
    <3>3. QED
      BY <2>1, <3>2, UpdatedType, NoneAssumption
  <2>4. QED
    BY <2>2, <2>3
<1>3. QED
  BY <1>1, <1>2

\* What other sessions do does not concern the control of a request.
LEMMA ControlOfOthers ==
    ASSUME NEW o \in Req, ControlAt(o), KeepsRows,
           pc'[o] = pc[o], call'[o] = call[o], loaded'[o] = loaded[o],
           dirty'[o] = dirty[o], todo'[o] = todo[o],
           o \in committed' => o \in committed
    PROVE  ControlAt(o)'
<1>1. ASSUME NEW x \in RowId
      PROVE  /\ x \in todo'[o] \/ dirty'[o][x] # NoColumns
                => loaded'[o][x] # None
             /\ loaded'[o][x] # None
                => /\ holdings'[x] # None
                   /\ loaded'[o][x].scheme = holdings'[x].scheme
                   /\ loaded'[o][x].advisor_id = holdings'[x].advisor_id
                   /\ loaded'[o][x].is_active
                   /\ call'[o].op # "create"
  BY DEF ControlAt, KeepsRows
<1>2. QED
  BY <1>1 DEF ControlAt, Running

\* A closed session holds nothing.
LEMMA ControlOfClosed ==
    ASSUME TypeOK, NEW r \in Req, Close(r)
    PROVE  ControlAt(r)'
<1>1. /\ pc'[r] = "done" /\ loaded'[r] = Nothing
      /\ dirty'[r] = NothingAssigned /\ todo'[r] = {}
  BY DEF Close, TypeOK
<1>2. \A x \in RowId : loaded'[r][x] = None /\ dirty'[r][x] = NoColumns
  BY <1>1 DEF Nothing, NothingAssigned
<1>3. QED
  BY <1>1, <1>2 DEF ControlAt, Running

LEMMA ControlInit == Init => Control
<1>1. ASSUME Init, NEW r \in Req
      PROVE  ControlAt(r)
  BY <1>1 DEF Init, ControlAt, Running, Nothing, NothingAssigned
<1>2. QED
  BY <1>1 DEF Control

LEMMA ControlStep ==
    ASSUME TypeOK, Control, \A r \in Req, x \in RowId : WriteAt(r, x),
           [Next]_vars
    PROVE  Control'
<1>1. CASE UNCHANGED vars
  BY <1>1 DEF Control, ControlAt, Running, vars, session, history
<1>2. ASSUME NEW r \in Req, Reject(r)
      PROVE  Control'
  <2>1. KeepsRows
    BY <1>2, RowsAreKept DEF Reject
  <2>2. ASSUME NEW o \in Req \ {r}
        PROVE  ControlAt(o)'
    BY <1>2, <2>1, ControlOfOthers DEF Control, Reject, Close, TypeOK, history
  <2>3. ControlAt(r)'
    BY <1>2, ControlOfClosed DEF Reject
  <2>4. QED
    BY <2>2, <2>3 DEF Control
<1>3. ASSUME NEW r \in Req, Commit(r)
      PROVE  Control'
  <2>1. KeepsRows
    BY <1>3, RowsAreKept
  <2>2. ASSUME NEW o \in Req \ {r}
        PROVE  ControlAt(o)'
    BY <1>3, <2>1, ControlOfOthers DEF Control, Commit, Close, TypeOK
  <2>3. ControlAt(r)'
    BY <1>3, ControlOfClosed DEF Commit
  <2>4. QED
    BY <2>2, <2>3 DEF Control
<1>4. ASSUME NEW r \in Req, NEW q \in Workload, Receive(r, q)
      PROVE  Control'
  <2>1. KeepsRows
    BY <1>4, RowsAreKept DEF Receive
  <2>2. ASSUME NEW o \in Req \ {r}
        PROVE  ControlAt(o)'
    BY <1>4, <2>1, ControlOfOthers DEF Control, Receive, TypeOK, history
  <2>3. q \in Call /\ q # None
    BY WorkloadAssumption, NoneAssumption
  <2>4. ControlAt(r)'
    <3>1. /\ loaded[r] = Nothing /\ dirty[r] = NothingAssigned /\ todo[r] = {}
          /\ r \notin committed
      BY <1>4 DEF Receive, Control, ControlAt
    <3>2. /\ call'[r] = q
          /\ pc'[r] = CASE q.op = "recalculate" -> "list"
                        [] q.op = "create" -> "insert"
                        [] OTHER -> "load"
      BY <1>4 DEF Receive, TypeOK
    <3>3. \A x \in RowId : loaded'[r][x] = None /\ dirty'[r][x] = NoColumns
      BY <1>4, <3>1 DEF Receive, Nothing, NothingAssigned
    <3>4. \/ q.op = "recalculate" /\ pc'[r] = "list"
          \/ q.op = "create" /\ pc'[r] = "insert"
          \/ q.op \in {"inflow", "outflow", "edit"} /\ pc'[r] = "load"
      BY <2>3, <3>2, CallShape
    <3>5. QED
      BY <1>4, <2>3, <3>1, <3>2, <3>3, <3>4 DEF Receive, ControlAt, Running,
         history
  <2>5. QED
    BY <2>2, <2>4 DEF Control
<1>5. ASSUME NEW r \in Req, NEW s \in Scheme, NEW old \in SUBSET Quote,
             NEW new \in SUBSET Quote, ChangeNav(r, s, old, new)
      PROVE  Control'
  <2>1. KeepsRows
    BY <1>5, RowsAreKept DEF ChangeNav
  <2>2. ASSUME NEW o \in Req \ {r}
        PROVE  ControlAt(o)'
    BY <1>5, <2>1, ControlOfOthers DEF Control, ChangeNav, TypeOK, session
  <2>3. ControlAt(r)'
    BY <1>5 DEF ChangeNav, Control, ControlAt, Running, TypeOK, session
  <2>4. QED
    BY <2>2, <2>3 DEF Control
<1>6. ASSUME NEW r \in Req, List(r)
      PROVE  Control'
  <2>1. KeepsRows
    BY <1>6, RowsAreKept DEF List
  <2>2. ASSUME NEW o \in Req \ {r}
        PROVE  ControlAt(o)'
    BY <1>6, <2>1, ControlOfOthers DEF Control, List, TypeOK
  <2>3. ControlAt(r)'
    <3>1. /\ call[r] # None /\ call[r].op = "recalculate" /\ r \notin committed
          /\ dirty[r] = NothingAssigned
      BY <1>6 DEF List, Control, ControlAt, Running
    <3>2. /\ pc'[r] = IF Listed(r) = {} THEN "commit" ELSE "quote"
          /\ todo'[r] = Listed(r)
          /\ loaded'[r] = [x \in RowId |-> IF x \in Listed(r) THEN holdings[x]
                                           ELSE None]
      BY <1>6 DEF List, TypeOK
    <3>3. ASSUME NEW x \in RowId
          PROVE  /\ dirty'[r][x] = NoColumns
                 /\ x \in todo'[r] => loaded'[r][x] # None
                 /\ loaded'[r][x] # None
                    => holdings[x] = loaded'[r][x] /\ holdings[x].is_active
      BY <1>6, <3>1, <3>2 DEF List, NothingAssigned, Listed, Active
    <3>4. QED
      BY <1>6, <3>1, <3>2, <3>3 DEF List, ControlAt, Running
  <2>4. QED
    BY <2>2, <2>3 DEF Control
<1>7. ASSUME NEW r \in Req, NEW S, NEW d \in [RowId -> Assignment],
             pc[r] = "quote", Valued(r, S, d),
             \A y \in RowId : d[y] # NoColumns => loaded[r][y] # None
      PROVE  Control'
  <2>1. KeepsRows
    BY <1>7, RowsAreKept DEF Valued
  <2>2. ASSUME NEW o \in Req \ {r}
        PROVE  ControlAt(o)'
    <3>1. /\ pc'[o] = pc[o] /\ call'[o] = call[o] /\ loaded'[o] = loaded[o]
          /\ dirty'[o] = dirty[o] /\ todo'[o] = todo[o]
          /\ committed' = committed
      BY <1>7 DEF Valued, TypeOK, history
    <3>2. QED
      BY <2>1, <3>1, ControlOfOthers DEF Control
  <2>3. ControlAt(r)'
    <3>1. /\ call[r] # None /\ call[r].op = "recalculate" /\ r \notin committed
      BY <1>7 DEF Control, ControlAt, Running
    <3>2. /\ dirty'[r] = d /\ loaded' = loaded /\ call' = call
          /\ holdings' = holdings /\ committed' = committed
      BY <1>7 DEF Valued, TypeOK, history
    <3>3. /\ todo'[r] \subseteq todo[r] \cup {y \in RowId : d[y] # NoColumns}
          /\ \/ pc'[r] \in {"quote", "flush"} /\ todo'[r] # {}
             \/ pc'[r] = "commit" /\ todo'[r] = {}
      <4>1. CASE todo[r] \subseteq S
        <5>1. todo'[r] = {y \in RowId : d[y] # NoColumns}
          BY <1>7, <4>1 DEF Valued, TypeOK
        <5>2. pc'[r] = FlushOrCommit(todo'[r])
          BY <1>7, <4>1 DEF Valued, TypeOK
        <5>3. QED
          BY <5>1, <5>2 DEF FlushOrCommit
      <4>2. CASE ~(todo[r] \subseteq S)
        BY <1>7, <4>2 DEF Valued, TypeOK
      <4>3. QED
        BY <4>1, <4>2
    <3>4. ASSUME NEW x \in RowId
          PROVE  /\ x \in todo'[r] \/ dirty'[r][x] # NoColumns
                    => loaded'[r][x] # None
                 /\ loaded'[r][x] # None
                    => /\ holdings'[x] # None
                       /\ loaded'[r][x].scheme = holdings'[x].scheme
                       /\ loaded'[r][x].advisor_id = holdings'[x].advisor_id
                       /\ loaded'[r][x].is_active
                       /\ call'[r].op # "create"
      BY <1>7, <3>2, <3>3 DEF Control, ControlAt
    <3>5. QED
      BY <3>1, <3>2, <3>3, <3>4 DEF ControlAt, Running
  <2>4. QED
    BY <2>2, <2>3 DEF Control
<1>8. ASSUME NEW r \in Req, NEW x \in RowId, NoNav(r, x)
      PROVE  Control'
  <2>1. dirty[r] \in [RowId -> Assignment]
    BY DEF TypeOK
  <2>2. \A y \in RowId : dirty[r][y] # NoColumns => loaded[r][y] # None
    BY DEF Control, ControlAt
  <2>3. QED
    BY <1>7, <1>8, <2>1, <2>2 DEF NoNav
<1>9. ASSUME NEW r \in Req, NEW x \in RowId, NEW q \in Quote, FoundNav(r, x, q)
      PROVE  Control'
  <2>1. \A y \in SameScheme(r, x) : y \in RowId /\ loaded[r][y] # None
    BY DEF SameScheme, Control, ControlAt, TypeOK
  <2>2. Assigns(r, x, q) \in [RowId -> Assignment]
    BY <2>1, RevaluedType DEF Assigns, TypeOK, Row
  <2>3. \A y \in RowId :
          Assigns(r, x, q)[y] # NoColumns => loaded[r][y] # None
    BY <2>1 DEF Assigns, Control, ControlAt
  <2>4. QED
    BY <1>7, <1>9, <2>2, <2>3 DEF FoundNav
<1>10. ASSUME NEW r \in Req, NEW p \in Assignment, LoadAssigns(r, p)
       PROVE  Control'
  <2>1. KeepsRows
    BY <1>10, RowsAreKept DEF LoadAssigns
  <2>2. ASSUME NEW o \in Req \ {r}
        PROVE  ControlAt(o)'
    BY <1>10, <2>1, ControlOfOthers DEF Control, LoadAssigns, TypeOK, history
  <2>3. ControlAt(r)'
    <3>1. /\ call[r] # None /\ call[r].op \in {"inflow", "outflow", "edit"}
          /\ r \notin committed
          /\ loaded[r] = Nothing /\ dirty[r] = NothingAssigned
      BY <1>10 DEF LoadAssigns, Control, ControlAt, Running
    <3>2. call[r].id \in RowId /\ Active(call[r].id)
      BY <1>10, <3>1, CallShape DEF LoadAssigns, TypeOK, Apply, Edit
    <3>3. /\ loaded'[r] = [loaded[r] EXCEPT ![call[r].id] = holdings[call[r].id]]
          /\ dirty'[r] = [dirty[r] EXCEPT ![call[r].id] = p]
          /\ todo'[r] \in {{call[r].id}, {}}
          /\ pc'[r] = FlushOrCommit(todo'[r])
      BY <1>10 DEF LoadAssigns, TypeOK
    <3>4. ASSUME NEW x \in RowId
          PROVE  /\ x \in todo'[r] \/ dirty'[r][x] # NoColumns
                    => loaded'[r][x] # None
                 /\ loaded'[r][x] # None
                    => /\ holdings[x] # None
                       /\ loaded'[r][x] = holdings[x]
                       /\ holdings[x].is_active
      <4>1. CASE x = call[r].id
        BY <3>1, <3>2, <3>3, <4>1 DEF Active, Nothing, NothingAssigned
      <4>2. CASE x # call[r].id
        BY <3>1, <3>2, <3>3, <4>2 DEF Nothing, NothingAssigned
      <4>3. QED
        BY <4>1, <4>2
    <3>5. \/ pc'[r] = "flush" /\ todo'[r] # {}
          \/ pc'[r] = "commit" /\ todo'[r] = {}
      BY <3>3 DEF FlushOrCommit
    <3>6. QED
      BY <1>10, <3>1, <3>4, <3>5 DEF LoadAssigns, ControlAt, Running, history
  <2>4. QED
    BY <2>2, <2>3 DEF Control
<1>11. ASSUME NEW r \in Req, NEW x \in RowId, InsertStores(r, x)
       PROVE  Control'
  <2>1. KeepsRows
    BY <1>11, RowsAreKept DEF InsertStores
  <2>2. ASSUME NEW o \in Req \ {r}
        PROVE  ControlAt(o)'
    BY <1>11, <2>1, ControlOfOthers DEF Control, InsertStores, TypeOK, history
  <2>3. ControlAt(r)'
    BY <1>11 DEF InsertStores, Control, ControlAt, Running, TypeOK, history,
       Nothing, NothingAssigned
  <2>4. QED
    BY <2>2, <2>3 DEF Control
<1>12. ASSUME NEW r \in Req, NEW x \in RowId, Flush(r, x)
       PROVE  Control'
  <2>1. KeepsRows
    BY <1>12, RowsAreKept DEF Flush
  <2>2. ASSUME NEW o \in Req \ {r}
        PROVE  ControlAt(o)'
    BY <1>12, <2>1, ControlOfOthers DEF Control, Flush, TypeOK, history
  <2>3. ControlAt(r)'
    <3>1. /\ todo'[r] = todo[r] \ {x} /\ pc'[r] = FlushOrCommit(todo'[r])
          /\ call[r] # None /\ r \notin committed /\ call[r].op # "create"
      BY <1>12 DEF Flush, TypeOK, Control, ControlAt, Running
    <3>2. \/ pc'[r] = "flush" /\ todo'[r] # {}
          \/ pc'[r] = "commit" /\ todo'[r] = {}
      BY <3>1 DEF FlushOrCommit
    <3>3. QED
      BY <1>12, <3>1, <3>2 DEF Flush, Control, ControlAt, Running, history
  <2>4. QED
    BY <2>2, <2>3 DEF Control
<1>13. QED
  BY <1>1, <1>2, <1>3, <1>4, <1>5, <1>6, <1>8, <1>9, <1>10, <1>11, <1>12,
     StepCases

-----------------------------------------------------------------------------
(* Flushed rows, and the order of locks.                                   *)

Writes == \A r \in Req, x \in RowId : WriteAt(r, x)

\* The session of o is as it was, and so is what it has written.
LEMMA WritesOfOthers ==
    ASSUME NEW o \in Req, NEW x \in RowId, WriteAt(o, x),
           pc'[o] = pc[o], call'[o] = call[o], loaded'[o] = loaded[o],
           dirty'[o] = dirty[o], todo'[o] = todo[o], write'[o] = write[o],
           write[o][x] # None => /\ holdings'[x] = holdings[x]
                                 /\ RowLocked(o, x)' => RowLocked(o, x)
    PROVE  WriteAt(o, x)'
<1>1. CASE write[o][x] = None
  BY <1>1 DEF WriteAt
<1>2. CASE write[o][x] # None
  <2>1. Updated(o, x)' = Updated(o, x)
    BY <1>2 DEF Updated, Deactivates
  <2>2. ~RowLocked(o, x)'
    BY <1>2 DEF WriteAt
  <2>3. QED
    BY <1>2, <2>1, <2>2 DEF WriteAt
<1>3. QED
  BY <1>1, <1>2

\* A session that has written nothing, and has to flush what it has changed.
LEMMA WritesOfReader ==
    ASSUME NEW r \in Req, NEW x \in RowId, write'[r][x] = None,
           dirty'[r][x] # NoColumns
           => x \in todo'[r] \/ pc'[r] \notin {"flush", "commit"}
    PROVE  WriteAt(r, x)'
BY DEF WriteAt

LEMMA WritesOfClosed ==
    ASSUME TypeOK, NEW r \in Req, NEW x \in RowId, Close(r)
    PROVE  WriteAt(r, x)'
<1>1. write'[r][x] = None /\ dirty'[r][x] = NoColumns
  BY DEF Close, TypeOK, Nothing, NothingAssigned
<1>2. QED
  BY <1>1 DEF WriteAt

LEMMA WritesInit == Init => Writes
BY DEF Init, Writes, WriteAt, Nothing, NothingAssigned

LEMMA WritesStep ==
    ASSUME TypeOK, Control, Writes, [Next]_vars
    PROVE  Writes'
<1>1. CASE UNCHANGED vars
  <2>1. UNCHANGED <<holdings, pc, call, loaded, dirty, todo, write>>
    BY <1>1 DEF vars, session
  <2>2. \A r \in Req, x \in RowId :
          Updated(r, x)' = Updated(r, x) /\ (RowLocked(r, x)' <=> RowLocked(r, x))
    BY <2>1 DEF Updated, Deactivates, RowLocked
  <2>3. QED
    BY <2>1, <2>2 DEF Writes, WriteAt
<1>2. ASSUME NEW r \in Req, Reject(r)
      PROVE  Writes'
  <2>1. ASSUME NEW o \in Req \ {r}, NEW x \in RowId
        PROVE  WriteAt(o, x)'
    <3>1. RowLocked(o, x)' => RowLocked(o, x)
      BY <1>2 DEF RowLocked, Reject, Close, TypeOK, Nothing
    <3>2. QED
      BY <1>2, <3>1, WritesOfOthers DEF Writes, Reject, Close, TypeOK
  <2>2. ASSUME NEW x \in RowId
        PROVE  WriteAt(r, x)'
    BY <1>2, WritesOfClosed DEF Reject
  <2>3. QED
    BY <2>1, <2>2 DEF Writes
<1>3. ASSUME NEW r \in Req, Commit(r)
      PROVE  Writes'
  <2>1. ASSUME NEW o \in Req \ {r}, NEW x \in RowId
        PROVE  WriteAt(o, x)'
    <3>1. RowLocked(o, x)' => RowLocked(o, x)
      BY <1>3 DEF RowLocked, Commit, Close, TypeOK, Nothing
    <3>2. write[o][x] # None => write[r][x] = None
      BY DEF Writes, WriteAt, RowLocked
    <3>3. write[o][x] # None => holdings'[x] = holdings[x]
      BY <1>3, <3>2 DEF Commit
    <3>4. QED
      BY <1>3, <3>1, <3>3, WritesOfOthers DEF Writes, Commit, Close, TypeOK
  <2>2. ASSUME NEW x \in RowId
        PROVE  WriteAt(r, x)'
    BY <1>3, WritesOfClosed DEF Commit
  <2>3. QED
    BY <2>1, <2>2 DEF Writes
<1>4. ASSUME NEW r \in Req, write' = write, holdings' = holdings,
             pc[r] \notin {"flush", "commit"},
             \A x \in RowId :
                dirty'[r][x] # NoColumns
                => x \in todo'[r] \/ pc'[r] \notin {"flush", "commit"},
             \A o \in Req \ {r} :
                /\ pc'[o] = pc[o] /\ call'[o] = call[o]
                /\ loaded'[o] = loaded[o] /\ dirty'[o] = dirty[o]
                /\ todo'[o] = todo[o]
      PROVE  Writes'
  <2>1. ASSUME NEW o \in Req \ {r}, NEW x \in RowId
        PROVE  WriteAt(o, x)'
    <3>1. RowLocked(o, x)' => RowLocked(o, x)
      BY <1>4 DEF RowLocked
    <3>2. QED
      BY <1>4, <3>1, WritesOfOthers DEF Writes
  <2>2. ASSUME NEW x \in RowId
        PROVE  WriteAt(r, x)'
    BY <1>4, WritesOfReader DEF Writes, WriteAt
  <2>3. QED
    BY <2>1, <2>2 DEF Writes
<1>5. ASSUME NEW r \in Req, NEW q \in Workload, Receive(r, q)
      PROVE  Writes'
  <2>1. pc'[r] \notin {"flush", "commit"}
    BY <1>5 DEF Receive, TypeOK
  <2>2. QED
    BY <1>4, <1>5, <2>1 DEF Receive, TypeOK
<1>6. ASSUME NEW r \in Req, NEW s \in Scheme, NEW old \in SUBSET Quote,
             NEW new \in SUBSET Quote, ChangeNav(r, s, old, new)
      PROVE  Writes'
  <2>1. pc'[r] \notin {"flush", "commit"}
    BY <1>6 DEF ChangeNav, TypeOK
  <2>2. QED
    BY <1>4, <1>6, <2>1 DEF ChangeNav, TypeOK, session
<1>7. ASSUME NEW r \in Req, List(r)
      PROVE  Writes'
  <2>1. \A x \in RowId : dirty'[r][x] = NoColumns
    BY <1>7 DEF List, Control, ControlAt, NothingAssigned
  <2>2. QED
    BY <1>4, <1>7, <2>1 DEF List, TypeOK
<1>8. ASSUME NEW r \in Req, NEW S, NEW d \in [RowId -> Assignment],
             pc[r] = "quote", Valued(r, S, d)
      PROVE  Writes'
  <2>1. ASSUME NEW x \in RowId, dirty'[r][x] # NoColumns
        PROVE  x \in todo'[r] \/ pc'[r] \notin {"flush", "commit"}
    <3>1. dirty'[r] = d
      BY <1>8 DEF Valued, TypeOK
    <3>2. CASE todo[r] \subseteq S
      <4>1. todo'[r] = {y \in RowId : d[y] # NoColumns}
        BY <1>8, <3>2 DEF Valued, TypeOK
      <4>2. QED
        BY <2>1, <3>1, <4>1
    <3>3. CASE ~(todo[r] \subseteq S)
      BY <1>8, <3>3 DEF Valued
    <3>4. QED
      BY <3>2, <3>3
  <2>2. \A o \in Req \ {r} :
          /\ pc'[o] = pc[o] /\ dirty'[o] = dirty[o] /\ todo'[o] = todo[o]
    BY <1>8 DEF Valued, TypeOK
  <2>3. /\ write' = write /\ holdings' = holdings
        /\ call' = call /\ loaded' = loaded
    BY <1>8 DEF Valued
  <2>4. QED
    BY <1>4, <1>8, <2>1, <2>2, <2>3
<1>9. ASSUME NEW r \in Req, NEW x \in RowId, NoNav(r, x)
      PROVE  Writes'
  <2>1. dirty[r] \in [RowId -> Assignment]
    BY DEF TypeOK
  <2>2. QED
    BY <1>8, <1>9, <2>1 DEF NoNav
<1>10. ASSUME NEW r \in Req, NEW x \in RowId, NEW q \in Quote, FoundNav(r, x, q)
       PROVE  Writes'
  <2>1. \A y \in SameScheme(r, x) : y \in RowId /\ loaded[r][y] # None
    BY DEF SameScheme, Control, ControlAt, TypeOK
  <2>2. Assigns(r, x, q) \in [RowId -> Assignment]
    BY <2>1, RevaluedType DEF Assigns, TypeOK, Row
  <2>3. QED
    BY <1>8, <1>10, <2>2 DEF FoundNav
<1>11. ASSUME NEW r \in Req, NEW p \in Assignment, LoadAssigns(r, p)
       PROVE  Writes'
  <2>1. dirty[r] = NothingAssigned
    BY <1>11 DEF LoadAssigns, Control, ControlAt
  <2>2. /\ dirty'[r] = [dirty[r] EXCEPT ![call[r].id] = p]
        /\ todo'[r] = IF p # NoColumns \/ Deactivates(call[r])
                      THEN {call[r].id} ELSE {}
    BY <1>11 DEF LoadAssigns, TypeOK
  <2>3. ASSUME NEW x \in RowId, dirty'[r][x] # NoColumns
        PROVE  x \in todo'[r]
    BY <2>1, <2>2, <2>3 DEF NothingAssigned
  <2>4. QED
    BY <1>4, <1>11, <2>3 DEF LoadAssigns, TypeOK
<1>12. ASSUME NEW r \in Req, NEW x \in RowId, InsertStores(r, x)
       PROVE  Writes'
  <2>1. /\ write'[r] = [write[r] EXCEPT ![x] = call[r].row]
        /\ pc'[r] = "commit" /\ todo'[r] = {} /\ dirty'[r] = NothingAssigned
        /\ call'[r] = call[r] /\ call[r].op = "create"
        /\ holdings' = holdings
    BY <1>12 DEF InsertStores, TypeOK, Control, ControlAt
  <2>2. ASSUME NEW o \in Req \ {r}, NEW y \in RowId
        PROVE  WriteAt(o, y)'
    <3>1. write[o][y] # None => y # x
      BY <1>12 DEF InsertStores, RowLocked
    <3>2. write[o][y] # None /\ RowLocked(o, y)' => RowLocked(o, y)
      BY <1>12, <3>1 DEF InsertStores, RowLocked, TypeOK
    <3>3. QED
      BY <1>12, <3>2, WritesOfOthers DEF Writes, InsertStores, TypeOK
  <2>3. ASSUME NEW y \in RowId
        PROVE  WriteAt(r, y)'
    <3>1. write[r][y] = None
      BY <1>12 DEF InsertStores, Writes, WriteAt
    <3>2. dirty'[r][y] = NoColumns
      BY <2>1 DEF NothingAssigned
    <3>3. CASE y = x
      <4>1. write'[r][x] = call[r].row
        BY <2>1 DEF TypeOK
      <4>2. ~RowLocked(r, x)'
        BY <1>12 DEF InsertStores, RowLocked, TypeOK
      <4>3. QED
        BY <1>12, <2>1, <3>2, <3>3, <4>1, <4>2 DEF InsertStores, WriteAt
    <3>4. CASE y # x
      BY <2>1, <3>1, <3>2, <3>4 DEF WriteAt, TypeOK
    <3>5. QED
      BY <3>3, <3>4
  <2>4. QED
    BY <2>2, <2>3 DEF Writes
<1>13. ASSUME NEW r \in Req, NEW x \in RowId, Flush(r, x)
       PROVE  Writes'
  <2>1. /\ write'[r] = [write[r] EXCEPT ![x] = Updated(r, x)]
        /\ todo'[r] = todo[r] \ {x}
        /\ pc'[r] \in {"flush", "commit"}
        /\ UNCHANGED <<holdings, call, loaded, dirty>>
    BY <1>13 DEF Flush, TypeOK, FlushOrCommit
  <2>2. ASSUME NEW o \in Req \ {r}, NEW y \in RowId
        PROVE  WriteAt(o, y)'
    <3>1. write[o][y] # None => y # x
      BY <1>13 DEF Flush, RowLocked
    <3>2. write[o][y] # None /\ RowLocked(o, y)' => RowLocked(o, y)
      BY <1>13, <3>1 DEF Flush, RowLocked, TypeOK
    <3>3. QED
      BY <1>13, <3>2, WritesOfOthers DEF Writes, Flush, TypeOK
  <2>3. ASSUME NEW y \in RowId
        PROVE  WriteAt(r, y)'
    <3>1. Updated(r, y)' = Updated(r, y)
      BY <2>1 DEF Updated, Deactivates
    <3>2. x \in todo[r] /\ \A z \in todo[r] : x <= z
      BY <1>13 DEF Flush, NextToFlush
    <3>3. pc[r] = "flush" /\ call[r].op # "create" /\ loaded[r][x] # None
      BY <1>13, <3>2 DEF Flush, Control, ControlAt
    <3>4. RowLocked(r, y)' <=> RowLocked(r, y)
      BY <1>13 DEF Flush, RowLocked, TypeOK
    <3>5. CASE y = x
      <4>1. write'[r][y] = Updated(r, y)
        BY <2>1, <3>5 DEF TypeOK
      <4>2. ~RowLocked(r, y)'
        BY <1>13, <3>4, <3>5 DEF Flush
      <4>3. \A z \in todo'[r] : y < z
        <5>1. todo[r] \subseteq Nat
          BY IdAssumption DEF TypeOK
        <5>2. \A z \in todo[r] \ {x} : x < z
          BY <3>2, <5>1
        <5>3. QED
          BY <2>1, <3>5, <5>2
      <4>4. write'[r][y] # None
        <5>1. holdings[x] # None
          BY <3>3 DEF Control, ControlAt
        <5>2. QED
          BY <3>5, <4>1, <5>1, UpdatedType, NoneAssumption
      <4>5. QED
        BY <2>1, <3>1, <3>3, <3>5, <4>1, <4>2, <4>3, <4>4 DEF WriteAt
    <3>6. CASE y # x
      <4>1. write'[r][y] = write[r][y]
        BY <2>1, <3>6 DEF TypeOK
      <4>2. dirty'[r][y] # NoColumns => y \in todo'[r] \/ write'[r][y] # None
        BY <2>1, <3>3, <3>6, <4>1 DEF Writes, WriteAt
      <4>3. QED
        BY <2>1, <3>1, <3>3, <3>4, <4>1, <4>2 DEF Writes, WriteAt
    <3>7. QED
      BY <3>5, <3>6
  <2>4. QED
    BY <2>2, <2>3 DEF Writes
<1>14. QED
  BY <1>1, <1>2, <1>3, <1>5, <1>6, <1>7, <1>9, <1>10, <1>11, <1>12, <1>13,
     StepCases

-----------------------------------------------------------------------------
(* Recalculations: what they have listed, and how they have valued it.     *)

ValuingAt(r) ==
    /\ \A x \in RowId : ListedAt(r, x) /\ QuotedAt(r, x)
    /\ \A x, y \in RowId : TogetherAt(r, x, y)
Valuing == \A r \in Req : ValuingAt(r)

NavDates == \A s \in Scheme : DistinctDates(navs[s])

LEMMA NavDatesStep ==
    ASSUME TypeOK, Control, NavDates, [Next]_vars
    PROVE  NavDates'
<1>1. ASSUME NEW r \in Req, NEW s \in Scheme, NEW old \in SUBSET Quote,
             NEW new \in SUBSET Quote, ChangeNav(r, s, old, new)
      PROVE  NavDates'
  BY <1>1 DEF ChangeNav, NavDates, TypeOK
<1>2. navs' = navs => NavDates'
  BY DEF NavDates
<1>3. QED
  BY <1>1, <1>2, StepCases DEF vars, Reject, Receive, List, NoNav, FoundNav,
     Valued, LoadAssigns, InsertStores, Flush, Commit

\* The latest NAVs are those the SELECT finds.
LEMMA LatestIsLatest ==
    ASSUME TypeOK, NEW s \in Scheme, NEW q
    PROVE  q \in LatestNav(s) <=> IsLatest(q, navs[s])
<1>1. \A p \in navs[s] : p.date \in Nat
  BY QuoteShape DEF TypeOK
<1>2. QED
  BY <1>1 DEF LatestNav, IsLatest

\* A session that is not that of a running recalculation.
LEMMA ValuingOfNone ==
    ASSUME NEW r \in Req, ~Recalculating(r)'
    PROVE  ValuingAt(r)'
BY DEF ValuingAt, ListedAt, QuotedAt, TogetherAt

\* The session of o is as it was, and no NAV is forgotten.
LEMMA ValuingOfOthers ==
    ASSUME TypeOK, Control, NEW o \in Req, ValuingAt(o),
           pc'[o] = pc[o], call'[o] = call[o], loaded'[o] = loaded[o],
           dirty'[o] = dirty[o], todo'[o] = todo[o], before'[o] = before[o],
           \A s \in Scheme :
              Recalculating(o)
              => /\ published[o][s] \subseteq published'[o][s]
                 /\ navs[s] \in published[o][s]
                    => navs'[s] \in published'[o][s]
    PROVE  ValuingAt(o)'
<1>1. Recalculating(o)' <=> Recalculating(o)
  BY DEF Recalculating
<1>2. ASSUME NEW x \in RowId
      PROVE  ListedAt(o, x)'
  BY <1>1 DEF ValuingAt, ListedAt, InScope
<1>3. ASSUME NEW x \in RowId
      PROVE  QuotedAt(o, x)'
  <2>1. SUFFICES ASSUME Recalculating(o), Done(o, x)
                 PROVE  QuotedAt(o, x)'
    BY <1>1 DEF QuotedAt, Done
  <2>2. PICK S \in published[o][loaded[o][x].scheme] :
          \/ dirty[o][x] = NoColumns /\ \A q \in S : ~IsLatest(q, S)
          \/ \E q \in S : /\ IsLatest(q, S)
                          /\ dirty[o][x] = Revalued(loaded[o][x].cols, q)
    BY <2>1 DEF ValuingAt, QuotedAt
  <2>3. loaded[o][x].scheme \in Scheme
    BY <2>1 DEF Done, TypeOK, Row
  <2>4. S \in published'[o][loaded'[o][x].scheme]
    BY <2>1, <2>2, <2>3
  <2>5. QED
    BY <2>2, <2>4 DEF QuotedAt
<1>4. ASSUME NEW x \in RowId, NEW y \in RowId
      PROVE  TogetherAt(o, x, y)'
  BY <1>1 DEF ValuingAt, TogetherAt
<1>5. QED
  BY <1>2, <1>3, <1>4 DEF ValuingAt

LEMMA ValuingInit == Init => Valuing
BY DEF Init, Valuing, ValuingAt, ListedAt, QuotedAt, TogetherAt, Recalculating

\* The SELECT of the holdings.
LEMMA ValuingList ==
    ASSUME TypeOK, Control, NEW r \in Req, List(r)
    PROVE  ValuingAt(r)'
<1>1. /\ loaded'[r] = [x \in RowId |-> IF x \in Listed(r) THEN holdings[x]
                                       ELSE None]
      /\ todo'[r] = Listed(r)
      /\ pc'[r] = IF Listed(r) = {} THEN "commit" ELSE "quote"
      /\ before'[r] = holdings
      /\ published'[r] = [s \in Scheme |-> {navs[s]}]
      /\ UNCHANGED <<navs, call, dirty>>
  BY DEF List, TypeOK
<1>2. dirty[r] = NothingAssigned
  BY DEF List, Control, ControlAt
<1>3. ASSUME NEW x \in RowId
      PROVE  /\ dirty'[r][x] = NoColumns
             /\ loaded'[r][x] = IF x \in Listed(r) THEN holdings[x] ELSE None
             /\ x \in Listed(r)
                <=> holdings[x] # None /\ InScope(r, holdings[x])
  BY <1>1, <1>2 DEF NothingAssigned, Listed, Active, InScope
<1>4. ASSUME NEW x \in RowId
      PROVE  ListedAt(r, x)' /\ QuotedAt(r, x)'
  <2>1. ListedAt(r, x)'
    BY <1>1, <1>3 DEF ListedAt, InScope
  <2>2. ~Done(r, x)'
    BY <1>1, <1>3 DEF Done
  <2>3. QED
    BY <2>1, <2>2 DEF QuotedAt
<1>5. ASSUME NEW x \in RowId, NEW y \in RowId
      PROVE  TogetherAt(r, x, y)'
  BY <1>3 DEF TogetherAt
<1>6. QED
  BY <1>4, <1>5 DEF ValuingAt

\* What the loop leaves to do, in either of its two outcomes.
LEMMA ValuedLeaves ==
    ASSUME TypeOK, NEW r \in Req, NEW S \in SUBSET RowId,
           NEW d \in [RowId -> Assignment], pc[r] = "quote", Valued(r, S, d)
    PROVE  /\ dirty'[r] = d
           /\ UNCHANGED <<navs, call, loaded, before, published>>
           /\ \A y \in RowId :
                pc'[r] = "quote" /\ y \in todo'[r] <=>
                pc'[r] = "quote" /\ y \in todo[r] \ S
           /\ pc'[r] # "quote" => todo[r] \subseteq S
<1>1. dirty'[r] = d /\ UNCHANGED <<navs, call, loaded, before, published>>
  BY DEF Valued, TypeOK, history
<1>2. CASE todo[r] \subseteq S
  BY <1>1, <1>2 DEF Valued, FlushOrCommit, TypeOK
<1>3. CASE ~(todo[r] \subseteq S)
  BY <1>1, <1>3 DEF Valued, TypeOK
<1>4. QED
  BY <1>1, <1>2, <1>3

LEMMA ValuingNoNav ==
    ASSUME TypeOK, Control, NEW r \in Req, ValuingAt(r),
           NEW x \in RowId, NoNav(r, x)
    PROVE  ValuingAt(r)'
<1>1. /\ pc[r] = "quote" /\ x \in todo[r] /\ Recalculating(r)
      /\ loaded[r][x] # None
  BY DEF NoNav, Control, ControlAt, Recalculating
<1>2. /\ dirty'[r] = dirty[r]
      /\ UNCHANGED <<navs, call, loaded, before, published>>
      /\ \A y \in RowId :
           pc'[r] = "quote" /\ y \in todo'[r] <=>
           pc'[r] = "quote" /\ y \in todo[r] \ {x}
      /\ pc'[r] # "quote" => todo[r] \subseteq {x}
  <2>1. dirty[r] \in [RowId -> Assignment] /\ {x} \in SUBSET RowId
    BY DEF TypeOK
  <2>2. Valued(r, {x}, dirty[r])
    BY DEF NoNav
  <2>3. QED
    BY <1>1, <2>1, <2>2, ValuedLeaves
<1>3. ASSUME NEW y \in RowId
      PROVE  ListedAt(r, y)'
  BY <1>1, <1>2 DEF ValuingAt, ListedAt, InScope
<1>4. ASSUME NEW y \in RowId
      PROVE  QuotedAt(r, y)'
  <2>1. CASE y = x
    <3>1. loaded[r][x].scheme \in Scheme
      BY <1>1 DEF TypeOK, Row
    <3>2. navs[loaded[r][x].scheme] \in published[r][loaded[r][x].scheme]
      BY <1>1, <3>1 DEF ValuingAt, ListedAt
    <3>3. \A q \in navs[loaded[r][x].scheme] :
            ~IsLatest(q, navs[loaded[r][x].scheme])
      BY <3>1, LatestIsLatest DEF NoNav
    <3>4. dirty[r][x] = NoColumns
      BY <1>1 DEF ValuingAt, ListedAt
    <3>5. QED
      BY <1>2, <2>1, <3>2, <3>3, <3>4 DEF QuotedAt
  <2>2. CASE y # x
    <3>1. Done(r, y)' => Done(r, y)
      BY <1>2, <2>2 DEF Done
    <3>2. QED
      BY <1>1, <1>2, <3>1 DEF ValuingAt, QuotedAt
  <2>3. QED
    BY <2>1, <2>2
<1>5. ASSUME NEW y \in RowId, NEW z \in RowId
      PROVE  TogetherAt(r, y, z)'
  <2>1. TogetherAt(r, y, z)
    BY DEF ValuingAt
  <2>2. QED
    BY <1>1, <1>2, <2>1 DEF TogetherAt
<1>6. QED
  BY <1>3, <1>4, <1>5 DEF ValuingAt

LEMMA ValuingFoundNav ==
    ASSUME TypeOK, Control, NEW r \in Req, ValuingAt(r),
           NEW x \in RowId, NEW q \in Quote, FoundNav(r, x, q)
    PROVE  ValuingAt(r)'
<1> DEFINE Same == SameScheme(r, x)
<1>1. /\ pc[r] = "quote" /\ x \in todo[r] /\ Recalculating(r)
      /\ \A y \in todo[r] : y \in RowId /\ loaded[r][y] # None
  BY DEF FoundNav, Control, ControlAt, Recalculating, TypeOK
<1>2. /\ \A y \in RowId : y \in Same
           <=> y \in todo[r] /\ loaded[r][y].scheme = loaded[r][x].scheme
      /\ Same \in SUBSET RowId
  BY <1>1 DEF SameScheme
<1>3. Assigns(r, x, q) \in [RowId -> Assignment]
  BY <1>1, <1>2, RevaluedType DEF Assigns, TypeOK, Row
<1>4. /\ dirty'[r] = Assigns(r, x, q)
      /\ UNCHANGED <<navs, call, loaded, before, published>>
      /\ \A y \in RowId :
           pc'[r] = "quote" /\ y \in todo'[r] <=>
           pc'[r] = "quote" /\ y \in todo[r] \ Same
      /\ pc'[r] # "quote" => todo[r] \subseteq Same
  BY <1>1, <1>2, <1>3, ValuedLeaves DEF FoundNav
<1>5. \A y \in RowId :
        /\ y \in Same => dirty'[r][y] = Revalued(loaded[r][y].cols, q)
        /\ y \notin Same => dirty'[r][y] = dirty[r][y]
  BY <1>4 DEF Assigns
<1> HIDE DEF Same
<1>6. ASSUME NEW y \in RowId
      PROVE  ListedAt(r, y)'
  BY <1>1, <1>4, <1>5 DEF ValuingAt, ListedAt, InScope
<1>7. ASSUME NEW y \in RowId
      PROVE  QuotedAt(r, y)'
  <2>1. CASE y \in Same
    <3>1. loaded[r][y].scheme = loaded[r][x].scheme
      BY <1>2, <2>1
    <3>2. loaded[r][x].scheme \in Scheme
      BY <1>1 DEF TypeOK, Row
    <3>3. navs[loaded[r][x].scheme] \in published[r][loaded[r][x].scheme]
      BY <1>1, <3>2 DEF ValuingAt, ListedAt
    <3>4. IsLatest(q, navs[loaded[r][x].scheme])
      BY <3>2, LatestIsLatest DEF FoundNav
    <3>5. QED
      BY <1>4, <1>5, <2>1, <3>1, <3>3, <3>4 DEF QuotedAt, IsLatest
  <2>2. CASE y \notin Same
    <3>1. Done(r, y)' => Done(r, y)
      BY <1>4, <2>2 DEF Done
    <3>2. QED
      BY <1>1, <1>4, <1>5, <2>2, <3>1 DEF ValuingAt, QuotedAt
  <2>3. QED
    BY <2>1, <2>2
<1>8. ASSUME NEW y \in RowId, NEW z \in RowId
      PROVE  TogetherAt(r, y, z)'
  <2>1. SUFFICES ASSUME loaded[r][y] # None, loaded[r][z] # None,
                        loaded[r][y].scheme = loaded[r][z].scheme,
                        dirty'[r][y] # NoColumns
                 PROVE  /\ ~(pc'[r] = "quote" /\ z \in todo'[r])
                        /\ dirty'[r][z] # NoColumns
                           => \E p \in Quote :
                                /\ dirty'[r][y] = Revalued(loaded[r][y].cols, p)
                                /\ dirty'[r][z] = Revalued(loaded[r][z].cols, p)
    BY <1>4 DEF TogetherAt
  <2>2. ASSUME NEW u \in RowId, loaded[r][u] # None, dirty[r][u] # NoColumns
        PROVE  loaded[r][u].scheme # loaded[r][x].scheme
    <3>1. TogetherAt(r, u, x)
      BY DEF ValuingAt
    <3>2. QED
      BY <1>1, <2>2, <3>1 DEF TogetherAt
  <2>3. CASE y \in Same
    <3>1. loaded[r][z].scheme = loaded[r][x].scheme
      BY <1>2, <2>1, <2>3
    <3>2. CASE z \in Same
      BY <1>4, <1>5, <2>3, <3>2
    <3>3. CASE z \notin Same
      BY <1>2, <1>4, <1>5, <2>1, <2>2, <3>1, <3>3
    <3>4. QED
      BY <3>2, <3>3
  <2>4. CASE y \notin Same
    <3>1. dirty[r][y] # NoColumns /\ dirty'[r][y] = dirty[r][y]
      BY <1>5, <2>1, <2>4
    <3>2. z \notin Same
      BY <1>2, <2>1, <2>2, <3>1
    <3>3. TogetherAt(r, y, z)
      BY DEF ValuingAt
    <3>4. QED
      BY <1>1, <1>4, <1>5, <2>1, <3>1, <3>2, <3>3 DEF TogetherAt
  <2>5. QED
    BY <2>3, <2>4
<1>9. QED
  BY <1>6, <1>7, <1>8 DEF ValuingAt

LEMMA ValuingStep ==
    ASSUME TypeOK, Control, Writes, Valuing, [Next]_vars
    PROVE  Valuing'
<1>1. CASE UNCHANGED vars
  BY <1>1, ValuingOfOthers DEF Valuing, vars, session, history
<1>2. ASSUME NEW r \in Req, before' = before, published' = published,
             navs' = navs, ValuingAt(r)',
             \A o \in Req \ {r} :
                /\ pc'[o] = pc[o] /\ call'[o] = call[o]
                /\ loaded'[o] = loaded[o] /\ dirty'[o] = dirty[o]
                /\ todo'[o] = todo[o]
      PROVE  Valuing'
  <2>1. ASSUME NEW o \in Req \ {r}
        PROVE  ValuingAt(o)'
    BY <1>2, ValuingOfOthers DEF Valuing
  <2>2. QED
    BY <1>2, <2>1 DEF Valuing
<1>3. ASSUME NEW r \in Req, Reject(r) \/ Commit(r)
      PROVE  Valuing'
  <2>1. Close(r) /\ UNCHANGED <<navs, before, published>>
    BY <1>3 DEF Reject, Commit, history
  <2>2. ValuingAt(r)'
    BY <2>1, ValuingOfNone DEF Close, Recalculating, TypeOK
  <2>3. QED
    BY <1>2, <2>1, <2>2 DEF Close, TypeOK
<1>4. ASSUME NEW r \in Req, NEW q \in Workload, Receive(r, q)
      PROVE  Valuing'
  <2>1. pc'[r] \in {"list", "load", "insert"}
    BY <1>4 DEF Receive, TypeOK
  <2>2. ValuingAt(r)'
    BY <2>1, ValuingOfNone DEF Recalculating
  <2>3. QED
    BY <1>2, <1>4, <2>2 DEF Receive, TypeOK, history
<1>5. ASSUME NEW r \in Req, NEW s \in Scheme, NEW old \in SUBSET Quote,
             NEW new \in SUBSET Quote, ChangeNav(r, s, old, new)
      PROVE  Valuing'
  <2>1. pc'[r] = "done"
    BY <1>5 DEF ChangeNav, TypeOK
  <2>2. ValuingAt(r)'
    BY <2>1, ValuingOfNone DEF Recalculating
  <2>3. ASSUME NEW o \in Req \ {r}
        PROVE  ValuingAt(o)'
    <3>1. /\ pc'[o] = pc[o] /\ call'[o] = call[o] /\ loaded'[o] = loaded[o]
          /\ dirty'[o] = dirty[o] /\ todo'[o] = todo[o]
          /\ before'[o] = before[o]
      BY <1>5 DEF ChangeNav, TypeOK, session
    <3>2. ASSUME NEW t \in Scheme, Recalculating(o)
          PROVE  /\ published[o][t] \subseteq published'[o][t]
                 /\ navs[t] \in published[o][t]
                    => navs'[t] \in published'[o][t]
      <4>1. published'[o] = [published[o] EXCEPT ![s] = @ \cup {navs'[s]}]
        BY <1>5, <3>2 DEF ChangeNav, Recalculating
      <4>2. published[o] \in [Scheme -> SUBSET SUBSET Quote]
        BY DEF TypeOK
      <4>3. CASE t = s
        BY <4>1, <4>2, <4>3
      <4>4. CASE t # s
        BY <1>5, <4>1, <4>2, <4>4 DEF ChangeNav, TypeOK
      <4>5. QED
        BY <4>3, <4>4
    <3>3. QED
      BY <3>1, <3>2, ValuingOfOthers DEF Valuing
  <2>4. QED
    BY <2>2, <2>3 DEF Valuing
<1>6. ASSUME NEW r \in Req, List(r)
      PROVE  Valuing'
  <2>1. ASSUME NEW o \in Req \ {r}
        PROVE  ValuingAt(o)'
    BY <1>6, ValuingOfOthers DEF Valuing, List, TypeOK
  <2>2. QED
    BY <1>6, <2>1, ValuingList DEF Valuing
<1>7. ASSUME NEW r \in Req, NEW x \in RowId, NoNav(r, x)
      PROVE  Valuing'
  BY <1>2, <1>7, ValuingNoNav DEF NoNav, Valued, Valuing, TypeOK, history
<1>8. ASSUME NEW r \in Req, NEW x \in RowId, NEW q \in Quote, FoundNav(r, x, q)
      PROVE  Valuing'
  <2>1. ValuingAt(r)'
    BY <1>8, ValuingFoundNav DEF Valuing
  <2>2. \A o \in Req \ {r} :
          /\ pc'[o] = pc[o] /\ dirty'[o] = dirty[o] /\ todo'[o] = todo[o]
    BY <1>8 DEF FoundNav, Valued, TypeOK
  <2>3. UNCHANGED <<navs, call, loaded, before, published>>
    BY <1>8 DEF FoundNav, Valued, history
  <2>4. QED
    BY <1>2, <2>1, <2>2, <2>3
<1>9. ASSUME NEW r \in Req, NEW p \in Assignment, LoadAssigns(r, p)
      PROVE  Valuing'
  <2>1. call'[r].op # "recalculate"
    BY <1>9 DEF LoadAssigns, Control, ControlAt
  <2>2. ValuingAt(r)'
    BY <2>1, ValuingOfNone DEF Recalculating
  <2>3. QED
    BY <1>2, <1>9, <2>2 DEF LoadAssigns, TypeOK, history
<1>10. ASSUME NEW r \in Req, NEW x \in RowId, InsertStores(r, x)
       PROVE  Valuing'
  <2>1. call'[r].op # "recalculate"
    BY <1>10 DEF InsertStores, Control, ControlAt
  <2>2. ValuingAt(r)'
    BY <2>1, ValuingOfNone DEF Recalculating
  <2>3. QED
    BY <1>2, <1>10, <2>2 DEF InsertStores, TypeOK, history
<1>11. ASSUME NEW r \in Req, NEW x \in RowId, Flush(r, x)
       PROVE  Valuing'
  <2>1. /\ pc[r] = "flush" /\ pc'[r] \in {"flush", "commit"}
        /\ UNCHANGED <<navs, call, loaded, dirty, before, published>>
    BY <1>11 DEF Flush, FlushOrCommit, TypeOK, history
  <2>2. Recalculating(r)' <=> Recalculating(r)
    BY <2>1 DEF Recalculating
  <2>3. ASSUME NEW y \in RowId
        PROVE  ListedAt(r, y)' /\ QuotedAt(r, y)'
    <3>1. ListedAt(r, y) /\ QuotedAt(r, y)
      BY DEF Valuing, ValuingAt
    <3>2. Done(r, y)' => Done(r, y)
      BY <2>1 DEF Done
    <3>3. QED
      BY <2>1, <2>2, <3>1, <3>2 DEF ListedAt, QuotedAt, InScope
  <2>4. ASSUME NEW y \in RowId, NEW z \in RowId
        PROVE  TogetherAt(r, y, z)'
    BY <2>1, <2>2 DEF Valuing, ValuingAt, TogetherAt
  <2>5. ValuingAt(r)'
    BY <2>3, <2>4 DEF ValuingAt
  <2>6. QED
    BY <1>2, <1>11, <2>1, <2>5 DEF Flush, TypeOK
<1>12. QED
  BY <1>1, <1>3, <1>4, <1>5, <1>6, <1>7, <1>8, <1>9, <1>10, <1>11, StepCases

-----------------------------------------------------------------------------
(* Completions and edits: what they have assigned.                         *)

Applied == \A r \in Req : AppliedAt(r)

LEMMA AppliedInit == Init => Applied
BY DEF Init, Applied, AppliedAt

\* Only Load makes a session one that is about to store an assignment.
LEMMA AppliedStep ==
    ASSUME TypeOK, Control, Applied, [Next]_vars
    PROVE  Applied'
<1>1. ASSUME NEW o \in Req,
             pc'[o] \in {"flush", "commit"} => pc[o] \in {"flush", "commit"},
             call'[o] = call[o], loaded'[o] = loaded[o], dirty'[o] = dirty[o]
      PROVE  AppliedAt(o)'
  BY <1>1 DEF Applied, AppliedAt
<1>2. ASSUME NEW o \in Req,
             \/ pc'[o] \notin {"flush", "commit"}
             \/ call'[o].op \notin {"inflow", "outflow", "edit"}
      PROVE  AppliedAt(o)'
  BY <1>2 DEF AppliedAt
<1>3. ASSUME NEW r \in Req, AppliedAt(r)',
             \A o \in Req \ {r} :
                /\ pc'[o] = pc[o] /\ call'[o] = call[o]
                /\ loaded'[o] = loaded[o] /\ dirty'[o] = dirty[o]
      PROVE  Applied'
  BY <1>1, <1>3 DEF Applied
<1>4. CASE UNCHANGED vars
  BY <1>1, <1>4 DEF Applied, vars, session
<1>5. ASSUME NEW r \in Req, Reject(r) \/ Commit(r)
      PROVE  Applied'
  <2>1. Close(r)
    BY <1>5 DEF Reject, Commit
  <2>2. AppliedAt(r)'
    BY <1>2, <2>1 DEF Close, TypeOK
  <2>3. QED
    BY <1>3, <2>1, <2>2 DEF Close, TypeOK
<1>6. ASSUME NEW r \in Req, NEW q \in Workload, Receive(r, q)
      PROVE  Applied'
  <2>1. pc'[r] \in {"list", "insert", "load"}
    BY <1>6 DEF Receive, TypeOK
  <2>2. AppliedAt(r)'
    BY <1>2, <2>1
  <2>3. QED
    BY <1>3, <1>6, <2>2 DEF Receive, TypeOK
<1>7. ASSUME NEW r \in Req, NEW s \in Scheme, NEW old \in SUBSET Quote,
             NEW new \in SUBSET Quote, ChangeNav(r, s, old, new)
      PROVE  Applied'
  <2>1. AppliedAt(r)'
    BY <1>2, <1>7 DEF ChangeNav, TypeOK
  <2>2. QED
    BY <1>3, <1>7, <2>1 DEF ChangeNav, TypeOK, session
<1>8. ASSUME NEW r \in Req, List(r)
      PROVE  Applied'
  <2>1. call'[r].op = "recalculate"
    BY <1>8 DEF List, Control, ControlAt
  <2>2. AppliedAt(r)'
    BY <1>2, <2>1
  <2>3. QED
    BY <1>3, <1>8, <2>2 DEF List, TypeOK
<1>9. ASSUME NEW r \in Req, NEW S, NEW d, pc[r] = "quote", Valued(r, S, d)
      PROVE  Applied'
  <2>1. call'[r].op = "recalculate"
    BY <1>9 DEF Valued, Control, ControlAt
  <2>2. AppliedAt(r)'
    BY <1>2, <2>1
  <2>3. \A o \in Req \ {r} : pc'[o] = pc[o] /\ dirty'[o] = dirty[o]
    BY <1>9 DEF Valued, TypeOK
  <2>4. call' = call /\ loaded' = loaded
    BY <1>9 DEF Valued
  <2>5. QED
    BY <1>3, <2>2, <2>3, <2>4
<1>10. ASSUME NEW r \in Req, NEW x \in RowId, NoNav(r, x)
       PROVE  Applied'
  BY <1>9, <1>10 DEF NoNav
<1>11. ASSUME NEW r \in Req, NEW x \in RowId, NEW q \in Quote, FoundNav(r, x, q)
       PROVE  Applied'
  BY <1>9, <1>11 DEF FoundNav
<1>12. ASSUME NEW r \in Req, NEW p \in Assignment, LoadAssigns(r, p)
       PROVE  Applied'
  <2>1. call[r] # None /\ call[r].op \in {"inflow", "outflow", "edit"}
    BY <1>12 DEF LoadAssigns, Control, ControlAt, Running
  <2>2. call[r].id \in RowId
    BY <2>1, CallShape DEF TypeOK, Apply, Edit
  <2>3. /\ call'[r] = call[r]
        /\ loaded'[r][call[r].id] = holdings[call[r].id]
        /\ dirty'[r][call[r].id] = p
        /\ holdings[call[r].id] # None
        /\ p \in Assigned(call[r], holdings[call[r].id].cols)
    BY <1>12, <2>2 DEF LoadAssigns, TypeOK, Active
  <2>4. AppliedAt(r)'
    BY <2>3 DEF AppliedAt
  <2>5. QED
    BY <1>3, <1>12, <2>4 DEF LoadAssigns, TypeOK
<1>13. ASSUME NEW r \in Req, NEW x \in RowId, InsertStores(r, x)
       PROVE  Applied'
  <2>1. call'[r].op = "create"
    BY <1>13 DEF InsertStores, Control, ControlAt
  <2>2. AppliedAt(r)'
    BY <1>2, <2>1
  <2>3. QED
    BY <1>3, <1>13, <2>2 DEF InsertStores, TypeOK
<1>14. ASSUME NEW r \in Req, NEW x \in RowId, Flush(r, x)
       PROVE  Applied'
  <2>1. AppliedAt(r)'
    BY <1>1, <1>14 DEF Flush
  <2>2. QED
    BY <1>3, <1>14, <2>1 DEF Flush, TypeOK
<1>15. QED
  BY <1>4, <1>5, <1>6, <1>7, <1>8, <1>10, <1>11, <1>12, <1>13, <1>14, StepCases

-----------------------------------------------------------------------------
(* Theorems.                                                               *)

LEMMA InvParts ==
    ValuationInv
    <=> TypeOK /\ NavDates /\ Control /\ Applied /\ Writes /\ Valuing
BY DEF ValuationInv, NavDates, Control, Applied, Writes, Valuing, ValuingAt

LEMMA InvInductive ==
    ASSUME ValuationInv, [Next]_vars
    PROVE  ValuationInv'
<1>1. TypeOK /\ NavDates /\ Control /\ Applied /\ Writes /\ Valuing
  BY InvParts
<1>2. TypeOK' /\ NavDates' /\ Control' /\ Applied' /\ Writes' /\ Valuing'
  BY <1>1, TypeStep, NavDatesStep, ControlStep, AppliedStep, WritesStep,
     ValuingStep DEF Writes
<1>3. QED
  BY <1>2 DEF ValuationInv, NavDates, Control, Applied, Writes, Valuing,
     ValuingAt

\* In every interleaving of recalculations, completions, edits and NAV
\* changes, sessions write holdings in the order of their uuids, hold what
\* they have written alone, and value by NAVs that were the latest.
THEOREM ValuationInvariant == Spec => []ValuationInv
<1>1. Init => ValuationInv
  <2>1. Init => NavDates
    BY SeedAssumption DEF Init, NavDates
  <2>2. QED
    BY <2>1, InvParts, TypeInit, ControlInit, AppliedInit, WritesInit,
       ValuingInit
<1>2. QED
  BY <1>1, InvInductive, PTL DEF Spec

\* The variables keep their types.
THEOREM TypeCorrect == Spec => []TypeOK
<1>1. ValuationInv => TypeOK
  BY DEF ValuationInv
<1>2. QED
  BY <1>1, ValuationInvariant, PTL

\* What a recalculation assigns to a holding it has dealt with.
LEMMA RecalculatedObject ==
    ASSUME ValuationInv, NEW r \in Req, NEW x \in RowId,
           call[r] # None, call[r].op = "recalculate",
           dirty[r][x] # NoColumns
    PROVE  /\ loaded[r][x] # None /\ loaded[r][x].cols \in Cols
           /\ loaded[r][x].scheme \in Scheme
           /\ \E S \in published[r][loaded[r][x].scheme] : \E q \in S :
                /\ q \in Quote /\ IsLatest(q, S)
                /\ dirty[r][x] = Revalued(loaded[r][x].cols, q)
                /\ Object(r, x) = ValuedBy(loaded[r][x].cols, q)
<1>1. TypeOK /\ Control /\ Valuing
  BY InvParts
<1>2. Recalculating(r) /\ loaded[r][x] # None
  BY <1>1 DEF Control, ControlAt, Recalculating, NothingAssigned
<1>3. loaded[r][x].cols \in Cols /\ loaded[r][x].scheme \in Scheme
  BY <1>1, <1>2 DEF TypeOK, Row
<1>4. Done(r, x)
  BY <1>1, <1>2 DEF Done, Valuing, ValuingAt, ListedAt
<1>5. PICK S \in published[r][loaded[r][x].scheme] : \E q \in S :
         IsLatest(q, S) /\ dirty[r][x] = Revalued(loaded[r][x].cols, q)
  BY <1>1, <1>2, <1>4 DEF Valuing, ValuingAt, QuotedAt
<1>6. S \subseteq Quote
  BY <1>1, <1>3 DEF TypeOK
<1>7. QED
  BY <1>2, <1>3, <1>5, <1>6, RevaluedType DEF Object

\* Every valuation about to be stored is by a NAV that was the latest.
THEOREM ValuationsAreTimely == Spec => []ValuedAtLatestNav
<1>1. ValuationInv => ValuedAtLatestNav
  <2>1. SUFFICES ASSUME ValuationInv, NEW r \in Req, NEW x \in RowId,
                        call[r] # None, call[r].op = "recalculate",
                        dirty[r][x] # NoColumns
                 PROVE  \E S \in published[r][loaded[r][x].scheme] :
                          \E q \in S :
                            /\ IsLatest(q, S)
                            /\ Object(r, x)["current_nav"] = q.value
                            /\ Object(r, x)["valuation_date"] = q.date
    BY DEF ValuedAtLatestNav
  <2>2. PICK S \in published[r][loaded[r][x].scheme] : \E q \in S :
          /\ q \in Quote /\ IsLatest(q, S)
          /\ Object(r, x) = ValuedBy(loaded[r][x].cols, q)
    BY <2>1, RecalculatedObject
  <2>3. loaded[r][x].cols \in Cols
    BY <2>1, RecalculatedObject
  <2>4. QED
    BY <2>2, <2>3, ValuedColumns
<1>2. QED
  BY <1>1, ValuationInvariant, PTL

\* One recalculation values the holdings of a scheme by one NAV.
THEOREM SchemesHaveOneNav == Spec => []OneNavPerScheme
<1>1. ValuationInv => OneNavPerScheme
  <2>1. SUFFICES ASSUME ValuationInv, NEW r \in Req,
                        NEW x \in RowId, NEW y \in RowId,
                        call[r] # None, call[r].op = "recalculate",
                        dirty[r][x] # NoColumns, dirty[r][y] # NoColumns,
                        loaded[r][x].scheme = loaded[r][y].scheme
                 PROVE  \A c \in {"current_nav", "valuation_date"} :
                          Object(r, x)[c] = Object(r, y)[c]
    BY DEF OneNavPerScheme
  <2>2. /\ loaded[r][x] # None /\ loaded[r][x].cols \in Cols
        /\ loaded[r][y] # None /\ loaded[r][y].cols \in Cols
    BY <2>1, RecalculatedObject
  <2>3. Recalculating(r) /\ TogetherAt(r, x, y)
    BY <2>1, InvParts DEF Control, ControlAt, Recalculating, NothingAssigned,
       Valuing, ValuingAt
  <2>4. PICK q \in Quote :
          /\ dirty[r][x] = Revalued(loaded[r][x].cols, q)
          /\ dirty[r][y] = Revalued(loaded[r][y].cols, q)
    BY <2>1, <2>2, <2>3 DEF TogetherAt
  <2>5. /\ Object(r, x) = ValuedBy(loaded[r][x].cols, q)
        /\ Object(r, y) = ValuedBy(loaded[r][y].cols, q)
    BY <2>2, <2>4, RevaluedType DEF Object
  <2>6. QED
    BY <2>2, <2>5, ValuedColumns
<1>2. QED
  BY <1>1, ValuationInvariant, PTL

-----------------------------------------------------------------------------
(* What a recalculation commits.                                           *)

\* Only a Commit of r commits r.
LEMMA OnlyCommits ==
    ASSUME ValuationInv, [Next]_vars, NEW r \in Req, r \in committed' \ committed
    PROVE  Commit(r)
<1>1. r \in committed' /\ r \notin committed /\ TypeOK /\ Control
  BY InvParts
<1>2. ASSUME NEW o \in Req, Commit(o)
      PROVE  o = r
  BY <1>1, <1>2 DEF Commit
<1>3. ASSUME NEW o \in Req, NEW S, NEW d, Valued(o, S, d)
      PROVE  committed' = committed
  BY <1>3 DEF Valued, history
<1>4. ASSUME NEW o \in Req, NEW x \in RowId, NEW q \in Quote,
             FoundNav(o, x, q)
      PROVE  FALSE
  BY <1>1, <1>3, <1>4 DEF FoundNav
<1>5. ASSUME NEW o \in Req, NEW x \in RowId, NoNav(o, x)
      PROVE  FALSE
  BY <1>1, <1>3, <1>5 DEF NoNav
<1>6. ~UNCHANGED vars
  BY <1>1 DEF vars, history
<1>7. ASSUME NEW o \in Req, Reject(o) \/ List(o)
      PROVE  FALSE
  BY <1>1, <1>7 DEF Reject, List, history
<1>8. ASSUME NEW o \in Req, NEW q \in Workload, Receive(o, q)
      PROVE  FALSE
  BY <1>1, <1>8 DEF Receive, history
<1>9. ASSUME NEW o \in Req, NEW s \in Scheme, NEW old \in SUBSET Quote,
             NEW new \in SUBSET Quote, ChangeNav(o, s, old, new)
      PROVE  FALSE
  BY <1>1, <1>9 DEF ChangeNav
<1>10. ASSUME NEW o \in Req, NEW p \in Assignment, LoadAssigns(o, p)
       PROVE  FALSE
  BY <1>1, <1>10 DEF LoadAssigns, history
<1>11. ASSUME NEW o \in Req, NEW x \in RowId,
              InsertStores(o, x) \/ Flush(o, x)
       PROVE  FALSE
  BY <1>1, <1>11 DEF InsertStores, Flush, history
<1>12. QED
  BY <1>1, <1>2, <1>4, <1>5, <1>6, <1>7, <1>8, <1>9, <1>10, <1>11, StepCases

\* The step is the Commit of the recalculation, and each row it writes is the
\* committed one with what was assigned to an object it had listed.
LEMMA CommittedRecalculation ==
    ASSUME ValuationInv, [Next]_vars, NEW r \in Req, Recalculates(r)
    PROVE  /\ Commit(r) /\ Recalculating(r) /\ todo[r] = {}
           /\ \A x \in RowId :
                holdings[x] # None
                => \/ /\ dirty[r][x] = NoColumns
                      /\ holdings'[x] = holdings[x]
                   \/ /\ loaded[r][x] # None
                      /\ holdings'[x] =
                           [holdings[x] EXCEPT !.cols =
                              Overwrite(@, dirty[r][x])]
<1>1. TypeOK /\ Control /\ Writes
  BY InvParts
<1>2. Commit(r)
  BY OnlyCommits DEF Recalculates
<1>3. pc[r] = "commit" /\ todo[r] = {} /\ Recalculating(r)
  BY <1>1, <1>2 DEF Commit, Control, ControlAt, Recalculates, Recalculating
<1>4. ASSUME NEW x \in RowId, holdings[x] # None, write[r][x] = None
      PROVE  dirty[r][x] = NoColumns /\ holdings'[x] = holdings[x]
  BY <1>1, <1>2, <1>3, <1>4 DEF Commit, Writes, WriteAt
<1>5. ASSUME NEW x \in RowId, holdings[x] # None, write[r][x] # None
      PROVE  /\ loaded[r][x] # None
             /\ holdings'[x] =
                  [holdings[x] EXCEPT !.cols = Overwrite(@, dirty[r][x])]
  <2>1. loaded[r][x] # None /\ write[r][x] = Updated(r, x)
    BY <1>1, <1>5 DEF Writes, WriteAt, Recalculates
  <2>2. holdings'[x] = write[r][x]
    BY <1>2, <1>5 DEF Commit
  <2>3. holdings[x] \in Row /\ holdings[x].is_active \in BOOLEAN
    BY <1>1, <1>5 DEF TypeOK, Row
  <2>4. ~Deactivates(call[r])
    BY DEF Recalculates, Deactivates
  <2>5. QED
    BY <2>1, <2>2, <2>3, <2>4 DEF Updated, Row
<1>6. QED
  BY <1>2, <1>3, <1>4, <1>5

\* A recalculation changes neither units nor deletions, and no holding that is
\* not in its scope.
THEOREM RecalculationsOnlyValue == Spec => RecalculationOnlyValues
<1>1. ASSUME ValuationInv, [Next]_vars, NEW r \in Req, NEW x \in RowId,
             Recalculates(r), holdings[x] # None
      PROVE  /\ holdings'[x].cols["units"] = holdings[x].cols["units"]
             /\ holdings'[x].is_active = holdings[x].is_active
             /\ holdings[x].advisor_id \notin call[r].scope
                => holdings'[x] = holdings[x]
  <2>1. TypeOK /\ Control /\ Valuing
    BY <1>1, InvParts
  <2>2. holdings[x] \in Row /\ holdings[x].cols \in Cols
    BY <1>1, <2>1 DEF TypeOK, Row
  <2>3. CASE holdings'[x] = holdings[x]
    BY <2>3
  <2>4. CASE /\ loaded[r][x] # None
             /\ holdings'[x] =
                  [holdings[x] EXCEPT !.cols = Overwrite(@, dirty[r][x])]
    <3>1. holdings[x].advisor_id \in call[r].scope
      BY <1>1, <2>1, <2>4, CommittedRecalculation
         DEF Valuing, ValuingAt, ListedAt, InScope, Control, ControlAt
    <3>2. dirty[r][x]["units"] = Unset
      <4>1. CASE dirty[r][x] = NoColumns
        BY <4>1 DEF NoColumns, Column
      <4>2. CASE dirty[r][x] # NoColumns
        BY <1>1, <4>2, RecalculatedObject, RevaluedType DEF Recalculates
      <4>3. QED
        BY <4>1, <4>2
    <3>3. Overwrite(holdings[x].cols, dirty[r][x])["units"]
            = holdings[x].cols["units"]
      BY <3>2 DEF Overwrite, Column
    <3>4. QED
      BY <2>2, <2>4, <3>1, <3>3 DEF Row
  <2>5. QED
    BY <1>1, <2>3, <2>4, CommittedRecalculation
<1>2. ASSUME ValuationInv, [Next]_vars
      PROVE  [\A r \in Req, x \in RowId :
                Recalculates(r) /\ holdings[x] # None
                => /\ holdings'[x].cols["units"] = holdings[x].cols["units"]
                   /\ holdings'[x].is_active = holdings[x].is_active
                   /\ holdings[x].advisor_id \notin call[r].scope
                      => holdings'[x] = holdings[x]]_vars
  BY <1>1, <1>2
<1>3. QED
  BY <1>2, ValuationInvariant, PTL DEF Spec, RecalculationOnlyValues

\* A recalculation commits the valuation by the latest NAV wherever nothing
\* was changed while it ran.
THEOREM RecalculationsAreExact == Spec => InexactOnlyInRaces
<1>1. ASSUME ValuationInv, [Next]_vars, NEW r \in Req, NEW x \in RowId,
             Recalculates(r), before[r][x] # None,
             before[r][x] = holdings[x], InScope(r, holdings[x]),
             NEW q \in navs[holdings[x].scheme],
             published[r][holdings[x].scheme] = {navs[holdings[x].scheme]},
             IsLatest(q, navs[holdings[x].scheme])
      PROVE  holdings'[x].cols = ValuedBy(holdings[x].cols, q)
  <2>1. TypeOK /\ NavDates /\ Control /\ Valuing
    BY <1>1, InvParts
  <2>2. /\ holdings[x] # None /\ holdings[x] \in Row
        /\ holdings[x].cols \in Cols /\ holdings[x].scheme \in Scheme
    BY <1>1, <2>1 DEF TypeOK, Row
  <2>3. loaded[r][x] = holdings[x]
    BY <1>1, <2>1, CommittedRecalculation DEF Valuing, ValuingAt, ListedAt
  <2>4. Done(r, x)
    BY <1>1, <2>2, <2>3, CommittedRecalculation DEF Done
  <2>5. PICK p \in navs[holdings[x].scheme] :
          /\ IsLatest(p, navs[holdings[x].scheme])
          /\ dirty[r][x] = Revalued(holdings[x].cols, p)
    BY <1>1, <2>1, <2>3, <2>4, CommittedRecalculation
       DEF Valuing, ValuingAt, QuotedAt
  <2>6. navs[holdings[x].scheme] \subseteq Quote
    BY <2>1, <2>2 DEF TypeOK
  <2>7. p = q
    <3>1. p.date \in Nat /\ q.date \in Nat
      BY <2>6, QuoteShape
    <3>2. p.date <= q.date /\ q.date <= p.date
      BY <1>1, <2>5 DEF IsLatest
    <3>3. QED
      BY <2>1, <2>2, <3>1, <3>2 DEF NavDates, DistinctDates
  <2>8. q \in Quote /\ dirty[r][x] = Revalued(holdings[x].cols, q)
    BY <2>5, <2>6, <2>7
  <2>9. CASE dirty[r][x] = NoColumns /\ holdings'[x] = holdings[x]
    BY <2>2, <2>8, <2>9, RevaluedType
  <2>10. CASE holdings'[x] =
                [holdings[x] EXCEPT !.cols = Overwrite(@, dirty[r][x])]
    BY <2>2, <2>8, <2>10, RevaluedType DEF Row
  <2>11. QED
    BY <1>1, <2>2, <2>9, <2>10, CommittedRecalculation
<1>2. ASSUME ValuationInv, [Next]_vars
      PROVE  [\A r \in Req, x \in RowId :
                /\ Recalculates(r)
                /\ before[r][x] # None /\ before[r][x] = holdings[x]
                /\ InScope(r, holdings[x])
                => \A q \in navs[holdings[x].scheme] :
                     /\ published[r][holdings[x].scheme]
                          = {navs[holdings[x].scheme]}
                     /\ IsLatest(q, navs[holdings[x].scheme])
                     => holdings'[x].cols = ValuedBy(holdings[x].cols, q)]_vars
  BY <1>1, <1>2
<1>3. QED
  BY <1>2, ValuationInvariant, PTL DEF Spec, InexactOnlyInRaces, ValuedBy

-----------------------------------------------------------------------------
(* What a completion commits.                                              *)

\* The nearest cent to the part of a value that remains exists: an outflow is
\* refused by no holding that has the units.
LEMMA RemaindersExist ==
    ASSUME NEW value \in Nat, NEW units \in Nat, NEW total \in Nat \ {0},
           units <= total
    PROVE  Remainders(value, units, total) # {}
<1> DEFINE n == value * (total - units)
           T == 2 * total
           v == (2 * n + total) \div T
<1>1. /\ total - units \in Nat /\ total - units <= total
      /\ T \in Nat /\ T > 0
  OBVIOUS
<1>2. n \in Nat /\ n <= value * total
  BY <1>1
<1>3. /\ v \in Int
      /\ T * v <= 2 * n + total /\ 2 * n + total < T * v + T
  <2>1. ASSUME NEW a \in Nat, NEW b \in Nat, b > 0
        PROVE  /\ a \div b \in Int
               /\ b * (a \div b) <= a /\ a < b * (a \div b) + b
    BY <2>1
  <2>2. 2 * n + total \in Nat
    BY <1>2
  <2> HIDE DEF n, T
  <2>3. QED
    BY <1>1, <2>1, <2>2
<1>4. v \in Nat
  <2> HIDE DEF n, v
  <2>1. 0 < T * v + T
    BY <1>2, <1>3
  <2>2. 0 < total * (2 * (v + 1))
    BY <1>3, <2>1
  <2>3. v + 1 > 0
    BY <1>3, <2>2
  <2>4. QED
    BY <1>3, <2>3
<1>5. v <= value
  <2> HIDE DEF n, v
  <2>1. T * v < T * (value + 1)
    BY <1>2, <1>3
  <2>2. QED
    BY <1>1, <1>3, <2>1
<1>6. 2 * (v * total - value * (total - units)) \in -total..total
  <2> HIDE DEF v
  <2>1. 2 * (v * total - n) = T * v - 2 * n
    BY <1>2, <1>4
  <2>2. QED
    BY <1>2, <1>3, <1>4, <2>1
<1>7. v \in 0..value
  BY <1>4, <1>5
<1> HIDE DEF v
<1>8. v \in Remainders(value, units, total)
  BY <1>6, <1>7 DEF Remainders
<1>9. QED
  BY <1>8

\* The code refuses an outflow of an active holding only when it asks for more
\* units than there are.
THEOREM OnlyShortHoldingsRefuse ==
    ASSUME NEW q \in Apply \cup Edit, NEW k \in Cols
    PROVE  Assigned(q, k) = {} <=> q.op = "outflow" /\ q.units > k["units"]
<1>1. /\ k["units"] \in Nat /\ k["current_value"] \in Nat
      /\ k["invested_amount"] \in Nat
  BY NotNullColumns
<1>2. CASE q.op = "outflow"
  <2>1. q.units \in Nat \ {0}
    BY <1>2 DEF Apply, Edit
  <2>2. CASE q.units > k["units"]
    BY <1>1, <1>2, <2>1, <2>2 DEF Assigned, Remainders
  <2>3. CASE q.units <= k["units"]
    <3>1. /\ Remainders(k["current_value"], q.units, k["units"]) # {}
          /\ Remainders(k["invested_amount"], q.units, k["units"]) # {}
      BY <1>1, <2>1, <2>3, RemaindersExist
    <3>2. PICK value \in Remainders(k["current_value"], q.units, k["units"]),
               cost \in Remainders(k["invested_amount"], q.units, k["units"]) :
            TRUE
      BY <3>1
    <3>3. Differing(k, Reduced(k, q, value, cost),
                    {c \in {"current_value", "invested_amount"} : k[c] # 0})
            \in Assigned(q, k)
      BY <1>2, <3>2 DEF Assigned
    <3>4. QED
      BY <1>1, <1>2, <2>1, <2>3, <3>3
  <2>4. QED
    BY <1>1, <2>1, <2>2, <2>3
<1>3. CASE q.op # "outflow"
  BY <1>3 DEF Assigned, Apply, Edit
<1>4. QED
  BY <1>2, <1>3

\* The rounding of successive outflows adds up to half a cent for each, and no
\* more: if value is within n half cents of what units are worth at the price
\* at which the holding had units_0 worth value_0, what an outflow leaves is
\* within n + 1 of them.
THEOREM OutflowsAddHalfCents ==
    ASSUME NEW value_0 \in Nat, NEW units_0 \in Nat \ {0},
           NEW value \in Nat, NEW units \in Nat \ {0}, NEW n \in Nat,
           2 * (value * units_0 - value_0 * units)
              \in -(n * units_0)..(n * units_0),
           NEW sold \in Nat, NEW left \in Remainders(value, sold, units)
    PROVE  2 * (left * units_0 - value_0 * (units - sold))
              \in -((n + 1) * units_0)..((n + 1) * units_0)
<1> DEFINE rest == units - sold
           d == 2 * (value * units_0 - value_0 * units)
           e == 2 * (left * units - value * rest)
           f == 2 * (left * units_0 - value_0 * rest)
<1>1. left \in Nat /\ rest \in Nat /\ rest <= units
  BY DEF Remainders
<1>2. d \in Int /\ -(n * units_0) <= d /\ d <= n * units_0
  OBVIOUS
<1>3. e \in Int /\ -units <= e /\ e <= units
  BY <1>1 DEF Remainders
<1>4. f * units = e * units_0 + d * rest /\ f \in Int
  <2> HIDE DEF rest
  <2>1. QED
    BY <1>1
<1> HIDE DEF rest, d, e, f
<1>5. /\ e * units_0 <= units * units_0
      /\ -(units * units_0) <= e * units_0
  BY <1>3
<1>6. /\ d * rest <= (n * units_0) * units
      /\ -((n * units_0) * units) <= d * rest
  <2>1. d * rest <= (n * units_0) * rest /\ -((n * units_0) * rest) <= d * rest
    BY <1>1, <1>2
  <2>2. n * units_0 \in Nat
    OBVIOUS
  <2>3. (n * units_0) * rest <= (n * units_0) * units
    BY <1>1, <2>2
  <2>4. QED
    BY <1>1, <1>2, <2>1, <2>2, <2>3
<1>7. /\ f * units <= ((n + 1) * units_0) * units
      /\ -(((n + 1) * units_0) * units) <= f * units
  BY <1>1, <1>2, <1>3, <1>4, <1>5, <1>6
<1>8. f <= (n + 1) * units_0 /\ -((n + 1) * units_0) <= f
  <2>1. ASSUME NEW a \in Int, NEW b \in Int, NEW c \in Nat \ {0},
               a * c <= b * c
        PROVE  a <= b
    BY <2>1
  <2>2. (n + 1) * units_0 \in Int /\ -((n + 1) * units_0) \in Int
    OBVIOUS
  <2>3. (-((n + 1) * units_0)) * units = -(((n + 1) * units_0) * units)
    OBVIOUS
  <2>4. QED
    BY <1>4, <1>7, <2>1, <2>2, <2>3
<1>9. QED
  BY <1>4, <1>8 DEF f, rest

\* What a completion makes of the columns old, as the property says it.
BooksExactly(q, old, new) ==
    /\ new["current_nav"] = q.nav
    /\ new["valuation_date"] = q.date
    /\ q.op = "inflow"
       => /\ new["units"] = old["units"] + q.units
          /\ \A c \in {"current_value", "invested_amount"} :
               new[c] = old[c] + q.amount
          /\ 2 * (new["average_nav"] * new["units"]
                  - Cent * new["invested_amount"])
               \in -new["units"]..new["units"]
    /\ q.op = "outflow"
       => /\ new["units"] + q.units = old["units"]
          /\ ShareRemains(old, new, "current_value")
          /\ ShareRemains(old, new, "invested_amount")
          /\ new["average_nav"] = old["average_nav"]

\* The remainder of a column keeps its share.
LEMMA RemainderIsShare ==
    ASSUME NEW old \in Cols, NEW new \in Cols, NEW sold \in Nat \ {0},
           NEW c \in NotNull, new["units"] = old["units"] - sold,
           new[c] \in Remainders(old[c], sold, old["units"])
    PROVE  ShareRemains(old, new, c)
<1>1. old["units"] \in Nat /\ new["units"] \in Nat /\ old[c] \in Nat
  BY ColsShape, NotNullColumns
<1>2. /\ new[c] \in Nat
      /\ 2 * (new[c] * old["units"] - old[c] * new["units"])
           \in -old["units"]..old["units"]
  BY <1>1 DEF Remainders
<1>3. ASSUME NEW v \in Nat, NEW m \in Nat, NEW u \in Nat \ {0},
             2 * (v * u - m * 0) \in -u..u
      PROVE  v = 0
  <2>1. 2 * (v * u) <= u
    BY <1>3
  <2>2. v >= 1 => v * u >= u
    OBVIOUS
  <2>3. QED
    BY <2>1, <2>2
<1>4. new["units"] = 0 => new[c] = 0
  BY <1>1, <1>2, <1>3
<1>5. QED
  BY <1>2, <1>4 DEF ShareRemains

\* Storing what differs stores the position that was computed.
LEMMA AssignedExactly ==
    ASSUME NEW q \in Apply, NEW k \in Cols, NEW p \in Assigned(q, k)
    PROVE  /\ Overwrite(k, p) \in Cols
           /\ BooksExactly(q, k, Overwrite(k, p))
<1>1. /\ k["units"] \in Nat /\ k["current_value"] \in Nat
      /\ k["invested_amount"] \in Nat
      /\ q.units \in Nat \ {0} /\ q.amount \in Nat
      /\ q.op \in {"inflow", "outflow"}
  BY NotNullColumns DEF Apply
<1>2. CASE q.op = "inflow"
  <2> DEFINE new == Increased(k, q)
  <2>1. PICK b : p = Differing(k, new, b)
    BY <1>2 DEF Assigned
  <2>2. /\ new \in Cols
        /\ new["units"] = k["units"] + q.units
        /\ new["invested_amount"] = k["invested_amount"] + q.amount
        /\ new["current_value"] = k["current_value"] + q.amount
        /\ new["average_nav"] =
             AverageNav(new["invested_amount"], new["units"])
        /\ new["current_nav"] = q.nav /\ new["valuation_date"] = q.date
    BY IncreasedColumns
  <2> HIDE DEF new
  <2>3. new["units"] \in Nat \ {0} /\ new["invested_amount"] \in Nat
    BY <1>1, <2>2
  <2>4. 2 * (new["average_nav"] * new["units"] - Cent * new["invested_amount"])
          \in -new["units"]..new["units"]
    BY <2>2, <2>3, AverageType
  <2>5. Overwrite(k, p) = new
    BY <2>1, <2>2, OverwriteDiffering
  <2>6. BooksExactly(q, k, new)
    BY <1>2, <2>2, <2>4 DEF BooksExactly
  <2>7. QED
    BY <2>2, <2>5, <2>6
<1>3. CASE q.op = "outflow"
  <2>1. PICK value \in Remainders(k["current_value"], q.units, k["units"]),
             cost \in Remainders(k["invested_amount"], q.units, k["units"]) :
          p = Differing(k, Reduced(k, q, value, cost),
                        {c \in {"current_value", "invested_amount"} :
                           k[c] # 0})
    BY <1>3 DEF Assigned
  <2> DEFINE new == Reduced(k, q, value, cost)
  <2>2. value \in Nat /\ cost \in Nat /\ q.units <= k["units"]
    BY <1>1 DEF Remainders
  <2>3. /\ new \in Cols
        /\ new["units"] = k["units"] - q.units
        /\ new["invested_amount"] = cost /\ new["current_value"] = value
        /\ new["average_nav"] = k["average_nav"]
        /\ new["current_nav"] = q.nav /\ new["valuation_date"] = q.date
    BY <2>2, ReducedColumns
  <2>4. Overwrite(k, p) = new
    BY <2>1, <2>3, OverwriteDiffering
  <2> HIDE DEF new
  <2>5. /\ ShareRemains(k, new, "current_value")
        /\ ShareRemains(k, new, "invested_amount")
    BY <1>1, <2>1, <2>3, RemainderIsShare DEF NotNull
  <2>6. new["units"] + q.units = k["units"]
    BY <1>1, <2>3
  <2>7. BooksExactly(q, k, new)
    BY <1>3, <2>3, <2>5, <2>6 DEF BooksExactly
  <2>8. QED
    BY <2>3, <2>4, <2>7
<1>4. QED
  BY <1>1, <1>2, <1>3

\* An unraced completion books exactly: its price and its units; its amount, on
\* value and cost, with the average price that follows; or the value and the
\* cost that remain, to the nearest cent.
THEOREM CompletionsAreExact == Spec => CompletionsExactUnlessRaced
<1>1. ASSUME ValuationInv, [Next]_vars, NEW r \in Req, NEW x \in RowId,
             Completes(r, x), loaded[r][x] = holdings[x]
      PROVE  BooksExactly(call[r], holdings[x].cols, holdings'[x].cols)
  <2>1. TypeOK /\ Control /\ Applied /\ Writes
    BY <1>1, InvParts
  <2>2. Commit(r)
    BY <1>1, OnlyCommits DEF Completes
  <2>3. /\ call[r] # None /\ call[r].op \in {"inflow", "outflow"}
        /\ call[r] \in Apply /\ call[r].id = x
    BY <1>1, <2>1, CallShape DEF Completes, TypeOK
  <2>4. pc[r] = "commit" /\ todo[r] = {}
    BY <2>1, <2>2 DEF Commit, Control, ControlAt
  <2>5. /\ loaded[r][x] # None
        /\ dirty[r][x] \in Assigned(call[r], loaded[r][x].cols)
    BY <2>1, <2>3, <2>4 DEF Applied, AppliedAt
  <2>6. holdings[x] \in Row /\ holdings[x].cols \in Cols
    BY <1>1, <2>1, <2>5 DEF TypeOK, Row
  <2>7. BooksExactly(call[r], holdings[x].cols,
                     Overwrite(holdings[x].cols, dirty[r][x]))
    BY <1>1, <2>3, <2>5, <2>6, AssignedExactly
  <2>8. holdings'[x].cols = Overwrite(holdings[x].cols, dirty[r][x])
    <3>1. CASE write[r][x] # None
      <4>1. write[r][x] = Updated(r, x)
        BY <2>1, <2>3, <3>1 DEF Writes, WriteAt
      <4>2. holdings'[x] = Updated(r, x)
        BY <2>2, <3>1, <4>1 DEF Commit
      <4>3. QED
        BY <2>6, <4>2 DEF Updated, Row
    <3>2. CASE write[r][x] = None
      <4>1. dirty[r][x] = NoColumns
        BY <2>1, <2>4, <3>2 DEF Writes, WriteAt
      <4>2. holdings'[x] = holdings[x]
        BY <2>2, <3>2 DEF Commit
      <4>3. Overwrite(holdings[x].cols, NoColumns) = holdings[x].cols
        <5>1. Overwrite(holdings[x].cols, NoColumns)
                = [c \in Column |-> holdings[x].cols[c]]
          BY DEF Overwrite, NoColumns
        <5>2. QED
          BY <2>6, <5>1 DEF Cols
      <4>4. QED
        BY <4>1, <4>2, <4>3
    <3>3. QED
      BY <3>1, <3>2
  <2>9. QED
    BY <2>7, <2>8
<1>2. ASSUME ValuationInv, [Next]_vars
      PROVE  [\A r \in Req, x \in RowId :
                Completes(r, x) /\ loaded[r][x] = holdings[x]
                => BooksExactly(call[r], holdings[x].cols,
                                holdings'[x].cols)]_vars
  BY <1>1, <1>2
<1>3. QED
  BY <1>2, ValuationInvariant, PTL
     DEF Spec, CompletionsExactUnlessRaced, BooksExactly

-----------------------------------------------------------------------------
(* Locks.                                                                  *)

\* What a waiting session wants is the least of what it has still to flush,
\* and comes after all it has written.
LEMMA WantsLater ==
    ASSUME ValuationInv, NEW r \in Req, pc[r] = "flush"
    PROVE  /\ \E y \in RowId : y \in NextToFlush(r)
           /\ \A y \in NextToFlush(r), x \in RowId :
                write[r][x] # None => x < y
<1>1. TypeOK /\ Control /\ Writes
  BY InvParts
<1>2. todo[r] \in (SUBSET RowId) \ {{}}
  BY <1>1 DEF TypeOK, Control, ControlAt
<1>3. PICK y \in todo[r] : \A x \in todo[r] : y <= x
  BY <1>2, IdAssumption
<1>4. QED
  BY <1>1, <1>2, <1>3 DEF NextToFlush, Writes, WriteAt

\* Locks are taken in the order of uuids, so no requests wait in a circle: of
\* the holdings they wait for take the greatest; whoever has it waits for a
\* greater one.
THEOREM LocksAreOrdered == Spec => []NoLockCycle
<1>1. ValuationInv => NoLockCycle
  <2>1. SUFFICES ASSUME ValuationInv, NEW S \in (SUBSET Req) \ {{}},
                        \A r \in S : \E o \in S : WaitsFor(r, o)
                 PROVE  FALSE
    BY DEF NoLockCycle
  <2> DEFINE Wanted == {y \in RowId : \E r \in S : y \in NextToFlush(r)}
  <2>2. ASSUME NEW r \in S
        PROVE  r \in Req /\ pc[r] = "flush"
    BY <2>1 DEF WaitsFor
  <2>3. Wanted \in (SUBSET RowId) \ {{}}
    BY <2>1, <2>2, WantsLater
  <2>4. PICK z \in Wanted : \A y \in Wanted : y <= z
    BY <2>3, IdAssumption
  <2>5. PICK r \in S : z \in NextToFlush(r)
    BY <2>4
  <2>6. PICK o \in S : write[o][z] # None
    BY <2>1, <2>5 DEF WaitsFor
  <2>7. PICK y \in RowId : y \in NextToFlush(o) /\ z < y
    BY <2>1, <2>2, <2>4, <2>6, WantsLater
  <2>8. y \in Wanted /\ y \in Nat /\ z \in Nat
    BY <2>4, <2>6, <2>7, IdAssumption
  <2>9. QED
    BY <2>4, <2>7, <2>8
<1>2. QED
  BY <1>1, ValuationInvariant, PTL

=============================================================================
