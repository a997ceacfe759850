----------------------------- MODULE Valuation ------------------------------
(***************************************************************************)
(* recalculate_valuations: one request reads all active holdings of an     *)
(* advisor, or of everybody, reads the latest NAV of each scheme, and      *)
(* stores new valuations in one transaction, while completions, edits and  *)
(* deletions change the same holdings and NAVs are published, corrected    *)
(* and withdrawn.                                                          *)
(*                                                                         *)
(* It is the only session of the program that locks several rows of a      *)
(* table.  Holdings are named by their uuid, a number: SQLAlchemy flushes  *)
(* the dirty objects of a table in the order of their primary keys.        *)
(*                                                                         *)
(* Requests and sessions are those of TransactionLedger, a step is one SQL *)
(* statement with the Python that follows it.  The rows of transactions    *)
(* and the rule of one active holding per position are left to that        *)
(* module, the steps of the NAV endpoints to Registry.                     *)
(***************************************************************************)
EXTENDS Integers

CONSTANTS
    Req,                \* requests; each is received at most once
    Scheme, Advisor,
    RowId,              \* uuids of holdings
    Quote,              \* NAVs that are published: a value and a date
    Cent,               \* what current_value counts, in units times NAV
    InitialHoldings,    \* holdings stored before the first request
    InitialNavs,        \* active NAVs of each scheme before that
    Workload,           \* the service calls clients make
    None,               \* NULL, or no row, no write, no call
    Unset               \* a column that is not set

Column == {"units", "invested_amount", "current_value", "average_nav",
           "current_nav", "valuation_date"}
NotNull == {"units", "invested_amount", "current_value"}

Cols ==
    {k \in [Column -> Nat \cup {None}] : \A c \in NotNull : k[c] # None}
Row == [scheme: Scheme, advisor_id: Advisor, cols: Cols, is_active: BOOLEAN]

\* What an UPDATE or a PATCH sets the columns to.
Assignment ==
    {p \in [Column -> Nat \cup {None, Unset}] :
        \A c \in NotNull : p[c] # None}
NoColumns == [c \in Column |-> Unset]

\* A DELETE is a PATCH that sets is_active = FALSE and no column: both load
\* the holding and update it by id.
Recalculate == [op: {"recalculate"}, scope: SUBSET Advisor]
Apply == [op: {"inflow", "outflow"}, id: RowId, units: Nat \ {0},
          amount: Nat \ {0}, nav: Nat \ {0}, date: Nat]
Edit == [op: {"edit"}, id: RowId, cols: Assignment, is_active: BOOLEAN]
Create == [op: {"create"}, row: {row \in Row : row.is_active}]
Call == Recalculate \cup Apply \cup Edit \cup Create

AtMostOne(S) == \A p, q \in S : p = q
DistinctDates(S) == \A p, q \in S : p.date = q.date => p = q

\* A uuid has 128 bits: of some of them one is the least and one the greatest.
ASSUME IdAssumption ==
    /\ RowId \subseteq Nat
    /\ \A S \in (SUBSET RowId) \ {{}} :
          \E x, z \in S : \A y \in S : x <= y /\ y <= z

ASSUME QuoteAssumption == Quote \subseteq [value: Nat \ {0}, date: Nat]

ASSUME CentAssumption == Cent \in Nat \ {0}

ASSUME SeedAssumption ==
    /\ InitialHoldings \in [RowId -> Row \cup {None}]
    /\ InitialNavs \in [Scheme -> SUBSET Quote]
    /\ \A s \in Scheme : DistinctDates(InitialNavs[s])

ASSUME WorkloadAssumption == Workload \subseteq Call

ASSUME NoneAssumption ==
    /\ None \notin Row \cup Call \cup Nat
    /\ Unset \notin Nat \cup {None}

VARIABLES
    holdings,   \* committed rows of portfolio_holdings
    navs,       \* committed and active NAVs of each scheme
    pc,         \* the next step of each request
    call,       \* the service call a request made
    loaded,     \* session: the holdings it has loaded
    dirty,      \* session: what it has assigned to their attributes
    todo,       \* the holdings still to be valued, then to be flushed
    write,      \* session: the row versions it has flushed
    committed,  \* history: requests that have committed
    before,     \* history: the holdings when a recalculation listed them
    published   \* history: the NAVs of each scheme since then

session == <<call, loaded, dirty, todo, write>>
history == <<committed, before, published>>
vars == <<holdings, navs, pc, session, history>>

-----------------------------------------------------------------------------
(* Arithmetic.                                                             *)

\* Units times NAV as a NUMERIC(14, 2) stores it: to the nearest cent.
Worth(units, nav) == (units * nav + Cent \div 2) \div Cent

\* Faulty: the share that is sold is kept.
SoldShare(value, units, total) ==
    {v \in 0..value :
        /\ units <= total
        /\ 2 * (v * total - value * units) \in -total..total}

\* The price of a unit when units have cost so much.
AverageNav(cost, units) == (2 * Cent * cost + units) \div (2 * units)

\* What is left of a value when units are redeemed from a holding of total
\* units, if it has as many: the nearest cent, either of two as near.
Remainders(value, units, total) ==
    {v \in 0..value :
        /\ units <= total
        /\ 2 * (v * total - value * (total - units)) \in -total..total}

\* The columns of k with those of p set.
Overwrite(k, p) == [c \in Column |-> IF p[c] # Unset THEN p[c] ELSE k[c]]

\* The assignments that differ from what was loaded.  A number that has to be
\* rounded differs although it may be stored as the same one.
Differing(k, p, rounded) ==
    [c \in Column |-> IF p[c] # k[c] \/ c \in rounded THEN p[c] ELSE Unset]

\* A holding valued by the NAV q.
ValuedBy(k, q) ==
    [k EXCEPT !["current_value"] = Worth(k["units"], q.value),
              !["current_nav"] = q.value, !["valuation_date"] = q.date]

\* Faulty: the value is not computed anew.
RevaluedNavOnly(k, q) ==
    Differing(k, [ValuedBy(k, q) EXCEPT !["current_value"] =
                    k["current_value"]], {})

\* What a recalculation assigns to a holding, for the NAV q.
Revalued(k, q) ==
    Differing(k, ValuedBy(k, q),
              IF k["units"] * q.value # k["current_value"] * Cent
              THEN {"current_value"} ELSE {})

\* A holding with the completed inflow q.
Increased(k, q) ==
    LET units == k["units"] + q.units
        cost == k["invested_amount"] + q.amount
    IN  [k EXCEPT !["units"] = units, !["invested_amount"] = cost,
                  !["current_value"] = @ + q.amount,
                  !["average_nav"] = AverageNav(cost, units),
                  !["current_nav"] = q.nav, !["valuation_date"] = q.date]

\* A holding after the completed outflow q, when that value and cost remain.
Reduced(k, q, value, cost) ==
    [k EXCEPT !["units"] = @ - q.units, !["invested_amount"] = cost,
              !["current_value"] = value,
              !["current_nav"] = q.nav, !["valuation_date"] = q.date]

\* What a completion, a PATCH or a DELETE may assign to the row it loads.
Assigned(q, k) ==
    CASE q.op = "inflow" ->
            {Differing(k, Increased(k, q),
                       IF (Cent * (k["invested_amount"] + q.amount))
                            % (k["units"] + q.units) # 0
                       THEN {"average_nav"} ELSE {})}
      [] q.op = "outflow" ->
            {Differing(k, Reduced(k, q, value, cost),
                       {c \in {"current_value", "invested_amount"} :
                          k[c] # 0}) :
                value \in Remainders(k["current_value"], q.units, k["units"]),
                cost \in Remainders(k["invested_amount"], q.units, k["units"])}
      [] q.op = "edit" -> {Differing(k, q.cols, {})}

-----------------------------------------------------------------------------
(* What a statement of request r finds.                                    *)

Active(x) == holdings[x] # None /\ holdings[x].is_active

\* The active holdings in the scope of a recalculation.
Listed(r) ==
    {x \in RowId : Active(x) /\ holdings[x].advisor_id \in call[r].scope}

\* Faulty: the oldest NAV.
EarliestNav(s) == {q \in navs[s] : \A p \in navs[s] : q.date <= p.date}

\* The latest NAV of a scheme, if there is one.
LatestNav(s) == {q \in navs[s] : \A p \in navs[s] : q.date >= p.date}

\* Faulty: the NAV is not kept for the other holdings of the scheme.
OnlyThis(r, x) == {x}

\* The holdings that are valued when the NAV for x is found.
SameScheme(r, x) == {y \in todo[r] : loaded[r][y].scheme = loaded[r][x].scheme}

\* Faulty: the flush follows no order.
AnyToFlush(r) == todo[r]

\* The holding whose UPDATE is next: dirty objects are flushed by uuid.
NextToFlush(r) == {x \in todo[r] : \A y \in todo[r] : x <= y}

Deactivates(q) == q.op = "edit" /\ ~q.is_active

\* Faulty: the UPDATE sets every column of the object.
UpdatedWhole(r, x) ==
    [loaded[r][x] EXCEPT !.cols = Overwrite(@, dirty[r][x]),
                         !.is_active = ~Deactivates(call[r])]

\* The UPDATE sets the assigned columns of the row as it is by then.
Updated(r, x) ==
    [holdings[x] EXCEPT !.cols = Overwrite(@, dirty[r][x]),
                        !.is_active = @ /\ ~Deactivates(call[r])]

\* Another session has written the holding and not ended.
RowLocked(r, x) == \E o \in Req \ {r} : write[o][x] # None

-----------------------------------------------------------------------------

Nothing == [x \in RowId |-> None]
NothingAssigned == [x \in RowId |-> NoColumns]

\* Faulty: the session of a finished request is never closed.
CloseLeaking(r) == pc' = [pc EXCEPT ![r] = "done"] /\ UNCHANGED session

\* The session is closed and what is not committed rolled back.
Close(r) ==
    /\ pc' = [pc EXCEPT ![r] = "done"]
    /\ loaded' = [loaded EXCEPT ![r] = Nothing]
    /\ dirty' = [dirty EXCEPT ![r] = NothingAssigned]
    /\ todo' = [todo EXCEPT ![r] = {}]
    /\ write' = [write EXCEPT ![r] = Nothing]
    /\ UNCHANGED call

\* An answer without a commit.
Reject(r) == Close(r) /\ UNCHANGED <<holdings, navs, history>>

\* The next step, when the holdings in S have to be flushed.
FlushOrCommit(S) == IF S = {} THEN "commit" ELSE "flush"

Running(r) == pc[r] \notin {"idle", "done"}

-----------------------------------------------------------------------------
(* Steps of the service methods.                                           *)

\* The call is accepted: the caller may make it, and the parents of a new
\* holding exist.
Receive(r, q) ==
    /\ pc[r] = "idle"
    /\ call' = [call EXCEPT ![r] = q]
    /\ pc' = [pc EXCEPT ![r] = CASE q.op = "recalculate" -> "list"
                                 [] q.op = "create" -> "insert"
                                 [] OTHER -> "load"]
    /\ UNCHANGED <<holdings, navs, loaded, dirty, todo, write, history>>

\* The call is refused.
Refuse(r) == pc[r] = "idle" /\ Reject(r)

\* A request of another kind publishes, corrects or withdraws a NAV: no two
\* active NAVs of a scheme have one date.
ChangeNav(r, s, old, new) ==
    /\ pc[r] = "idle"
    /\ old \subseteq navs[s] /\ new \subseteq Quote
    /\ AtMostOne(old) /\ AtMostOne(new) /\ old # new
    /\ DistinctDates((navs[s] \ old) \cup new)
    /\ navs' = [navs EXCEPT ![s] = (@ \ old) \cup new]
    /\ pc' = [pc EXCEPT ![r] = "done"]
    /\ published' = [o \in Req |->
                       IF pc[o] \in {"quote", "flush", "commit"}
                       THEN [published[o] EXCEPT ![s] = @ \cup {navs'[s]}]
                       ELSE published[o]]
    /\ UNCHANGED <<holdings, session, committed, before>>

\* One SELECT of all holdings to be valued.
List(r) ==
    /\ pc[r] = "list"
    /\ loaded' = [loaded EXCEPT ![r] =
                    [x \in RowId |-> IF x \in Listed(r) THEN holdings[x]
                                     ELSE None]]
    /\ todo' = [todo EXCEPT ![r] = Listed(r)]
    /\ pc' = [pc EXCEPT ![r] = IF Listed(r) = {} THEN "commit" ELSE "quote"]
    /\ before' = [before EXCEPT ![r] = holdings]
    /\ published' = [published EXCEPT ![r] = [s \in Scheme |-> {navs[s]}]]
    /\ UNCHANGED <<holdings, navs, call, dirty, write, committed>>

\* The holdings in S are done with, the attributes being d: after the last one
\* COMMIT begins with the flush of the dirty ones.
Valued(r, S, d) ==
    /\ dirty' = [dirty EXCEPT ![r] = d]
    /\ \/ /\ todo[r] \subseteq S
          /\ todo' = [todo EXCEPT ![r] = {x \in RowId : d[x] # NoColumns}]
          /\ pc' = [pc EXCEPT ![r] = FlushOrCommit(todo'[r])]
       \/ /\ ~(todo[r] \subseteq S)
          /\ todo' = [todo EXCEPT ![r] = @ \ S]
          /\ UNCHANGED pc
    /\ UNCHANGED <<holdings, navs, call, loaded, write, history>>

\* The latest NAV for holding x, which then serves all later holdings of the
\* scheme.  That there is none is not remembered: each of them asks again.
ReadNav(r, x) ==
    /\ pc[r] = "quote" /\ x \in todo[r]
    /\ LET found == LatestNav(loaded[r][x].scheme)
       IN  \/ found = {} /\ Valued(r, {x}, dirty[r])
           \/ \E q \in found :
                Valued(r, SameScheme(r, x),
                       [y \in RowId |->
                          IF y \in SameScheme(r, x)
                          THEN Revalued(loaded[r][y].cols, q)
                          ELSE dirty[r][y]])

\* A completion, a PATCH or a DELETE loads its holding and assigns.
Load(r) ==
    /\ pc[r] = "load"
    /\ LET x == call[r].id
       IN  \/ /\ Active(x)
              /\ \E p \in Assigned(call[r], holdings[x].cols) :
                   /\ dirty' = [dirty EXCEPT ![r][x] = p]
                   /\ todo' = [todo EXCEPT ![r] =
                                 IF p # NoColumns \/ Deactivates(call[r])
                                 THEN {x} ELSE {}]
                   /\ pc' = [pc EXCEPT ![r] = FlushOrCommit(todo'[r])]
              /\ loaded' = [loaded EXCEPT ![r][x] = holdings[x]]
              /\ UNCHANGED <<holdings, navs, call, write, history>>
           \/ /\ ~Active(x) \/ Assigned(call[r], holdings[x].cols) = {}
              /\ Reject(r)

\* The INSERT of an active holding, by its endpoint or by a completion, with
\* a fresh uuid; or the position is taken.
Insert(r) ==
    /\ pc[r] = "insert"
    /\ \/ \E x \in RowId :
            /\ holdings[x] = None /\ ~RowLocked(r, x)
            /\ write' = [write EXCEPT ![r][x] = call[r].row]
            /\ pc' = [pc EXCEPT ![r] = "commit"]
            /\ UNCHANGED <<holdings, navs, call, loaded, dirty, todo, history>>
       \/ Reject(r)

\* One UPDATE by uuid, once the row is not locked.
Flush(r, x) ==
    /\ pc[r] = "flush"
    /\ x \in NextToFlush(r)
    /\ ~RowLocked(r, x)
    /\ write' = [write EXCEPT ![r][x] = Updated(r, x)]
    /\ todo' = [todo EXCEPT ![r] = @ \ {x}]
    /\ pc' = [pc EXCEPT ![r] = FlushOrCommit(todo'[r])]
    /\ UNCHANGED <<holdings, navs, call, loaded, dirty, history>>

Commit(r) ==
    /\ pc[r] = "commit"
    /\ holdings' = [x \in RowId |-> IF write[r][x] # None THEN write[r][x]
                                    ELSE holdings[x]]
    /\ committed' = committed \cup {r}
    /\ Close(r)
    /\ UNCHANGED <<navs, before, published>>

\* A statement fails, or a value exceeds its NUMERIC column: 503.
Fail(r) == Running(r) /\ Reject(r)

Step(r) ==
    \/ List(r)
    \/ \E x \in RowId : ReadNav(r, x) \/ Flush(r, x)
    \/ Load(r) \/ Insert(r) \/ Commit(r)

Init ==
    /\ holdings = InitialHoldings
    /\ navs = InitialNavs
    /\ pc = [r \in Req |-> "idle"]
    /\ call = [r \in Req |-> None]
    /\ loaded = [r \in Req |-> Nothing]
    /\ dirty = [r \in Req |-> NothingAssigned]
    /\ todo = [r \in Req |-> {}]
    /\ write = [r \in Req |-> Nothing]
    /\ committed = {}
    /\ before = [r \in Req |-> Nothing]
    /\ published = [r \in Req |-> [s \in Scheme |-> {}]]

\* No client has anything left to ask.
Quiescent == (\A r \in Req : pc[r] = "done") /\ UNCHANGED vars

Next ==
    \/ \E r \in Req :
        \/ \E q \in Workload : Receive(r, q)
        \/ Refuse(r)
        \/ \E s \in Scheme, new \in SUBSET Quote :
             \E old \in SUBSET navs[s] : ChangeNav(r, s, old, new)
        \/ Step(r)
        \/ Fail(r)
    \/ Quiescent

Spec == Init /\ [][Next]_vars

-----------------------------------------------------------------------------
(* Properties.                                                             *)

\* Type invariant of the tables, the sessions and the histories.
TypeOK ==
    /\ holdings \in [RowId -> Row \cup {None}]
    /\ navs \in [Scheme -> SUBSET Quote]
    /\ pc \in [Req -> {"idle", "list", "quote", "load", "insert", "flush",
                       "commit", "done"}]
    /\ call \in [Req -> Call \cup {None}]
    /\ loaded \in [Req -> [RowId -> Row \cup {None}]]
    /\ dirty \in [Req -> [RowId -> Assignment]]
    /\ todo \in [Req -> SUBSET RowId]
    /\ write \in [Req -> [RowId -> Row \cup {None}]]
    /\ committed \in SUBSET Req
    /\ before \in [Req -> [RowId -> Row \cup {None}]]
    /\ published \in [Req -> [Scheme -> SUBSET SUBSET Quote]]

\* Request r commits a recalculation.
Recalculates(r) ==
    call[r] # None /\ call[r].op = "recalculate" /\ r \in committed' \ committed

InScope(r, row) == row.is_active /\ row.advisor_id \in call[r].scope

\* A recalculation that was computed from holdings read long ago takes back
\* nothing: no units that were booked meanwhile, no deletion, and nothing of
\* another advisor's holdings.
RecalculationOnlyValues ==
    [][\A r \in Req, x \in RowId :
          Recalculates(r) /\ holdings[x] # None
          => /\ holdings'[x].cols["units"] = holdings[x].cols["units"]
             /\ holdings'[x].is_active = holdings[x].is_active
             /\ holdings[x].advisor_id \notin call[r].scope
                => holdings'[x] = holdings[x]]_vars

\* Latest by date, the active NAVs of a scheme being S.
IsLatest(q, S) == q \in S /\ \A p \in S : p.date <= q.date

\* A committed recalculation leaves a holding in its scope with any other
\* valuation than units times the latest NAV only if the holding or a NAV of
\* its scheme was changed while it ran.
InexactOnlyInRaces ==
    [][\A r \in Req, x \in RowId :
          /\ Recalculates(r)
          /\ before[r][x] # None /\ before[r][x] = holdings[x]
          /\ InScope(r, holdings[x])
          => \A q \in navs[holdings[x].scheme] :
               /\ published[r][holdings[x].scheme] = {navs[holdings[x].scheme]}
               /\ IsLatest(q, navs[holdings[x].scheme])
               => holdings'[x].cols =
                    [holdings[x].cols EXCEPT
                       !["current_value"] =
                          Worth(holdings[x].cols["units"], q.value),
                       !["current_nav"] = q.value,
                       !["valuation_date"] = q.date]]_vars

\* Request r commits a completion on holding x.
Completes(r, x) ==
    /\ call[r] # None /\ call[r].op \in {"inflow", "outflow"}
    /\ call[r].id = x /\ r \in committed' \ committed

\* What is left of column c keeps its share of a unit, up to half a cent of the
\* whole, and without units nothing is left.
ShareRemains(old, new, c) ==
    /\ 2 * (new[c] * old["units"] - old[c] * new["units"])
         \in -old["units"]..old["units"]
    /\ new["units"] = 0 => new[c] = 0

\* A completion that no other commit has overtaken books its units and its
\* price.  An inflow adds its amount to value and cost, and the average price
\* is then cost by units, to the last decimal; an outflow keeps the average
\* and what a unit is worth and has cost, although ratios are rounded and only
\* the columns that differ are stored.
CompletionsExactUnlessRaced ==
    [][\A r \in Req, x \in RowId :
          Completes(r, x) /\ loaded[r][x] = holdings[x]
          => LET q == call[r]
                 old == holdings[x].cols
                 new == holdings'[x].cols
             IN  /\ new["current_nav"] = q.nav
                 /\ new["valuation_date"] = q.date
                 /\ q.op = "inflow"
                    => /\ new["units"] = old["units"] + q.units
                       /\ \A c \in {"current_value", "invested_amount"} :
                            new[c] = old[c] + q.amount
                       /\ 2 * (new["average_nav"] * new["units"]
                               - Cent * new["invested_amount"])
                            \in -new["units"]..new["units"]
                 /\ q.op = "outflow"
                    => /\ new["units"] + q.units = old["units"]
                       /\ ShareRemains(old, new, "current_value")
                       /\ ShareRemains(old, new, "invested_amount")
                       /\ new["average_nav"] = old["average_nav"]]_vars

\* What the object of a holding says after the assignments.
Object(r, x) == Overwrite(loaded[r][x].cols, dirty[r][x])

\* Every valuation a recalculation is about to store is by a NAV that was the
\* latest of its scheme at a moment while it ran, although NAVs are read one
\* scheme after the other and may be corrected or withdrawn in between.
ValuedAtLatestNav ==
    \A r \in Req, x \in RowId :
        /\ call[r] # None /\ call[r].op = "recalculate"
        /\ dirty[r][x] # NoColumns
        => \E S \in published[r][loaded[r][x].scheme] : \E q \in S :
              /\ IsLatest(q, S)
              /\ Object(r, x)["current_nav"] = q.value
              /\ Object(r, x)["valuation_date"] = q.date

\* One recalculation values all holdings of a scheme by one NAV, even if
\* another is published between two of them.
OneNavPerScheme ==
    \A r \in Req : \A x, y \in RowId :
        /\ call[r] # None /\ call[r].op = "recalculate"
        /\ dirty[r][x] # NoColumns /\ dirty[r][y] # NoColumns
        /\ loaded[r][x].scheme = loaded[r][y].scheme
        => \A c \in {"current_nav", "valuation_date"} :
              Object(r, x)[c] = Object(r, y)[c]

\* Request r waits for the lock of a holding that o has written.
WaitsFor(r, o) ==
    /\ r # o /\ pc[r] = "flush"
    /\ \A x \in NextToFlush(r) : write[o][x] # None

\* Requests never wait for each other in a circle, although recalculations
\* take many row locks, one by one, and keep them.
NoLockCycle ==
    \A S \in (SUBSET Req) \ {{}} :
        \E r \in S : \A o \in S : ~WaitsFor(r, o)

-----------------------------------------------------------------------------
(* The inductive invariant behind the safety properties, in parts.         *)

\* Where a request can be, given its call, and what its session then holds:
\* it has assigned to holdings it has loaded, which were active then, and has
\* still to flush some of those.
ControlAt(r) ==
    /\ pc[r] = "idle" => call[r] = None
    /\ Running(r) => call[r] # None
    /\ r \in committed => pc[r] = "done"
    /\ pc[r] \in {"list", "quote"} => call[r].op = "recalculate"
    /\ pc[r] = "load" => call[r].op \in {"inflow", "outflow", "edit"}
    /\ pc[r] = "insert" => call[r].op = "create"
    /\ pc[r] \notin {"quote", "flush", "commit"}
       => loaded[r] = Nothing /\ dirty[r] = NothingAssigned
    /\ pc[r] \in {"quote", "flush"} => call[r].op # "create"
    /\ pc[r] \in {"quote", "flush"} <=> todo[r] # {}
    /\ \A x \in RowId :
         /\ x \in todo[r] \/ dirty[r][x] # NoColumns => loaded[r][x] # None
         /\ loaded[r][x] # None
            => /\ holdings[x] # None
               /\ loaded[r][x].scheme = holdings[x].scheme
               /\ loaded[r][x].advisor_id = holdings[x].advisor_id
               /\ loaded[r][x].is_active
               /\ call[r].op # "create"

\* A flushed row is what the session makes of the committed one, or a new
\* one; it is locked, and precedes all that the session has still to lock.
WriteAt(r, x) ==
    /\ write[r][x] # None
       => /\ pc[r] \in {"flush", "commit"}
          /\ ~RowLocked(r, x)
          /\ \A y \in todo[r] : x < y
          /\ call[r].op = "create"
             => holdings[x] = None /\ write[r][x] = call[r].row
          /\ call[r].op # "create"
             => loaded[r][x] # None /\ write[r][x] = Updated(r, x)
    /\ pc[r] \in {"flush", "commit"} /\ dirty[r][x] # NoColumns
       => x \in todo[r] \/ write[r][x] # None

Recalculating(r) ==
    pc[r] \in {"quote", "flush", "commit"} /\ call[r].op = "recalculate"

\* The holding has had its turn in the loop.
Done(r, x) == loaded[r][x] # None /\ ~(pc[r] = "quote" /\ x \in todo[r])

\* A recalculation has loaded what was active in its scope, and assigned to
\* each holding what a NAV that was the latest makes of it, if there was one.
ListedAt(r, x) ==
    Recalculating(r)
    => /\ loaded[r][x] # None
          => loaded[r][x] = before[r][x] /\ InScope(r, before[r][x])
       /\ before[r][x] # None /\ InScope(r, before[r][x])
          => loaded[r][x] = before[r][x]
       /\ \A s \in Scheme : navs[s] \in published[r][s]
       /\ pc[r] = "quote" /\ x \in todo[r] => dirty[r][x] = NoColumns

QuotedAt(r, x) ==
    Recalculating(r) /\ Done(r, x)
    => \E S \in published[r][loaded[r][x].scheme] :
         \/ dirty[r][x] = NoColumns /\ \A q \in S : ~IsLatest(q, S)
         \/ \E q \in S : /\ IsLatest(q, S)
                         /\ dirty[r][x] = Revalued(loaded[r][x].cols, q)

\* Two holdings of a scheme are valued in one step.
TogetherAt(r, x, y) ==
    /\ Recalculating(r)
    /\ loaded[r][x] # None /\ loaded[r][y] # None
    /\ loaded[r][x].scheme = loaded[r][y].scheme
    /\ dirty[r][x] # NoColumns
    => /\ ~(pc[r] = "quote" /\ y \in todo[r])
       /\ dirty[r][y] # NoColumns
          => \E q \in Quote :
                /\ dirty[r][x] = Revalued(loaded[r][x].cols, q)
                /\ dirty[r][y] = Revalued(loaded[r][y].cols, q)

\* A completion or an edit has assigned what it makes of the row it loaded.
AppliedAt(r) ==
    /\ pc[r] \in {"flush", "commit"}
    /\ call[r].op \in {"inflow", "outflow", "edit"}
    => /\ loaded[r][call[r].id] # None
       /\ dirty[r][call[r].id] \in
            Assigned(call[r], loaded[r][call[r].id].cols)

ValuationInv ==
    /\ TypeOK
    /\ \A s \in Scheme : DistinctDates(navs[s])
    /\ \A r \in Req :
         /\ ControlAt(r) /\ AppliedAt(r)
         /\ \A x \in RowId : WriteAt(r, x) /\ ListedAt(r, x) /\ QuotedAt(r, x)
         /\ \A x, y \in RowId : TogetherAt(r, x, y)

=============================================================================
