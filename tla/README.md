# MF_MANAGER: verification project

MF_MANAGER is the back end of a mutual-fund distributor's office: advisors keep
customers, folios, holdings, SIPs and investment transactions in PostgreSQL
through a FastAPI service (`src/app`). Each request runs one service method on a
SQLAlchemy `AsyncSession` of its own. There is no locking read, no version column
and no serializable transaction anywhere in the code, so what the program
promises about units and money depends on which statements of two requests can
interleave. That is what this project models.

## The system

Layers: `routes/` (FastAPI) → `services/` (rules) → `repositories/` (SQL) →
`models/` (tables, constraints from `alembic/versions/`).

| component | state | operations that change it | what makes it correct |
|---|---|---|---|
| Transaction ledger (`transaction_service.py`) | `transactions` rows: position, type, status, units, `is_active` | create, update (PATCH of status and `is_active`), delete (soft) | a completion moves the units of its holding exactly once, in the same commit; nothing is stored by a refused call |
| Portfolio holdings (`portfolio_service.py`) | `portfolio_holdings` rows | create, update, delete (soft), the apply step of a completion, `recalculate_valuations` | one active holding per (folio, scheme); units never negative; value follows units and NAV |
| Schemes, folios (`portfolio_service.py`) | rows with unique keys | create, update, delete (soft) | unique keys; children belong to the folio's customer and advisor |
| NAV history (`nav_service.py`) | one row per (scheme, date) | create, update, delete (soft) | unique (scheme, date); the latest NAV is the one valued with |
| SIPs (`sip_service.py`) | plan rows with start, end and next due date | create, update, delete (soft) | end and next due date are not before the start |
| Customers (`customer_service.py`) | rows with unique PAN and (advisor, e-mail) | create, update, delete (soft) | uniqueness; the owner never changes |
| Advisors (`advisor_service.py`) | one profile per user | create, update; dashboard reads | the licence type has its number |
| Accounts (`auth_service.py`, `user_service.py`, `bootstrap_service.py`) | users with role and `is_active` | register, administration, bootstrap; login and refresh issue tokens | unique e-mail; inactive users get nothing |
| Unit of work (`database.py`, SQLAlchemy, PostgreSQL) | session: identity map, flushed writes, locks | SELECT, flush, commit, rollback at close | atomic commits; locks end with the session |
| Shell (`main.py`, `config.py`, middleware, health) | the process: starting, up, down | lifespan: bootstrap before the first request | a crash leaves nothing half done |

Components meet in the tables only. Transactions and holdings share
`portfolio_holdings`: the apply step of a completion reads and writes the row
that the holding endpoints create, edit and delete. Every creation reads its
parents (customer, folio, scheme, SIP) as active rows and does not lock them, and
copies their advisor and customer into columns that no constraint ties to them.
Reports and the dashboard select by these copies.

### What is hard

- **Interleaving.** Every service method is a sequence of awaits; between two of
  them any other request may commit. Checks (availability, existence, licence,
  dates) and the writes they justify are separate statements.
- **Stale rows.** A PATCH loads a row, changes attributes and flushes only the
  changed columns with an UPDATE by id, which waits for the row lock and then
  overwrites what was committed meanwhile. The identity map can return the old
  attributes even to a second SELECT of the same session.
- **Partial failure.** A transaction row is flushed before its holding is looked
  at; a refusal, an `IntegrityError` or a failing statement comes after the first
  write. After the commit, the refresh can still fail, and the client gets a 503
  for what is stored.
- **Lock waits.** An UPDATE waits for a row lock, an INSERT for another
  uncommitted insert of the same unique key, while it holds locks of its own.
- **Reports of several SELECTs.** The dashboard makes six, the SIP summary three,
  each at READ COMMITTED: every one may see another state.
- **Crashes and restarts.** Every worker process creates or restores the first
  administrator while it starts, without a lock between processes, and may end
  between any two of its statements.
- **Long legal sequences.** Statuses can be patched in any order, repeatedly.

Every place is listed with its line in `PROJECT.json` under `hazards`.

## Modules

### LedgerRows, TransactionLedger

`LedgerRows` holds the rows of the two tables, the calls, and what a call makes
of the rows it has read (`Subject`, `ChangedHolding`, `NewHolding`).
`TransactionLedger` adds the statements. Transactions and holdings under concurrent requests. One request is one member
of `Req`; `pc[r]` names the statement it runs next, and a step is that statement
with the Python that follows it up to the next await. The other variables:

- `transactions`, `holdings`: the committed rows. A row created by request `r`
  has `r` as its uuid. A position stands for a (folio, scheme) pair.
- `loaded`, `seen`, `txnWrite`, `holdingWrite`: the session. `loaded` and `seen`
  are the attributes of the rows it has read, `txnWrite` and `holdingWrite` what it
  has flushed and not committed, with the columns the statement sets. A flushed
  write is also the lock: `TransactionLocked`, `HoldingLocked`, `IndexBusy` read
  it off the other sessions.
- `response`: 2xx, 4xx or 503.
- `booked`, `applied`: history, written by commits only and read by properties
  only: the units each holding should have, and how often the units of a
  transaction were committed.

| action | code |
|---|---|
| `Receive`, `Refuse` | the route, authentication and the checks of the parents pass or fail |
| `AvailableUnits` | `_available_units` and the comparison after it |
| `InsertTransaction` | `transactions.create` in `create_transaction` |
| `LoadTransaction` | `get_transaction` |
| `FlushTransaction` | `transactions.update`, `soft_delete`, and the status test |
| `ApplyCompleted` | `_apply_completed_transaction` up to its first write |
| `InsertHolding` | `holdings.create` of `create_holding` and of the apply step |
| `FindHolding`, `LoadHolding` | the reads of `create_holding`, `update_holding`, `delete_holding` |
| `FlushHolding` | the UPDATE of a holding, by an edit, a deletion or a completion |
| `Commit`, `Refresh` | `db.commit`, `db.refresh` and the answer |
| `Fail` | any statement fails: rollback at close and 503 |

Abstractions. Units count the last of their four decimals, as integers. The
money columns, `nav` and dates are Valuation's, notes and references left out: they are written
in the same flushes as `units` or alone, and no modelled guard reads them. A
PATCH that changes only such columns takes a row lock and commits nothing the
model shows. Owners (customer, advisor) never change, so the ownership checks
are part of `Receive` and `Refuse` here; Office has the reads they are made of.
The INSERT of a new holding and the UPDATE
of it in the same transaction are one step: nobody sees the row in between.

PostgreSQL and SQLAlchemy are modelled from how the code uses them
(`create_async_engine` with the default isolation, `expire_on_commit=False`,
`autoflush=False`): READ COMMITTED, row locks until the end of the transaction,
waits on the unique index, UPDATEs of dirty columns selected by primary key. A
second SELECT of a row may return the attributes of the first (`SessionRows`):
the identity map is weak, so whether the object is still there depends on the
interpreter, and the model allows both.

### AtomicLedger

The abstract specification of the ledger: what one call promises its client,
without statements, locks and uncommitted writes. A call is new, open, stored or
answered (`stage`). An open call reads its transaction and its holding, each at
most once (`ReadTransaction`, `ReadHolding`), and then does all of its writes in
one step (`Store`): the columns it changes are merged into the rows as they then
are, a new holding is stored only where the position has no active one. It may be
refused, with nothing stored, only for a reason of the code (`Missing`, `Taken`,
`Short`), and lost at any time (`Lose`), before its writes or after them. The
stale read between `ReadHolding` and `Store` is part of the promise, because it is
part of the program: AtomicLedger loses updates too, but it never tears a call
apart. `Abstract` in TransactionLedger is the instance
(`INSTANCE AtomicLedger WITH stage <- Stage`), where `Stage` is the control state
and the answer of a request as its client could know them;
`ImplementsAtomicLedger == Abstract!Spec`.

### MCTransactionLedger

The instances: one customer, two folios, one scheme, so two positions whose
completed transactions the availability fallback adds up; three stored
transactions (a pending sale, a completed purchase whose holding is deleted, a
failed installment) and two holdings, one of them deleted.

### RegistryTables, UniqueTable, Registry

The six tables with unique keys: users, advisors, customers, schemes, folios and
the NAV history. Their services do the same in different detail: look for a row
with the same key (or not), insert or update, and turn an `IntegrityError` into
a 4xx (or not). `RegistryTables` holds what differs, one record per service with
the columns that are unique, nullable and patched, the lookups and their order,
whether SELECTs ask for `is_active`, whether a PATCH may set it, whether there
is a DELETE, and whether the `IntegrityError` is handled.

`Registry` is the protocol. `rows` are the committed rows, `pc`, `call` and
`response` the requests, `todo`, `loaded` and `write` the session, `committed` a
history of commits.

| action | code |
|---|---|
| `Receive`, `Refuse` | the route, roles, the reads of parents pass or fail |
| `Load` | `get_customer`, `get_scheme`, `get_folio`, `get_nav`, `get_user`, `get_profile` |
| `Lookup` | `get_by_pan`, `get_by_email_for_advisor`, `get_by_code`, `get_by_folio_number`, `get_by_scheme_and_date`, `get_by_email`, `get_by_user_id` before a write |
| `Insert`, `Update` | `repository.create`, `update`, `soft_delete`: one flush, which stores the row version, waits, or meets a constraint |
| `Commit`, `Refresh`, `Fail` | as in the ledger |

`UniqueTable` is the abstract specification: what these services promise, not
how. A call is applied in one step that keeps keys unique, or refused because a
stored row has a key it asks for, because its row is missing or inactive, or for
the licence rule, or has no effect. It allows a PATCH to write a part of its
columns, since the code does not write what equals the row it had read. It
allows one odd refusal, that of a NAV for its own date: `update_nav` compares
dates where the other services compare ids.

Abstractions. Keys are opaque and already normalised. In a constraint over two
columns the first one (advisor of a customer's e-mail, scheme of a NAV date)
never changes, so a key stands for the pair. Columns without a unique constraint
are left out, and so are NULLs for NOT NULL columns, which fail in the database.
The licence rule depends on such a column, so a PATCH of an advisor may be
refused at any time here (`MayBreakRule`); PatchRules models it. A statement is
one step: a flush that has to wait holds no lock of its own statement, and a
deadlock that PostgreSQL resolves by aborting a statement is `Fail`. The
bootstrap of the first administrator is left to Accounts.

### PatchRules

Rules over several columns of one row: the end and the next due date of a SIP
are not before its start (checked by the service and by CHECK constraints), and
an advisor has the numbers of the licence type (checked by the service alone). A
PATCH is validated against the row it has read and then writes its own columns
only. The variables are those of Registry without lookups; `Serial` says whether
requests come one after the other.

| action | code |
|---|---|
| `Load` | `get_sip`, `get_profile` and the validation of the merged columns (`Effective`) |
| `Insert`, `Update` | `repository.create`, `update`, `soft_delete`; `CheckFails` is the CHECK of the table |
| `Commit`, `Refresh` | `db.commit`; the response model repeats the licence rule, so a broken row is a 500 although it is stored |
| `Receive`, `Refuse`, `Fail` | as in Registry |

Abstractions. Dates are day numbers, NULL included for the optional ones; an
explicit null for `start_date` or `license_type` fails in the database and is
left out. Amount, frequency and status are in no rule of several columns; Office has them.
Whether a number is taken is Registry's: here a write of one may conflict
(`MayConflict`). Advisors have neither `is_active` nor a DELETE.

### Valuation

`recalculate_valuations` against everything that changes holdings. It is the
only session that writes many rows: it lists the active holdings of an advisor,
or of everybody, reads the latest NAV of each scheme as it goes, assigns, and
flushes all changed objects inside one COMMIT. A holding is named by its uuid, a
number, because SQLAlchemy flushes the dirty objects of a table in the order of
their primary keys, and that order is what keeps two recalculations from
waiting for each other.

State: `holdings`, `navs` (the active NAVs of each scheme); the session: `loaded`
(the objects), `dirty` (what was assigned to their attributes and differs from
what was loaded), `todo` (holdings to value, then to flush), `write` (flushed
versions, which are the locks); history: `committed`, `before` (the holdings
when the list was read) and `published` (the NAVs of each scheme since then).

| action | code |
|---|---|
| `List` | `list_active_for_valuation` |
| `ReadNav` | one turn of the loop that reads a NAV, with the following turns that find it in `latest_by_scheme` |
| `Flush` | one UPDATE of the flush: of a recalculation, a completion, a PATCH or a DELETE |
| `Load` | the read of the holding by a completion, `update_holding` or `delete_holding`, and the assignments |
| `Insert` | `holdings.create` |
| `ChangeNav` | `create_nav`, `update_nav`, `delete_nav`, as one step (their statements are Registry's) |
| `Commit` | `db.commit` and the end of the session |
| `Receive`, `Refuse`, `Fail` | as in Registry |

Abstractions. Units, NAVs, cents and dates are integers; `Worth`, `Remainders` and
`AverageNav` are the products and quotients of the code as `NUMERIC` columns store
them, rounded to the last decimal (`Cent` is how many units times NAV make a
cent). A `Decimal` with more decimals than its column differs from the stored
value and is written even if it is stored as the same one (`Differing`). That a scheme has no NAV is not remembered:
each of its holdings asks again, as in the code. The order of the loop is any order: it is
that of `created_at`. A DELETE is a PATCH that sets `is_active` and nothing else. The
transaction row of a completion and the rule of one active holding per position
are TransactionLedger's. The totals of the answer and the refresh after a commit are
left out; a value that exceeds its
column fails the flush (`Fail`).

### Office

Customers, schemes, folios, holdings, SIPs and transactions as the tree they
form. The other modules look at one table, or at two, under write locks; this one
looks at what is read from many rows, and does not care how a write gets its
locks: a step is one SELECT, or a flush together with its COMMIT. It covers the
relationship checks (`_validate_transaction_relationships`,
`_validate_holding_relationships`, those of SIPs and folios), the ownership
checks of every route, the columns copied from parents, and all reports.

State: `rows`, one table of records for the six, and the sessions: `pc`, `call`,
`loaded` (the parent or subject rows read so far, by slot), `held` (the holding
found), `todo` (the SELECTs a report has still to make) and `answer` (its figures, as
the rows each is made of). History: `gone` (rows that were deleted when the call
came) and `touched` (a row the report is about has been stored since).

| action | code |
|---|---|
| `Receive`, `Refuse` | the route, roles (`MayCall`) and the payload |
| `ReadRow` | one `get_by_id` of a customer, folio, scheme, SIP or of the row itself, and after the last one the checks (`Admits`: whose it is; `Fits`: whether they go together) |
| `FindHolding` | `get_by_folio_and_scheme` of `create_holding` and of a completion |
| `Write` | the flush and COMMIT of a create, PATCH or DELETE |
| `WriteCompletion` | those of a completed transaction with its holding, old or new |
| `ReadFigure` | one SELECT of a list, a summary or the dashboard |
| `Fail` | a unique key is taken, units are missing, or a statement fails |

Abstractions. `amount` stands for the current value of a holding, the amount of
a SIP and that of a transaction; a completion may leave any value, since
TransactionLedger has the units and Valuation the values. A sum is kept as the rows it
adds, so that equal sums of different rows are told apart. Filters, search text,
`LIMIT`, `OFFSET` and the order of lists are left out; `recent_transactions` is all that
it would choose from. The tables and columns that the dashboard probes for
(`_table_exists`, `_column_exists`) exist at the head of the migrations. Whether
a customer, folio or scheme key is free is Registry's: a conflict is `Fail`.

### Accounts

Users, tokens and server processes. Registration, login, refresh, the routes of
administration, `get_current_user` with `RoleChecker`, and the bootstrap of the first
administrator in the lifespan of each process. A session is a request or a
starting process; a step is one SELECT, one flushed INSERT or one COMMIT.
`update_user` and the bootstrap do not flush before they commit, so no row lock
outlives a step, and what is waited for is only an uncommitted INSERT of
the same e-mail address (`pending`).

State: `users`, `tokens` (all that were issued), `starts` (how often processes
were started); per session `pc`, `loaded`, `pending`; per request `call`, `token`
and `home`, the process that handles it. History: `entitled` (the caller had the
right at some moment since the call came) and `first` (the start began without a
first administrator).

| action | code |
|---|---|
| `Start` | `lifespan`, up to the lookup of `bootstrap_first_admin` |
| `FindAdmin` | that lookup, and the assignments of role and `is_active` |
| `Receive` | the route; a token of the wrong type is refused |
| `Identify` | `get_current_user` and `RoleChecker`, or the lookup of `refresh` |
| `Lookup` | `get_by_email` of register, login and `create_user` |
| `Insert` | `users.create` and its flush, of a request or of the bootstrap; nobody handles the `IntegrityError`: 503, or the process does not come up |
| `Load` | `get_user` of `update_user`, and the assignments |
| `Commit`, `Refresh` | `db.commit`, `db.refresh` |
| `Crash` | a process ends, and its sessions with it |
| `Fail` | any statement fails |

Abstractions. An expired or forged token is refused like one of the wrong type;
passwords are right; names and `is_verified` decide nothing. A COMMIT either
happens or not: one whose outcome the client never learns is a commit followed by
`Fail` or `Crash` before the refresh.

### MCRegistry, MCPatchRules, MCValuation, MCOffice, MCAccounts

The instances. `MCRegistry`: two users, advisors, customers and NAVs, one scheme and
folio, some inactive, and calls that ask for each other's keys. `MCPatchRules`:
an active and an inactive SIP, two advisors with both numbers, and PATCHes that
are right alone and wrong together. `MCValuation`: two holdings of one advisor
and scheme, a third of another advisor whose scheme has no NAV yet, a free uuid
between them, and three NAVs, two of them of the same date. `MCOffice`: two
advisors with two customers and one, a customer with a folio, a holding, a monthly
and a quarterly SIP and a pending installment, another whose folio is empty.
`MCAccounts`: a SUPER_ADMIN with tokens, and the configured first administrator,
who has been demoted and deactivated or does not exist yet.

### Proof modules

`TransactionLedger_proofs`, `Registry_proofs`, `PatchRules_proofs`,
`Valuation_proofs`, `Office_proofs` and `Accounts_proofs` extend the module they
are about and hold the theorems below. `LedgerRefinement_proofs` extends
`TransactionLedger_proofs` with the refinement of AtomicLedger, the absence of
deadlocks and what holds for one request at a time.

## Runs

| run | instance | shows |
|---|---|---|
| `ledger_concurrent` | 3 requests at once, the calls of `FullWorkload`, symmetric requests | the safety properties and `LedgerInv` in every interleaving, with any statement failing; units are lost in races only; nobody waits in a circle; `TransactionLedger` implements `AtomicLedger` |
| `ledger_liveness` | 2 requests at once, fair | every request is answered: no lock cycle, no lock left behind |
| `ledger_lost_update` | 2 purchases at once | **violation** of `HoldingsMatchCompletions`: lost update |
| `ledger_cancel` | completion and cancellation of one sale | **violation** of `CancelledHasNoEffect` |
| `ledger_deleted_holding` | purchase and deletion of its holding | **violation** of `CompletionReachesActiveHolding` |
| `registry_safety` | 3 requests about one of the six tables, symmetric | keys unique, deletion final, `Registry` implements `UniqueTable`, with any statement failing |
| `rules_concurrent` | 3 requests about SIPs or about advisors, symmetric | SIP dates ordered; rules are broken or refused by the table in races only |
| `rules_license_skew` | 2 PATCHes of advisors at once | **violation** of `LicenseHasNumber`: write skew |
| `valuation_safety` | 3 requests or NAV changes, symmetric | recalculations change valuations only, by timely NAVs, exactly unless they race, and so do completions; no lock cycle |
| `office_safety` | 3 requests, symmetric | ownership agrees along the tree, no parent was dead when asked for, reports keep to their advisor and add up unless disturbed |
| `office_active_sips` | a dashboard and an edit | **violation** of `ActiveSipsAreMonthly`: a quarterly SIP is counted |
| `accounts` | 2 requests, 2 processes, 3 starts, fair | rights come from entitled administrators or a start, edits do not undo each other, starts restore the administrator, every call ends |

In every passing run but `ledger_liveness` the
first invariant (`LedgerInv`, `RegistryInv`, ...) is the inductive one that the
proofs use; the type invariant `TypeOK` is its first conjunct.

The first three violations are disagreements with `src/README.md:257`, that of
the licence rule with `advisor_service.py:77` and the response model of advisors,
that of the dashboard with `src/README.md:168`; `findings` quotes them.
`HoldingsMatchCompletions` fails because two sessions read the same holding, and
for no other reason as far as transaction calls go: `OnlyRacesLoseUnits`, checked and proved,
says that a commit whose reads are still current books exactly what it
moves. In the same way `LicenseHasNumber` fails with two requests and is proved
for requests that come one after the other. The same write skew exists for SIPs,
where the CHECK constraints of the table stop it (`SipDatesOrdered` holds, and the
client is answered 503).

**Bounds.** Two requests already show every pairwise race; the third gives a row
a third party (a holding deleted and re-created between another's two reads, a
chain of two waits). One active holding per position and two positions are
enough for both answers of the availability check. `MaxInFlight` bounds the
requests handled at once, `Req` the number of calls in a behaviour. Units are 0
to 2 in the calls: enough for an outflow that fits, one that empties the holding
and one that exceeds it. The theorems do not depend on any of these.

In `registry_safety` and `rules_concurrent` the requests of a behaviour are about
one table (`OneTable`): rows of different tables share no lock, key or guard, and
each table is explored in full. Three keys
per column are one that is taken, one taken by an inactive row and one free.
Three dates give a SIP room to be moved past its end, and its end past its
start. In `valuation_safety` `Cent = 2` makes half cents, so both directions of rounding
and values that are written although they are stored unchanged; uuids 1, 2 and 4 are
taken and 3 is free, so that an INSERT may come between locked rows; three NAVs
are a correction on the same date and a later one. Three requests allow two
recalculations and a change, or one and two changes, between any two statements.

In `office_safety` three requests are a report or a creation with two writers between
its reads: a parent read and then deleted, a child of it created meanwhile, a
dashboard overtaken twice. Two advisors and a customer each are the
least in which a row can be in the wrong hands; the second customer of `a1` gives a
sum something to add. In `accounts` `MaxStarts = 3` gives each process a start and one
of them a restart after a crash, so that two first starts collide and a third
one finds what they left. Two requests are an administrator's edit and one that it
overtakes.

**Fairness.** `FairSpec` of TransactionLedger and of Accounts asks weak fairness of
each session's `Step`: the event loop resumes every coroutine whose await is
ready, and PostgreSQL grants locks in the order they were asked for. Sessions
hold a lock for finitely many steps, and there are finitely many of them, so one
that waits is not passed over for ever and strong fairness is not needed.
`Receive`, `Refuse`, `Fail`, `Start` and `Crash` are not fair: clients owe
nothing, failures need not happen, and nobody restarts a process (the compose
file has no restart policy). The other modules state no liveness: in Registry and
PatchRules a lock holder has only its COMMIT left, in Valuation `NoLockCycle` says more
than a liveness run of two requests could, and Office has no locks.

## What is proved

TransactionLedger, for every `Req`, `Position`, `MaxInFlight`, seed and workload
satisfying the named assumptions (`RequestAssumption`: requests are fresh identities and calls are
typed; `PositionAssumption`; `SeedAssumption`: the stored rows are typed, holdings
are not negative and no two active ones share a position; `NoneAssumption` and `WriteAssumption`: `None`
is no value; `BoundAssumption`: `MaxInFlight` is a number):

| theorem | statement |
|---|---|
| `TypesAndControl` | `Spec => [](TypeOK /\ ControlInv)` |
| `TypeCorrect` | `Spec => []TypeOK` |
| `UnitsAreNonNegative` | `Spec => []UnitsNonNegative` |
| `OneActiveHoldingPerPosition` | `Spec => []OneActiveHolding` |
| `CompletionIsWhole` | `Spec => []CompletionCommitsWithUnits` |
| `UnracedCommitsBook` | `Spec => OnlyRacesLoseUnits` |
| `AnswersAreTrue` | `Spec => []AnswerMatchesTables` |
| `SoftDeletionIsFinal` | `Spec => SoftDeleteIsFinal` |
| `LedgerInvariant` | `Spec => []LedgerInv` |
| `LedgerImplementsAtomicLedger` | `Spec => ImplementsAtomicLedger` |
| `NoRequestsDeadlock` | `Spec => []NoDeadlock` |
| `SerialLedgerInvariant` | `Spec => [](MaxInFlight = 1 => SerialInv)` |
| `SerialHoldingsMatch` | the same for `HoldingsMatchCompletions` |
| `SerialCompletionsReachHolding` | the same for `CompletionReachesActiveHolding` |

The argument. None of the properties is inductive alone, so each gets a part of
`LedgerInv` that says what sessions carry between their steps:

- `ControlInv`: which steps a call can be at and which rows its session has then.
- `UnitsInv`: rows in sessions are not negative, and past the second comparison an
  outflow fits the row *in the session*. Since the UPDATE writes an absolute value
  computed from that row, the committed units are not negative either, whatever
  was committed in between: the same absolute write that loses updates keeps the
  sign.
- `IndexInv`: an uncommitted INSERT has its position to itself (no committed
  active row, no other insert), and an UPDATE never writes `is_active = TRUE`,
  because sessions only load active rows. So nothing can appear under the key
  while the insert waits for its commit.
- `DeletionInv`: the same for transactions, which gives `SoftDeleteIsFinal`.
- `CompletionInv`: from the flush of status COMPLETED on, the session works for
  the row it has written and on a holding of its position.
- `WriteInv`: what is about to be committed is the row that was read with the units
  of the transaction added. With a current read this is also the committed row
  plus those units, which is what `OnlyRacesLoseUnits` asks of a commit.
- `AnswerInv`: an answer is given at the end only, and a session that is past its
  COMMIT has its new row in the table; before it, a refusal leaves nothing.

- `FlushInv`: what a session has read is a row that its call asks for (`ReadAt`),
  and what it has flushed is exactly what the call makes of that row
  (`FlushedAt`), column by column.

`Init => Part` and `Part /\ [Next]_vars => Part'` are proved action by action;
each part uses the ones before it. TLC checks `LedgerInv` in `ledger_concurrent`.

The refinement goes step by step. A read is a read or, when the second SELECT of a
row returns the attributes of the first, a stutter; flushes and waits are
stutters; a COMMIT is `Store`, because by `FlushInv` the flushed columns are those
in which the result of the call differs from the row it has read, and by `IndexInv`
the position of a new holding is free. Each refusal is traced to the read
that it follows, where its reason is true of the tables of that moment. What
remains, any failing statement, is `Lose`.

`NoDeadlock` needs no order of locks. `ControlInv` says that a session which waits
for its transaction row has written nothing, and that one which waits for a
holding or for the index has written at most its transaction and never a holding.
Nobody waits for an index entry or a holding but behind a session that has
written one, and that session has only its COMMIT left. So a chain of waits has at
most two links, and its end is always able to go on, for any number of requests.

With `MaxInFlight = 1` a request that runs is alone (`ReceivedAlone`). What its
session has read is then what is stored (`CurrentAt`), so every commit books what
it moves, and the two concurrent findings are impossible: `SerialHoldingsMatch` and
`SerialCompletionsReachHolding` say that the code is right, in these respects, one
request at a time. (`SerialInv` was checked with `MaxInFlight = 1` in the instance of
`ledger_concurrent` before it was proved; no run is kept for it.)

Registry, for every `Req`, `Key`, seed and workload (`RequestAssumption` and
`NoneAssumption` as above; `SeedAssumption`: no two stored rows conflict):

| theorem | statement |
|---|---|
| `TypeCorrect` | `Spec => []TypeOK` |
| `RegistryInvariant` | `Spec => []RegistryInv` |
| `UniqueKeys` | `Spec => []KeysUnique` |
| `SoftDeletionIsFinal` | `Spec => SoftDeleteIsFinal` |
| `RegistryImplementsUniqueTable` | `Spec => ImplementsUniqueTable` |

`KeysUnique` is not inductive: a commit installs what was compared with the table
one step earlier. `Exclusive` says that a flushed version has its id and its keys
to itself, among the committed rows and the other flushed versions, because
everybody else waits (`KeyBusy`); `WriteAt` says what the version is, and that its
session has nothing left but to commit: a lock holder of the registry never waits,
which is why no liveness run is spent on it. The refinement
(`Abstract == INSTANCE UniqueTable WITH rows <- rows, call <- call, outcome <- Outcome`)
maps a commit to `Create` or `Change`, a 4xx to `Refuse` and everything else to a
stutter. Its hard case is a 4xx from a constraint: the conflict with the
committed row must be on a key of the payload, which follows from `KeysUnique`,
since on any other key the row itself would already conflict.

PatchRules, for every `Req`, `Date`, `Number`, `Serial`, seed and workload (the
stored rows obey their rules):

| theorem | statement |
|---|---|
| `TypeCorrect` | `Spec => []TypeOK` |
| `RulesInvariant` | `Spec => []PatchRulesInv` |
| `SipDatesStayOrdered` | `Spec => []SipDatesOrdered` |
| `RefusalsAreRaces` | `Spec => []ConstraintRefusesOnlyRaces` |
| `BrokenRulesAreRaces` | `Spec => RulesBreakOnlyInRaces` |
| `SipDeletionIsFinal` | `Spec => SoftDeleteIsFinal` |
| `LicencesHoldSerially` | `Serial => (Spec => []LicenseHasNumber)` |

The row lock keeps a flushed version what the call makes of the committed row.
If the committed row is still the one that was loaded, that is exactly the row
that was validated; so a rule is broken, or a CHECK refuses, only if it is not.
`SerialHolds` adds that a lone session always has the row as it is.

Valuation, for every `Req`, `Scheme`, `Advisor`, `RowId`, `Quote`, `Cent`, seed and
workload. `IdAssumption` says that a nonempty set of uuids has a least and a
greatest (a uuid has 128 bits, so the sets are finite), `QuoteAssumption` and
`CentAssumption` that NAVs and the rounding are positive, `SeedAssumption` that
stored NAVs of a scheme have different dates:

| theorem | statement |
|---|---|
| `TypeCorrect` | `Spec => []TypeOK` |
| `ValuationInvariant` | `Spec => []ValuationInv` |
| `RecalculationsOnlyValue` | `Spec => RecalculationOnlyValues` |
| `RecalculationsAreExact` | `Spec => InexactOnlyInRaces` |
| `ValuationsAreTimely` | `Spec => []ValuedAtLatestNav` |
| `SchemesHaveOneNav` | `Spec => []OneNavPerScheme` |
| `LocksAreOrdered` | `Spec => []NoLockCycle` |
| `CompletionsAreExact` | `Spec => CompletionsExactUnlessRaced` |
| `OutflowsAddHalfCents` | a lemma about `Remainders` |
| `OnlyShortHoldingsRefuse` | a lemma about `Assigned` |

`ControlAt` and `WriteAt` say what a session holds, that it holds it alone, and
that all it has written comes before all it has still to lock. `ListedAt`,
`QuotedAt` and `TogetherAt` carry the computation from the list to the commit: the
objects are those of the list, each one that had its turn was given the latest
NAV of some moment, and two of one scheme the same. Exactness follows since
that moment has the NAVs of the commit if nothing was published in between, and
`Revalued` leaves out only what is as it should be. For the lock cycle: of all
rows that a circle of requests waits for take the greatest; its holder waits for
a greater one.

`AppliedAt` carries what a completion has computed from its read to its flush, and
an UPDATE of the columns that differ stores the whole of it when the row is still
the one that was read (`OverwriteDiffering`). The arithmetic is proved for all
numbers: the nearest cent to what remains of value and cost exists, so that a holding
refuses an outflow only for want of units; when all units go, neither stays; after
an inflow the average price is cost by units to the last decimal; and the errors of
successive outflows add up to half a cent each instead of growing with the
ratios they are multiplied by.

Office, for every `Req`, `Advisor`, `Amount`, seed and workload. `SeedAssumption`
says that the stored rows agree (the database was filled by this program),
`CallAssumption` what the schemas and routes let through, `IdAssumption` and
`NoneAssumption` that new uuids are new and `None` is no value:

| theorem | statement |
|---|---|
| `TypeCorrect` | `Spec => []TypeOK` |
| `OfficeInvariant` | `Spec => []OfficeInv` |
| `OwnershipIsConsistent` | `Spec => []OwnershipAgrees` |
| `NoDeadParents` | `Spec => []ParentsStoodAtStart` |
| `ReportsKeepToTheirAdvisor` | `Spec => []OwnRowsOnly` |
| `UndisturbedReportsAddUp` | `Spec => []ReportsAddUp` |

No statement changes the place of a row in the tree (`SamePlace`), and this is what makes
unlocked reads enough: `LoadedAt` says that a row a session has read still is
where it was, and had not been deleted before the call came, however it has changed
since. So what is copied from it into a child still agrees when it is stored
(`ControlAt` says which rows have been read by then). `FreshAt` keeps ids of
new rows free. For reports, the copies that the dashboard selects by agree with
the customers that the summaries select by, which is `OwnershipAgrees` again; and a
figure changes only when a row it is about is stored, which sets `touched`.

Accounts, for every `Req`, `Process`, `Email`, `AdminEmail`, `MaxStarts`, seed and
workload (`SessionAssumption`: names are distinct and `None` is no value;
`CallAssumption`; `SeedAssumption`: stored users have different addresses and
tokens belong to stored users):

| theorem | statement |
|---|---|
| `TypeCorrect` | `Spec => []TypeOK` |
| `AccountsInvariant` | `Spec => []AccountsInv` |
| `AdmissionsAreEntitled` | `Spec => []AdmittedWereEntitled` |
| `ConflictsAreFirstStarts` | `Spec => []ConflictOnlyAtFirstStart` |
| `PrivilegeComesFromAdmins` | `Spec => PrivilegeByAdminsOnly` |
| `EditsAreIntended` | `Spec => OnlyIntendedEdits` |
| `StartsRestoreAdmin` | `Spec => BootstrapRestoresAdmin` |

`HeldAt` says that the address of an uncommitted user is his alone, and that the
address of a row that a session has loaded has not changed; so a start commits to
the row of the configured address. `OwnRowAt` keeps a session's own uuid free
until it commits, `TokensHaveUsers` keeps tokens of users that exist, and `HistoryAt` says
that who is entitled now is marked as such, so that an admission, which reads the
row of its moment, finds the mark. A start can reach the INSERT only if it saw no
administrator, and users are never removed: that is `ConflictOnlyAtFirstStart`.

Only model-checked: `EveryRequestAnswered` and `EveryCallEnds`, since liveness is
out of the prover's reach like everything that needs ENABLED. The properties of
the violation runs are false, or false without `Serial`.

## Plan

1. `TransactionLedger`, `Registry` with `UniqueTable`, `PatchRules`, `Valuation`,
   `Office` and `Accounts`, each with its instances and proofs: done.
2. `AtomicLedger`, what concurrent calls promise, and the serial ledger: done, in
   `LedgerRefinement_proofs`.
3. The arithmetic of the apply step (units, cost, value, prices and date): done in
   Valuation. Left: the widths of the `NUMERIC` columns, whose overflow is only a
   statement that fails.

## Not modelled

Configuration and its validation, logging, request ids and health probes: no
other part reads what they keep. Password hashing and token signatures: pure
functions of libraries. Lists of schemes and NAVs, and the filters, pages and
order of lists: reads of one statement that decide nothing. The application of
migrations: a deployment step without concurrency of its own. Deployment with several database servers does not
occur in the code.
