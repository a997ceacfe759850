------------------------------ MODULE Accounts ------------------------------
(***************************************************************************)
(* Users and their tokens: registration, login, refresh, administration,   *)
(* and the first administrator, whom every server process creates or       *)
(* restores while it starts.  Processes crash and start again, and their   *)
(* requests are lost with them.                                            *)
(*                                                                         *)
(* A session is a request or a starting process.  A step is one SELECT,    *)
(* one flushed INSERT or one COMMIT: update_user and the bootstrap do not  *)
(* flush before they commit, so no row lock outlives a step.               *)
(***************************************************************************)
EXTENDS Naturals

CONSTANTS
    Req,        \* requests
    Process,    \* server processes
    Seed,       \* uuids of the users stored at the start
    SeedUsers,  \* what may be stored under them
    SeedTokens, \* tokens issued earlier
    Email,      \* e-mail addresses, in lower case
    AdminEmail, \* FIRST_ADMIN_EMAIL, or None
    Workload,   \* calls that clients make
    MaxStarts,  \* bound: how often processes are started
    None        \* no value

Session == Req \cup Process
Id == Seed \cup Session     \* a user created by a session has its name as uuid

Role == {"SUPER_ADMIN", "ADVISOR", "CUSTOMER", "COMPLIANCE"}
User == [email : Email, role : Role, is_active : BOOLEAN]

\* A signed token: whose, of which type, and the role he had.
Token == [sub : Id, type : {"access", "refresh"}, role : Role]

\* email and role are those of a registration, login or creation; id, role
\* and is_active those of a PATCH, None where it sets nothing.
Op == {"register", "login", "refresh", "me", "users", "create", "update"}
Call == [op : Op, email : Email \cup {None}, id : Id \cup {None},
         role : Role \cup {None}, is_active : BOOLEAN \cup {None}]

AdminOps == {"users", "create", "update"}
WithToken == {"refresh", "me"} \cup AdminOps

ASSUME SessionAssumption ==
    /\ Req \cap Process = {}
    /\ Session \cap Seed = {}
    /\ None \notin Id \cup Email \cup Role \cup User \cup Token \cup Call
    /\ None \notin BOOLEAN \cup [id : Id, row : User]
ASSUME CallAssumption ==
    /\ AdminEmail \in Email \cup {None}
    /\ MaxStarts \in Nat
    /\ \A q \in Workload :
          /\ q \in Call
          /\ q.op \in {"register", "login", "create"} => q.email # None
          /\ q.op = "create" => q.role # None /\ q.is_active # None
          /\ q.op = "update" => q.id # None
ASSUME SeedAssumption ==
    /\ \A u \in SeedUsers :
          /\ u \in [Seed -> User \cup {None}]
          /\ \A x, y \in Seed : u[x] # None /\ u[y] # None /\ x # y =>
                u[x].email # u[y].email
    /\ \A t \in SeedTokens, u \in SeedUsers :
          t \in Token /\ t.sub \in Seed /\ u[t.sub] # None

-----------------------------------------------------------------------------

VARIABLES
    users,      \* committed rows
    tokens,     \* tokens that have been issued
    pc,         \* the next step of each session
    call,       \* the call of each request
    token,      \* the token it came with
    home,       \* the process that serves it
    loaded,     \* session: the row it has read
    pending,    \* session: the row it has inserted and not committed
    starts,     \* how often processes were started
    entitled,   \* history: its user was entitled to the call at some moment
    first       \* history: the process was started before the admin existed

request == <<call, token, home>>
session == <<loaded, pending>>
vars == <<users, tokens, pc, request, session, starts, entitled, first>>

Running == {"identify", "lookup", "insert", "load", "commit", "refresh"}

\* Faulty: users that are not active are overlooked.
FoundActive(email) ==
    {x \in Id : users[x] # None /\ users[x].email = email /\ users[x].is_active}

\* What get_by_email finds: one user at most.
Found(email) == {x \in Id : users[x] # None /\ users[x].email = email}

\* Faulty: e-mail addresses are not unique in the table.
NeverTaken(email) == FALSE
Taken(email) == \E x \in Id : users[x] # None /\ users[x].email = email

\* Faulty: the role is that of the token.
MayByClaim(q, t, row) ==
    row.is_active /\ (q.op \in AdminOps => t.role = "SUPER_ADMIN")

\* Faulty: a route without its RoleChecker.
MayAnyone(q, t, row) == row.is_active

\* get_current_user and RoleChecker go by the row.
May(q, t, row) ==
    row.is_active /\ (q.op \in AdminOps => row.role = "SUPER_ADMIN")

\* In table u the user of a call may make it.
Entitled(u, q, t) ==
    /\ q.op \in WithToken =>
          /\ u[t.sub] # None
          /\ u[t.sub].is_active
          /\ q.op \in AdminOps => u[t.sub].role = "SUPER_ADMIN"
    /\ q.op = "login" =>
          \E x \in Id : /\ u[x] # None
                        /\ u[x].email = q.email
                        /\ u[x].is_active

EmailOf(s) == IF s \in Process THEN AdminEmail ELSE call[s].email

NewUser(s) ==
    CASE s \in Process ->
            [email |-> AdminEmail, role |-> "SUPER_ADMIN", is_active |-> TRUE]
      [] s \notin Process /\ call[s].op = "register" ->
            [email |-> call[s].email, role |-> "CUSTOMER", is_active |-> TRUE]
      [] OTHER -> [email |-> call[s].email, role |-> call[s].role,
                   is_active |-> call[s].is_active]

\* Faulty: the bootstrap restores the role or the activity, not both.
AssignedOne(s) ==
    IF s \in Process
    THEN IF loaded[s].row.role # "SUPER_ADMIN"
         THEN [role |-> "SUPER_ADMIN", is_active |-> None]
         ELSE [role |-> None, is_active |-> TRUE]
    ELSE [role |-> call[s].role, is_active |-> call[s].is_active]

\* The attributes that a session sets in the row it has loaded.
Assigned(s) ==
    IF s \in Process THEN [role |-> "SUPER_ADMIN", is_active |-> TRUE]
    ELSE [role |-> call[s].role, is_active |-> call[s].is_active]

\* Faulty: the UPDATE sets all columns of the object.
UpdatedWhole(s, row) ==
    LET set(value, old) == IF value = None THEN old ELSE value
    IN  [row EXCEPT
           !.role = set(Assigned(s).role, loaded[s].row.role),
           !.is_active = set(Assigned(s).is_active, loaded[s].row.is_active)]

\* The UPDATE sets the columns that differ from what was loaded.
Updated(s, row) ==
    LET set(value, old, current) ==
            IF value \in {None, old} THEN current ELSE value
    IN  [row EXCEPT
           !.role = set(Assigned(s).role, loaded[s].row.role, row.role),
           !.is_active = set(Assigned(s).is_active, loaded[s].row.is_active,
                             row.is_active)]

TokenPair(x) ==
    {[sub |-> x, type |-> y, role |-> users[x].role] : y \in {"access", "refresh"}}

-----------------------------------------------------------------------------
(* Steps.                                                                  *)

\* Faulty: a session that ends early is not closed.
CloseLeaking(s, end) ==
    /\ pc' = [pc EXCEPT ![s] = end]
    /\ loaded' = [loaded EXCEPT ![s] = None]
    /\ UNCHANGED <<request, pending, starts, entitled, first>>

\* The session ends; what it has not committed is rolled back.
Close(s, end) ==
    /\ pc' = [pc EXCEPT ![s] = end]
    /\ loaded' = [loaded EXCEPT ![s] = None]
    /\ pending' = [pending EXCEPT ![s] = None]
    /\ UNCHANGED <<request, starts, entitled, first>>

\* An exception that nobody handles: 503, or the process does not start.
Aborted(s) == IF s \in Process THEN "down" ELSE "failed"

Continue(s, step) ==
    /\ pc' = [pc EXCEPT ![s] = step]
    /\ UNCHANGED <<users, tokens, request, starts, entitled, first>>

Start(p) ==
    /\ pc[p] = "down"
    /\ starts < MaxStarts
    /\ starts' = starts + 1
    /\ first' = [first EXCEPT ![p] = ~Taken(AdminEmail)]
    /\ pc' = [pc EXCEPT ![p] = IF AdminEmail = None THEN "up" ELSE "lookup"]
    /\ UNCHANGED <<users, tokens, request, session, entitled>>

\* A process that is up takes a call.  A token of the wrong type is refused.
Receive(r, q, t, p) ==
    /\ pc[r] = "idle"
    /\ pc[p] = "up"
    /\ call' = [call EXCEPT ![r] = q]
    /\ token' = [token EXCEPT ![r] = t]
    /\ home' = [home EXCEPT ![r] = p]
    /\ entitled' = [entitled EXCEPT ![r] = Entitled(users, q, t)]
    /\ pc' = [pc EXCEPT ![r] =
                IF q.op \notin WithToken THEN "lookup"
                ELSE IF t.type = (IF q.op = "refresh" THEN "refresh" ELSE "access")
                     THEN "identify" ELSE "refused"]
    /\ UNCHANGED <<users, tokens, session, starts, first>>

\* get_current_user, RoleChecker, and the lookup of refresh.
Identify(r) ==
    LET x == token[r].sub IN
    /\ pc[r] = "identify"
    /\ IF users[x] # None /\ May(call[r], token[r], users[x])
       THEN \/ /\ call[r].op \in {"create", "update"}
               /\ Continue(r, IF call[r].op = "create" THEN "lookup" ELSE "load")
               /\ UNCHANGED session
            \/ /\ call[r].op \notin {"create", "update"}
               /\ tokens' = IF call[r].op = "refresh"
                            THEN tokens \cup TokenPair(x) ELSE tokens
               /\ Close(r, "ok")
               /\ UNCHANGED users
       ELSE Close(r, "refused") /\ UNCHANGED <<users, tokens>>

\* get_by_email before an INSERT, or in login, where the password is right.
Lookup(r) ==
    LET found == Found(call[r].email) IN
    /\ pc[r] = "lookup"
    /\ \/ /\ call[r].op # "login"
          /\ found = {}
          /\ Continue(r, "insert")
          /\ UNCHANGED session
       \/ /\ call[r].op = "login"
          /\ \E x \in found : /\ users[x].is_active
                              /\ tokens' = tokens \cup TokenPair(x)
          /\ Close(r, "ok")
          /\ UNCHANGED users
       \/ /\ IF call[r].op = "login"
             THEN \A x \in found : ~users[x].is_active ELSE found # {}
          /\ Close(r, "refused")
          /\ UNCHANGED <<users, tokens>>

\* bootstrap_first_admin looks for the first administrator.
FindAdmin(p) ==
    /\ pc[p] = "lookup"
    /\ \/ /\ Found(AdminEmail) = {}
          /\ Continue(p, "insert")
          /\ UNCHANGED session
       \/ \E x \in Found(AdminEmail) :
             IF users[x].role = "SUPER_ADMIN" /\ users[x].is_active
             THEN Close(p, "up") /\ UNCHANGED <<users, tokens>>
             ELSE /\ loaded' = [loaded EXCEPT ![p] = [id |-> x, row |-> users[x]]]
                  /\ Continue(p, "commit")
                  /\ UNCHANGED pending

\* The INSERT waits for another one with the same e-mail address.  Its
\* IntegrityError is handled by nobody.
Insert(s) ==
    /\ pc[s] = "insert"
    /\ \A o \in Session : pending[o] # None => pending[o].email # EmailOf(s)
    /\ IF Taken(EmailOf(s))
       THEN Close(s, Aborted(s)) /\ UNCHANGED <<users, tokens>>
       ELSE /\ pending' = [pending EXCEPT ![s] = NewUser(s)]
            /\ Continue(s, "commit")
            /\ UNCHANGED loaded

\* get_user, and the assignments.
Load(r) ==
    LET x == call[r].id IN
    /\ pc[r] = "load"
    /\ IF users[x] # None
       THEN /\ loaded' = [loaded EXCEPT ![r] = [id |-> x, row |-> users[x]]]
            /\ Continue(r, "commit")
            /\ UNCHANGED pending
       ELSE Close(r, "refused") /\ UNCHANGED <<users, tokens>>

\* The COMMIT, and before it the UPDATE of the loaded row.
Commit(s) ==
    LET new == IF pending[s] # None THEN [users EXCEPT ![s] = pending[s]]
               ELSE [users EXCEPT ![loaded[s].id] =
                       Updated(s, users[loaded[s].id])]
    IN
    /\ pc[s] = "commit"
    /\ users' = new
    /\ entitled' = [r \in Req |-> \/ entitled[r]
                                  \/ /\ call[r] # None
                                     /\ Entitled(new, call[r], token[r])]
    /\ pc' = [pc EXCEPT ![s] = IF s \in Process THEN "up" ELSE "refresh"]
    /\ loaded' = [loaded EXCEPT ![s] = None]
    /\ pending' = [pending EXCEPT ![s] = None]
    /\ UNCHANGED <<tokens, request, starts, first>>

Refresh(r) ==
    pc[r] = "refresh" /\ Close(r, "ok") /\ UNCHANGED <<users, tokens>>

\* The process ends, and with it the sessions of its requests.
Crash(p) ==
    LET dies(s) == \/ s = p
                   \/ s \in Req /\ pc[s] \in Running /\ home[s] = p
    IN
    /\ pc[p] # "down"
    /\ pc' = [s \in Session |-> IF dies(s) THEN Aborted(s) ELSE pc[s]]
    /\ loaded' = [s \in Session |-> IF dies(s) THEN None ELSE loaded[s]]
    /\ pending' = [s \in Session |-> IF dies(s) THEN None ELSE pending[s]]
    /\ UNCHANGED <<users, tokens, request, starts, entitled, first>>

\* A statement fails.
Fail(s) ==
    pc[s] \in Running /\ Close(s, Aborted(s)) /\ UNCHANGED <<users, tokens>>

Init ==
    /\ \E u \in SeedUsers :
          users = [x \in Id |-> IF x \in Seed THEN u[x] ELSE None]
    /\ tokens = SeedTokens
    /\ pc = [s \in Session |-> IF s \in Process THEN "down" ELSE "idle"]
    /\ call = [r \in Req |-> None]
    /\ token = [r \in Req |-> None]
    /\ home = [r \in Req |-> None]
    /\ loaded = [s \in Session |-> None]
    /\ pending = [s \in Session |-> None]
    /\ starts = 0
    /\ entitled = [r \in Req |-> FALSE]
    /\ first = [p \in Process |-> FALSE]

Step(s) ==
    \/ s \in Req /\ (Identify(s) \/ Lookup(s) \/ Load(s) \/ Refresh(s))
    \/ s \in Process /\ FindAdmin(s)
    \/ Insert(s)
    \/ Commit(s)

Quiescent == (\A s \in Session : pc[s] \notin Running) /\ UNCHANGED vars

Next ==
    \/ \E s \in Session : Step(s) \/ Fail(s)
    \/ \E p \in Process : Start(p) \/ Crash(p)
    \/ \E r \in Req, q \in Workload, p \in Process :
          \E t \in IF q.op \in WithToken THEN tokens ELSE {None} :
              Receive(r, q, t, p)
    \/ Quiescent

Spec == Init /\ [][Next]_vars

\* The event loop resumes every session whose await is over.  Nobody owes a
\* restart: the compose file has no restart policy.
FairSpec == Spec /\ \A s \in Session : WF_vars(Step(s))

-----------------------------------------------------------------------------
(* Types, and what sessions carry from one step to the next.               *)

\* Types of all variables.
TypeOK ==
    /\ users \in [Id -> User \cup {None}]
    /\ tokens \subseteq Token
    /\ pc \in [Session -> Running \cup {"idle", "down", "up", "ok", "refused",
                                        "failed"}]
    /\ call \in [Req -> Call \cup {None}]
    /\ token \in [Req -> Token \cup {None}]
    /\ home \in [Req -> Process \cup {None}]
    /\ loaded \in [Session -> [id : Id, row : User] \cup {None}]
    /\ pending \in [Session -> User \cup {None}]
    /\ starts \in Nat
    /\ entitled \in [Req -> BOOLEAN]
    /\ first \in [Process -> BOOLEAN]

EmailsUnique ==
    \A x, y \in Id : users[x] # None /\ users[y] # None /\ x # y =>
        users[x].email # users[y].email

\* Which steps a session can be at, and what it holds there.
ControlAt(s) ==
    /\ s \in Process => pc[s] \in {"down", "lookup", "insert", "commit", "up"}
    /\ s \in Req /\ pc[s] # "idle" => call[s] \in Workload
    /\ s \in Req /\ pc[s] = "idle" => call[s] = None
    /\ s \in Req /\ pc[s] # "idle" /\ call[s].op \in WithToken =>
          token[s] # None
    /\ s \in Req /\ pc[s] \in {"identify", "load"} => call[s].op \in WithToken
    /\ s \in Req /\ pc[s] = "load" => call[s].op = "update"
    /\ s \in Req /\ pc[s] \in {"lookup", "insert"} =>
          call[s].op \in {"register", "login", "create"}
    /\ s \in Req /\ pc[s] \in {"insert", "commit", "refresh"} =>
          call[s].op \in {"register", "create", "update"}
    /\ s \in Process /\ pc[s] \notin {"down", "up"} => AdminEmail # None
    /\ pc[s] = "commit" <=> loaded[s] # None \/ pending[s] # None

\* A session that has read a row updates it, one that has inserted has the
\* e-mail address for itself until it commits.
HeldAt(s) ==
    /\ loaded[s] # None =>
          /\ pending[s] = None
          /\ users[loaded[s].id] # None
          /\ users[loaded[s].id].email = loaded[s].row.email
          /\ s \in Req => call[s].op = "update" /\ loaded[s].id = call[s].id
          /\ s \in Process => loaded[s].row.email = AdminEmail
    /\ pending[s] # None =>
          /\ pending[s] = NewUser(s)
          /\ s \in Req => call[s].op \in {"register", "create"}
          /\ ~Taken(pending[s].email)
          /\ \A o \in Session \ {s} :
                pending[o] # None => pending[o].email # pending[s].email

\* The uuid of a request is free until it has inserted; the one of a process
\* can only be the first administrator's, who is there when a process that did
\* not find him missing is at work.
OwnRowAt(s) ==
    /\ s \in Req /\ (\/ pc[s] \in {"idle", "identify", "lookup", "insert"}
                     \/ pending[s] # None)
       => users[s] = None
    /\ s \in Process /\ users[s] # None => users[s].email = AdminEmail
    /\ s \in Process /\ pc[s] # "down" => first[s] \/ Taken(AdminEmail)

\* The holders of tokens exist: nobody deletes users.
TokensHaveUsers ==
    /\ \A t \in tokens : users[t.sub] # None
    /\ \A r \in Req : token[r] # None => users[token[r].sub] # None

\* The history is true of the present.
HistoryAt(r) ==
    pc[r] \in Running /\ Entitled(users, call[r], token[r]) => entitled[r]

-----------------------------------------------------------------------------
(* What accounts promise.                                                  *)

Admitted(r) ==
    CASE call[r].op = "login" -> pc[r] = "ok"
      [] call[r].op \in WithToken ->
            pc[r] \in {"lookup", "insert", "load", "commit", "refresh", "ok"}
      [] OTHER -> FALSE

\* A request gets past authentication, and a token is issued, only for users
\* who were active, and for administration SUPER_ADMINs, at some moment after
\* the request had come: not by what a token or an earlier request saw.
AdmittedWereEntitled ==
    \A r \in Req : call[r] # None /\ Admitted(r) => entitled[r]

Commits(s) == pc[s] = "commit" /\ pc'[s] \in {"refresh", "up"}

\* Rights come from an entitled SUPER_ADMIN or from the start of a process,
\* to the configured user: whoever registers is an active CUSTOMER, whatever
\* else is going on.
PrivilegeByAdminsOnly ==
    [][\A x \in Id : users'[x] # users[x] =>
          \/ /\ users[x] = None
             /\ users'[x].role = "CUSTOMER"
             /\ users'[x].is_active
          \/ \E r \in Req : /\ Commits(r)
                            /\ call[r].op \in {"create", "update"}
                            /\ entitled[r]
          \/ \E p \in Process : Commits(p) /\ users'[x].email = AdminEmail]_vars

\* A commit changes the role or the activity of a user only to a value that
\* its session was to set and that differs from the one it had read: PATCHes
\* of different columns, and a restart that overtakes one, do not undo each
\* other.
OnlyIntendedEdits ==
    [][\A x \in Id : users[x] # None /\ users'[x] # users[x] =>
          \E s \in Session :
              /\ Commits(s)
              /\ loaded[s] # None
              /\ loaded[s].id = x
              /\ users'[x].role \in {users[x].role, Assigned(s).role}
              /\ users'[x].is_active \in {users[x].is_active,
                                          Assigned(s).is_active}
              /\ users'[x].role # users[x].role =>
                    users'[x].role # loaded[s].row.role
              /\ users'[x].is_active # users[x].is_active =>
                    users'[x].is_active # loaded[s].row.is_active]_vars

\* Only a start that began before the first administrator existed can try to
\* create him, and so fail because another one did: the next start will not.
ConflictOnlyAtFirstStart ==
    \A p \in Process : pc[p] = "insert" \/ pending[p] # None => first[p]

\* When a process is up it leaves the first administrator an active
\* SUPER_ADMIN, unless he was changed while the process was starting.
BootstrapRestoresAdmin ==
    [][\A p \in Process :
          pc[p] \in {"lookup", "commit"} /\ pc'[p] = "up" =>
             \/ \E x \in Id :
                   users'[x] = [email |-> AdminEmail, role |-> "SUPER_ADMIN",
                                is_active |-> TRUE]
             \/ loaded[p] # None /\ users[loaded[p].id] # loaded[p].row]_vars

\* Every request ends, and every start comes up or gives up: nobody waits for
\* an e-mail address that a failed session or a crashed process had inserted.
EveryCallEnds ==
    \A s \in Session : pc[s] \in Running ~> pc[s] \notin Running

\* The inductive invariant.
AccountsInv ==
    /\ TypeOK
    /\ EmailsUnique
    /\ \A s \in Session : ControlAt(s) /\ HeldAt(s) /\ OwnRowAt(s)
    /\ TokensHaveUsers
    /\ \A r \in Req : HistoryAt(r)
    /\ AdmittedWereEntitled
    /\ ConflictOnlyAtFirstStart
=============================================================================
