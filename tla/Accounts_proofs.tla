--------------------------- MODULE Accounts_proofs ---------------------------
(***************************************************************************)
(* Theorems about Accounts, for any requests, processes, stored users,     *)
(* tokens and calls, and any number of starts and crashes: AccountsInv is  *)
(* inductive, nobody is admitted or changed without being entitled to it,  *)
(* and the bootstrap fails at a first start only and restores the admin.   *)
(***************************************************************************)
EXTENDS Accounts, TLAPS

-----------------------------------------------------------------------------
(* Rows that sessions make.                                                *)

\* Requests, processes and stored users have different names.
LEMMA Names ==
    /\ \A r \in Req : r \notin Process /\ r \in Session /\ r \in Id
    /\ \A p \in Process : p \notin Req /\ p \in Session /\ p \in Id
    /\ \A s \in Session : s \in Req \/ s \in Process
BY SessionAssumption DEF Session, Id

\* None is none of the values it stands beside.
LEMMA NoneIsApart ==
    /\ \A x \in Id : x # None
    /\ \A u \in User : u # None
    /\ \A t \in Token : t # None
    /\ \A q \in Call : q # None
    /\ \A e \in Email : e # None
    /\ \A k \in Role : k # None
    /\ \A b \in BOOLEAN : b # None
    /\ \A x \in Id, u \in User : [id |-> x, row |-> u] # None
BY SessionAssumption

\* The call of a request that has one.
LEMMA CallOfRequest ==
    ASSUME TypeOK, NEW r \in Req, ControlAt(r), pc[r] # "idle"
    PROVE  /\ call[r] \in Workload /\ call[r] \in Call /\ call[r] # None
           /\ call[r].op \in {"register", "login", "create"}
              => call[r].email \in Email
           /\ call[r].op = "create"
              => call[r].role \in Role /\ call[r].is_active \in BOOLEAN
           /\ call[r].op = "update" => call[r].id \in Id
<1>1. call[r] \in Workload
  BY DEF ControlAt
<1>2. call[r] \in Call
  BY <1>1, CallAssumption
<1>3. QED
  BY <1>1, <1>2, CallAssumption, NoneIsApart DEF Call

\* The user that a session inserts.
LEMMA NewUserType ==
    ASSUME TypeOK, NEW s \in Session, ControlAt(s),
           pc[s] \in {"insert", "commit"},
           s \in Req => call[s].op \in {"register", "create"}
    PROVE  /\ NewUser(s) \in User /\ NewUser(s).email = EmailOf(s)
           /\ s \in Req /\ call[s].op = "register"
              => NewUser(s).role = "CUSTOMER" /\ NewUser(s).is_active
<1>1. CASE s \in Process
  <2>1. AdminEmail \in Email
    BY <1>1, CallAssumption DEF ControlAt
  <2>2. NewUser(s) = [email |-> AdminEmail, role |-> "SUPER_ADMIN",
                      is_active |-> TRUE]
    BY <1>1 DEF NewUser
  <2>3. QED
    BY <1>1, <2>1, <2>2, Names DEF User, Role, EmailOf
<1>2. CASE s \in Req
  <2>1. s \notin Process /\ pc[s] # "idle"
    BY <1>2, Names
  <2>2. call[s].op \in {"register", "create"}
    BY <1>2
  <2>3. CASE call[s].op = "register"
    <3>1. NewUser(s) = [email |-> call[s].email, role |-> "CUSTOMER",
                        is_active |-> TRUE]
      BY <2>1, <2>3 DEF NewUser
    <3>2. QED
      BY <1>2, <2>1, <2>3, <3>1, CallOfRequest DEF User, Role, EmailOf
  <2>4. CASE call[s].op = "create"
    <3>1. NewUser(s) = [email |-> call[s].email, role |-> call[s].role,
                        is_active |-> call[s].is_active]
      BY <2>1, <2>4 DEF NewUser
    <3>2. QED
      BY <1>2, <2>1, <2>4, <3>1, CallOfRequest DEF User, EmailOf
  <2>5. QED
    BY <2>2, <2>3, <2>4
<1>3. QED
  BY <1>1, <1>2, Names

\* What a session sets.
LEMMA AssignedType ==
    ASSUME TypeOK, NEW s \in Session, ControlAt(s), pc[s] = "commit"
    PROVE  /\ Assigned(s).role \in Role \cup {None}
           /\ Assigned(s).is_active \in BOOLEAN \cup {None}
<1>1. CASE s \in Process
  BY <1>1 DEF Assigned, Role
<1>2. CASE s \in Req
  <2>1. s \notin Process /\ call[s] \in Call
    BY <1>2, Names, CallOfRequest
  <2>2. QED
    BY <2>1 DEF Assigned, Call
<1>3. QED
  BY <1>1, <1>2, Names

\* An UPDATE leaves the e-mail address.
LEMMA UpdatedType ==
    ASSUME TypeOK, NEW s \in Session, ControlAt(s), pc[s] = "commit",
           loaded[s] # None, NEW row \in User
    PROVE  /\ Updated(s, row) \in User
           /\ Updated(s, row).email = row.email
           /\ Updated(s, row).role
              = IF Assigned(s).role \in {None, loaded[s].row.role}
                THEN row.role ELSE Assigned(s).role
           /\ Updated(s, row).is_active
              = IF Assigned(s).is_active \in {None, loaded[s].row.is_active}
                THEN row.is_active ELSE Assigned(s).is_active
<1> DEFINE k == IF Assigned(s).role \in {None, loaded[s].row.role}
                THEN row.role ELSE Assigned(s).role
           b == IF Assigned(s).is_active \in {None, loaded[s].row.is_active}
                THEN row.is_active ELSE Assigned(s).is_active
<1>1. row \in [email : Email, role : Role, is_active : BOOLEAN]
  BY DEF User
<1>2. k \in Role /\ b \in BOOLEAN
  BY <1>1, AssignedType
<1>3. Updated(s, row) = [row EXCEPT !.role = k, !.is_active = b]
  BY DEF Updated
<1> HIDE DEF k, b
<1>4. /\ Updated(s, row) \in User
      /\ Updated(s, row).email = row.email
      /\ Updated(s, row).role = k
      /\ Updated(s, row).is_active = b
  BY <1>1, <1>2, <1>3 DEF User
<1>5. QED
  BY <1>4 DEF k, b

\* Tokens name the user and his role.
LEMMA TokenPairType ==
    ASSUME TypeOK, NEW x \in Id, users[x] # None
    PROVE  /\ TokenPair(x) \subseteq Token
           /\ \A t \in TokenPair(x) : t.sub = x
<1>1. users[x] \in User
  BY DEF TypeOK
<1>2. users[x].role \in Role
  BY <1>1 DEF User
<1>3. QED
  BY <1>2 DEF TokenPair, Token

-----------------------------------------------------------------------------
(* What a step does to the table.                                          *)

\* A commit inserts the user of its session, whose e-mail address nobody has,
\* or updates the one that the session has loaded.
LEMMA CommitEffect ==
    ASSUME AccountsInv, NEW s \in Session, Commit(s)
    PROVE  \E x \in Id, u \in User :
             /\ users' = [users EXCEPT ![x] = u]
             /\ \/ /\ x = s /\ users[x] = None
                   /\ pending[s] # None /\ loaded[s] = None
                   /\ u = pending[s] /\ u = NewUser(s) /\ u.email = EmailOf(s)
                   /\ ~Taken(u.email)
                   /\ s \in Req => call[s].op \in {"register", "create"}
                   /\ s \in Req /\ call[s].op = "register"
                      => u.role = "CUSTOMER" /\ u.is_active
                \/ /\ users[x] # None
                   /\ loaded[s] # None /\ pending[s] = None
                   /\ x = loaded[s].id /\ u = Updated(s, users[x])
                   /\ u.email = users[x].email
                   /\ s \in Req => call[s].op = "update"
                   /\ s \in Process => u.email = AdminEmail
<1>1. /\ TypeOK /\ ControlAt(s) /\ HeldAt(s) /\ OwnRowAt(s)
      /\ pc[s] = "commit" /\ s \in Id
  BY Names DEF AccountsInv, Commit
<1>2. CASE pending[s] # None
  <2>1. /\ pending[s] = NewUser(s) /\ ~Taken(pending[s].email)
        /\ s \in Req => call[s].op \in {"register", "create"}
        /\ loaded[s] = None
    BY <1>1, <1>2 DEF HeldAt
  <2>2. NewUser(s) \in User /\ NewUser(s).email = EmailOf(s)
    BY <1>1, <2>1, NewUserType
  <2>3. s \in Req /\ call[s].op = "register"
        => NewUser(s).role = "CUSTOMER" /\ NewUser(s).is_active
    BY <1>1, <2>1, NewUserType
  <2>4. users[s] = None
    <3>1. CASE s \in Process
      <4>1. EmailOf(s) = AdminEmail
        BY <3>1 DEF EmailOf
      <4>2. QED
        BY <1>1, <2>1, <2>2, <3>1, <4>1 DEF OwnRowAt, Taken
    <3>2. CASE s \in Req
      BY <1>1, <1>2, <3>2 DEF OwnRowAt
    <3>3. QED
      BY <3>1, <3>2, Names
  <2>5. users' = [users EXCEPT ![s] = pending[s]]
    BY <1>2 DEF Commit
  <2>6. QED
    BY <1>1, <1>2, <2>1, <2>2, <2>3, <2>4, <2>5
<1>3. CASE pending[s] = None
  <2>1. loaded[s] # None
    BY <1>1, <1>3 DEF ControlAt
  <2>2. /\ loaded[s].id \in Id /\ users[loaded[s].id] # None
        /\ users[loaded[s].id] \in User
        /\ s \in Req => call[s].op = "update"
        /\ s \in Process => users[loaded[s].id].email = AdminEmail
    BY <1>1, <2>1 DEF HeldAt, TypeOK
  <2>3. /\ Updated(s, users[loaded[s].id]) \in User
        /\ Updated(s, users[loaded[s].id]).email = users[loaded[s].id].email
    BY <1>1, <2>1, <2>2, UpdatedType
  <2>4. users' = [users EXCEPT ![loaded[s].id]
                    = Updated(s, users[loaded[s].id])]
    BY <1>3 DEF Commit
  <2>5. QED
    BY <1>3, <2>1, <2>2, <2>3, <2>4
<1>4. QED
  BY <1>2, <1>3

\* Only a commit changes the table.
LEMMA UsersChangeByCommit ==
    ASSUME [Next]_vars
    PROVE  users' = users \/ \E s \in Session : Commit(s)
<1>1. ASSUME NEW s \in Session, Step(s)
      PROVE  users' = users \/ Commit(s)
  BY <1>1 DEF Step, Identify, Lookup, Load, Refresh, FindAdmin, Insert, Continue
<1>2. CASE UNCHANGED vars
  BY <1>2 DEF vars
<1>3. QED
  BY <1>1, <1>2 DEF Next, Fail, Start, Crash, Receive, Quiescent

\* Users stay, with their e-mail addresses.
LEMMA UsersStay ==
    ASSUME AccountsInv, [Next]_vars
    PROVE  /\ \A x \in Id : users[x] # None =>
                 users'[x] # None /\ users'[x].email = users[x].email
           /\ \A e : Taken(e) => Taken(e)'
<1>1. \A x \in Id : users[x] # None =>
         users'[x] # None /\ users'[x].email = users[x].email
  <2>1. CASE users' = users
    BY <2>1
  <2>2. ASSUME NEW s \in Session, Commit(s), NEW x \in Id, users[x] # None
        PROVE  users'[x] # None /\ users'[x].email = users[x].email
    BY <2>2, CommitEffect, NoneIsApart DEF AccountsInv, TypeOK
  <2>3. QED
    BY <2>1, <2>2, UsersChangeByCommit
<1>2. QED
  BY <1>1 DEF Taken

-----------------------------------------------------------------------------
(* AccountsInv is inductive: types.                                        *)

LEMMA TypeInit == Init => TypeOK
<1>1. SUFFICES ASSUME Init PROVE TypeOK
  OBVIOUS
<1>2. users \in [Id -> User \cup {None}] /\ tokens \subseteq Token
  BY <1>1, SeedAssumption DEF Init
<1>3. QED
  BY <1>1, <1>2 DEF Init, TypeOK

\* Every step keeps the types.
LEMMA TypeStep ==
    ASSUME AccountsInv, [Next]_vars
    PROVE  TypeOK'
<1> USE DEF AccountsInv
<1>1. ASSUME NEW s \in Session, NEW end \in {"down", "up", "ok", "refused", "failed"},
             Close(s, end), users' = users,
             tokens' \subseteq Token
      PROVE  TypeOK'
  BY <1>1 DEF TypeOK, Close, request
<1>2. ASSUME NEW s \in Session, NEW step \in Running, Continue(s, step),
             loaded' \in [Session -> [id : Id, row : User] \cup {None}],
             pending' \in [Session -> User \cup {None}]
      PROVE  TypeOK'
  BY <1>2 DEF TypeOK, Continue, request
<1>3. ASSUME NEW s \in Session PROVE Aborted(s) \in {"down", "failed"}
  BY DEF Aborted
<1>4. ASSUME NEW r \in Req, Identify(r) PROVE TypeOK'
  <2>1. r \in Session /\ token[r] \in Token
    BY <1>4, Names, NoneIsApart DEF Identify, ControlAt, TypeOK
  <2>2. token[r].sub \in Id
    BY <2>1 DEF Token
  <2>3. CASE Continue(r, "lookup") /\ UNCHANGED session
    BY <1>2, <2>1, <2>3 DEF Running, session, TypeOK
  <2>4. CASE Continue(r, "load") /\ UNCHANGED session
    BY <1>2, <2>1, <2>4 DEF Running, session, TypeOK
  <2>5. CASE Close(r, "ok") /\ users' = users /\ users[token[r].sub] # None
             /\ tokens' \in {tokens, tokens \cup TokenPair(token[r].sub)}
    BY <1>1, <2>1, <2>2, <2>5, TokenPairType DEF TypeOK
  <2>6. CASE Close(r, "refused") /\ UNCHANGED <<users, tokens>>
    BY <1>1, <2>1, <2>6 DEF TypeOK
  <2>7. QED
    BY <1>4, <2>3, <2>4, <2>5, <2>6 DEF Identify
<1>5. ASSUME NEW r \in Req, Lookup(r) PROVE TypeOK'
  <2>1. r \in Session
    BY Names
  <2>2. CASE Continue(r, "insert") /\ UNCHANGED session
    BY <1>2, <2>1, <2>2 DEF Running, session, TypeOK
  <2>3. ASSUME NEW x \in Found(call[r].email), Close(r, "ok"), users' = users,
               tokens' = tokens \cup TokenPair(x)
        PROVE  TypeOK'
    BY <1>1, <2>1, <2>3, TokenPairType DEF TypeOK, Found
  <2>4. CASE Close(r, "refused") /\ UNCHANGED <<users, tokens>>
    BY <1>1, <2>1, <2>4 DEF TypeOK
  <2>5. QED
    BY <1>5, <2>2, <2>3, <2>4 DEF Lookup
<1>6. ASSUME NEW p \in Process, FindAdmin(p) PROVE TypeOK'
  <2>1. p \in Session
    BY Names
  <2>2. CASE Continue(p, "insert") /\ UNCHANGED session
    BY <1>2, <2>1, <2>2 DEF Running, session, TypeOK
  <2>3. ASSUME NEW x \in Found(AdminEmail), Continue(p, "commit"),
               loaded' = [loaded EXCEPT ![p] = [id |-> x, row |-> users[x]]],
               UNCHANGED pending
        PROVE  TypeOK'
    <3>1. [id |-> x, row |-> users[x]] \in [id : Id, row : User]
      BY DEF Found, TypeOK
    <3>2. QED
      BY <1>2, <2>1, <2>3, <3>1 DEF Running, TypeOK
  <2>4. CASE Close(p, "up") /\ UNCHANGED <<users, tokens>>
    BY <1>1, <2>1, <2>4 DEF TypeOK
  <2>5. QED
    BY <1>6, <2>2, <2>3, <2>4 DEF FindAdmin
<1>7. ASSUME NEW s \in Session, Insert(s) PROVE TypeOK'
  <2>1. NewUser(s) \in User
    <3>1. /\ TypeOK /\ ControlAt(s) /\ pc[s] = "insert"
          /\ s \in Req => call[s].op \in {"register", "create"}
      BY <1>7 DEF Insert, ControlAt
    <3> HIDE DEF AccountsInv
    <3>2. QED
      BY <3>1, NewUserType
  <2>2. CASE Close(s, Aborted(s)) /\ UNCHANGED <<users, tokens>>
    BY <1>1, <1>3, <2>2 DEF TypeOK
  <2>3. CASE /\ pending' = [pending EXCEPT ![s] = NewUser(s)]
             /\ Continue(s, "commit") /\ UNCHANGED loaded
    BY <1>2, <2>1, <2>3 DEF Running, TypeOK
  <2>4. QED
    BY <1>7, <2>2, <2>3 DEF Insert
<1>8. ASSUME NEW r \in Req, Load(r) PROVE TypeOK'
  <2>1. r \in Session /\ call[r].id \in Id
    BY <1>8, Names, CallOfRequest DEF Load, ControlAt
  <2>2. CASE /\ users[call[r].id] # None
             /\ loaded' = [loaded EXCEPT ![r] = [id |-> call[r].id,
                                                 row |-> users[call[r].id]]]
             /\ Continue(r, "commit") /\ UNCHANGED pending
    <3>1. [id |-> call[r].id, row |-> users[call[r].id]] \in [id : Id, row : User]
      BY <2>1, <2>2 DEF TypeOK
    <3>2. QED
      BY <1>2, <2>1, <2>2, <3>1 DEF Running, TypeOK
  <2>3. CASE Close(r, "refused") /\ UNCHANGED <<users, tokens>>
    BY <1>1, <2>1, <2>3 DEF TypeOK
  <2>4. QED
    BY <1>8, <2>2, <2>3 DEF Load
<1>9. ASSUME NEW s \in Session, Commit(s) PROVE TypeOK'
  <2>1. users' \in [Id -> User \cup {None}]
    BY <1>9, CommitEffect DEF TypeOK
  <2>2. entitled' \in [Req -> BOOLEAN]
    <3>1. ASSUME NEW r \in Req
          PROVE  (\/ entitled[r]
                  \/ call[r] # None /\ Entitled(users', call[r], token[r]))
                 \in BOOLEAN
      OBVIOUS
    <3>2. entitled' = [r \in Req |->
             \/ entitled[r]
             \/ call[r] # None /\ Entitled(users', call[r], token[r])]
      BY <1>9 DEF Commit
    <3>3. QED
      BY <3>1, <3>2, Zenon
  <2>3. /\ UNCHANGED <<tokens, request, starts, first>>
        /\ pc' = [pc EXCEPT ![s] = IF s \in Process THEN "up" ELSE "refresh"]
        /\ loaded' = [loaded EXCEPT ![s] = None]
        /\ pending' = [pending EXCEPT ![s] = None]
    BY <1>9 DEF Commit
  <2>4. QED
    BY <2>1, <2>2, <2>3 DEF TypeOK, request, Running
<1>10. ASSUME NEW r \in Req, Refresh(r) PROVE TypeOK'
  BY <1>1, <1>10, Names DEF Refresh, TypeOK
<1>11. ASSUME NEW s \in Session, Fail(s) PROVE TypeOK'
  BY <1>1, <1>3, <1>11 DEF Fail, TypeOK
<1>12. ASSUME NEW p \in Process, Start(p) PROVE TypeOK'
  BY <1>12, Names DEF Start, TypeOK, request, session, Running
<1>13. ASSUME NEW p \in Process, Crash(p) PROVE TypeOK'
  BY <1>13, <1>3 DEF Crash, TypeOK, request
<1>14. ASSUME NEW r \in Req, NEW q \in Workload, NEW p \in Process,
              NEW t \in IF q.op \in WithToken THEN tokens ELSE {None},
              Receive(r, q, t, p)
       PROVE  TypeOK'
  <2>1. q \in Call /\ t \in Token \cup {None} /\ r \in Session
    BY CallAssumption, Names DEF TypeOK
  <2>2. Entitled(users, q, t) \in BOOLEAN
    BY DEF Entitled
  <2>3. entitled' \in [Req -> BOOLEAN]
    BY <1>14, <2>2 DEF Receive, TypeOK
  <2>4. pc' \in [Session -> Running \cup {"idle", "down", "up", "ok", "refused",
                                          "failed"}]
    BY <1>14, <2>1 DEF Receive, TypeOK, Running
  <2>5. QED
    BY <1>14, <2>1, <2>3, <2>4 DEF Receive, TypeOK, session
<1>15. CASE UNCHANGED vars
  BY <1>15 DEF vars, request, session, TypeOK
<1>16. QED
  BY <1>4, <1>5, <1>6, <1>7, <1>8, <1>9, <1>10, <1>11, <1>12, <1>13, <1>14,
     <1>15 DEF Next, Step, Quiescent

-----------------------------------------------------------------------------
(* What a step does to the sessions.                                       *)

\* The session is as it was.
Unmoved(o) ==
    /\ pc'[o] = pc[o] /\ loaded'[o] = loaded[o] /\ pending'[o] = pending[o]
    /\ o \in Req => call'[o] = call[o] /\ token'[o] = token[o]
    /\ o \in Process => first'[o] = first[o]

\* The session is over, and holds nothing.
Ended(o) ==
    /\ loaded'[o] = None /\ pending'[o] = None
    /\ o \in Req => /\ pc[o] \in Running
                    /\ pc'[o] \in {"ok", "refused", "failed"}
                    /\ call'[o] = call[o] /\ token'[o] = token[o]
    /\ o \in Process => /\ pc[o] # "down" /\ pc'[o] \in {"down", "up"}
                        /\ first'[o] = first[o]

\* The steps that take a session further.
Advances(s) ==
    \/ s \in Req /\ \E q \in Workload, p \in Process :
                       \E t \in IF q.op \in WithToken THEN tokens ELSE {None} :
                           Receive(s, q, t, p)
    \/ s \in Req /\ (Identify(s) \/ Lookup(s) \/ Load(s)) /\ pc'[s] \in Running
    \/ s \in Process /\ Start(s)
    \/ s \in Process /\ FindAdmin(s) /\ pc'[s] \in Running
    \/ Insert(s) /\ pc'[s] = "commit"
    \/ Commit(s)

\* A step ends sessions, or takes one further.
LEMMA StepShape ==
    ASSUME AccountsInv, [Next]_vars
    PROVE  \/ users' = users /\ \A o \in Session : Unmoved(o) \/ Ended(o)
           \/ \E s \in Session : /\ Advances(s)
                                 /\ \A o \in Session \ {s} : Unmoved(o)
<1>1. TypeOK
  BY DEF AccountsInv
<1>2. ASSUME NEW s \in Session, NEW end, Close(s, end), users' = users,
             s \in Req => pc[s] \in Running /\ end \in {"ok", "refused", "failed"},
             s \in Process => pc[s] # "down" /\ end \in {"down", "up"}
      PROVE  users' = users /\ \A o \in Session : Unmoved(o) \/ Ended(o)
  BY <1>1, <1>2 DEF TypeOK, Close, request, Unmoved, Ended
<1>3. ASSUME NEW s \in Session, NEW step, Continue(s, step),
             \A o \in Session \ {s} : /\ loaded'[o] = loaded[o]
                                      /\ pending'[o] = pending[o]
      PROVE  \A o \in Session \ {s} : Unmoved(o)
  BY <1>1, <1>3 DEF TypeOK, Continue, request, Unmoved
<1>4. ASSUME NEW s \in Session
      PROVE  /\ s \in Req => Aborted(s) = "failed"
             /\ s \in Process => Aborted(s) = "down"
  BY Names DEF Aborted
<1>5. ASSUME NEW r \in Req, Identify(r) \/ Lookup(r) \/ Load(r)
      PROVE  \/ users' = users /\ \A o \in Session : Unmoved(o) \/ Ended(o)
             \/ /\ pc'[r] \in Running
                /\ \A o \in Session \ {r} : Unmoved(o)
  <2>1. r \in Session /\ r \notin Process /\ pc[r] \in Running
    BY <1>5, Names DEF Identify, Lookup, Load, Running
  <2>2. CASE (Close(r, "ok") \/ Close(r, "refused")) /\ users' = users
    BY <1>2, <2>1, <2>2
  <2>3. CASE /\ Continue(r, "lookup") \/ Continue(r, "load")
                \/ Continue(r, "insert") \/ Continue(r, "commit")
             /\ \A o \in Session \ {r} : /\ loaded'[o] = loaded[o]
                                         /\ pending'[o] = pending[o]
    <3>1. pc'[r] \in Running
      BY <1>1, <2>1, <2>3 DEF Continue, Running, TypeOK
    <3>2. QED
      BY <1>3, <2>1, <2>3, <3>1
  <2>4. CASE Identify(r)
    BY <2>2, <2>3, <2>4 DEF Identify, session
  <2>5. CASE Lookup(r)
    BY <2>2, <2>3, <2>5 DEF Lookup, session
  <2>6. CASE Load(r)
    BY <1>1, <2>2, <2>3, <2>6 DEF Load, TypeOK
  <2>7. QED
    BY <1>5, <2>4, <2>5, <2>6
<1>6. ASSUME NEW p \in Process, FindAdmin(p)
      PROVE  \/ users' = users /\ \A o \in Session : Unmoved(o) \/ Ended(o)
             \/ /\ pc'[p] \in Running
                /\ \A o \in Session \ {p} : Unmoved(o)
  <2>1. p \in Session /\ p \notin Req /\ pc[p] # "down"
    BY <1>6, Names DEF FindAdmin
  <2>2. CASE Close(p, "up") /\ users' = users
    BY <1>2, <2>1, <2>2
  <2>3. CASE /\ Continue(p, "insert") \/ Continue(p, "commit")
             /\ \A o \in Session \ {p} : /\ loaded'[o] = loaded[o]
                                         /\ pending'[o] = pending[o]
    <3>1. pc'[p] \in Running
      BY <1>1, <2>1, <2>3 DEF Continue, Running, TypeOK
    <3>2. QED
      BY <1>3, <2>1, <2>3, <3>1
  <2>4. QED
    BY <1>1, <1>6, <2>2, <2>3 DEF FindAdmin, session, TypeOK
<1>7. ASSUME NEW s \in Session, Insert(s)
      PROVE  \/ users' = users /\ \A o \in Session : Unmoved(o) \/ Ended(o)
             \/ pc'[s] = "commit" /\ \A o \in Session \ {s} : Unmoved(o)
  <2>1. CASE Close(s, Aborted(s)) /\ users' = users
    BY <1>2, <1>4, <1>7, <2>1, Names DEF Insert, Running
  <2>2. CASE /\ pending' = [pending EXCEPT ![s] = NewUser(s)]
             /\ Continue(s, "commit") /\ UNCHANGED loaded
    BY <1>1, <1>3, <2>2 DEF Continue, TypeOK
  <2>3. QED
    BY <1>7, <2>1, <2>2 DEF Insert
<1>8. ASSUME NEW s \in Session, Commit(s)
      PROVE  \A o \in Session \ {s} : Unmoved(o)
  BY <1>1, <1>8 DEF TypeOK, Commit, request, Unmoved
<1>9. ASSUME NEW r \in Req, Refresh(r)
      PROVE  users' = users /\ \A o \in Session : Unmoved(o) \/ Ended(o)
  BY <1>2, <1>9, Names DEF Refresh, Running
<1>10. ASSUME NEW s \in Session, Fail(s)
       PROVE  users' = users /\ \A o \in Session : Unmoved(o) \/ Ended(o)
  BY <1>2, <1>4, <1>10, Names DEF Fail, Running
<1>11. ASSUME NEW p \in Process, Start(p)
       PROVE  \A o \in Session \ {p} : Unmoved(o)
  BY <1>1, <1>11, Names DEF Start, TypeOK, request, session, Unmoved
<1>12. ASSUME NEW p \in Process, Crash(p)
       PROVE  users' = users /\ \A o \in Session : Unmoved(o) \/ Ended(o)
  BY <1>1, <1>4, <1>12, Names DEF Crash, TypeOK, request, Unmoved, Ended
<1>13. ASSUME NEW r \in Req, NEW q \in Workload, NEW p \in Process,
              NEW t, Receive(r, q, t, p)
       PROVE  \A o \in Session \ {r} : Unmoved(o)
  BY <1>1, <1>13, Names DEF Receive, TypeOK, session, Unmoved
<1>14. CASE UNCHANGED vars
  BY <1>14 DEF vars, request, session, Unmoved
<1>15. \A r \in Req : r \in Session
  BY Names
<1>16. \A p \in Process : p \in Session
  BY Names
<1>17. ASSUME NEW s \in Session, Step(s)
       PROVE  \/ users' = users /\ \A o \in Session : Unmoved(o) \/ Ended(o)
              \/ Advances(s) /\ \A o \in Session \ {s} : Unmoved(o)
  BY <1>5, <1>6, <1>7, <1>8, <1>9, <1>17 DEF Step, Advances
<1>18. ASSUME NEW p \in Process, Start(p)
       PROVE  Advances(p) /\ \A o \in Session \ {p} : Unmoved(o)
  BY <1>11, <1>18 DEF Advances
<1>19. ASSUME NEW r \in Req, NEW q \in Workload, NEW p \in Process,
              NEW t \in IF q.op \in WithToken THEN tokens ELSE {None},
              Receive(r, q, t, p)
       PROVE  Advances(r) /\ \A o \in Session \ {r} : Unmoved(o)
  BY <1>13, <1>19 DEF Advances
<1>20. CASE \E s \in Session : Step(s) \/ Fail(s)
  BY <1>10, <1>17, <1>20
<1>21. CASE \E p \in Process : Start(p) \/ Crash(p)
  BY <1>12, <1>16, <1>18, <1>21
<1>22. CASE \E r \in Req, q \in Workload, p \in Process :
               \E t \in IF q.op \in WithToken THEN tokens ELSE {None} :
                   Receive(r, q, t, p)
  BY <1>15, <1>19, <1>22
<1>23. QED
  BY <1>14, <1>20, <1>21, <1>22 DEF Next, Quiescent

-----------------------------------------------------------------------------
(* What sessions hold.                                                     *)

\* Every step keeps the control state.
LEMMA ControlStep ==
    ASSUME AccountsInv, [Next]_vars
    PROVE  \A s \in Session : ControlAt(s)'
<1>1. TypeOK /\ \A s \in Session : ControlAt(s) /\ HeldAt(s)
  BY DEF AccountsInv
<1>2. ASSUME NEW o \in Session, Unmoved(o) PROVE ControlAt(o)'
  BY <1>1, <1>2 DEF Unmoved, ControlAt
<1>3. ASSUME NEW o \in Session, Ended(o) PROVE ControlAt(o)'
  BY <1>1, <1>3, Names DEF Ended, ControlAt, Running
<1>4. ASSUME NEW s \in Session, Advances(s) PROVE ControlAt(s)'
  <2>1. ControlAt(s) /\ HeldAt(s)
    BY <1>1
  <2>2. ASSUME NEW r \in Req, r = s, NEW q \in Workload, NEW p \in Process,
               NEW t \in IF q.op \in WithToken THEN tokens ELSE {None},
               Receive(r, q, t, p)
        PROVE  ControlAt(s)'
    <3>1. q \in Call /\ q # None /\ r \notin Process
      BY CallAssumption, NoneIsApart, Names
    <3>2. q.op \in WithToken => t # None
      BY <1>1, NoneIsApart DEF TypeOK
    <3>3. q.op \notin WithToken => q.op \in {"register", "login"}
      BY <3>1 DEF Call, Op, WithToken, AdminOps
    <3>4. /\ call'[r] = q /\ token'[r] = t
          /\ pc'[r] \in {"lookup", "identify", "refused"}
          /\ pc'[r] = "lookup" => q.op \notin WithToken
          /\ pc'[r] = "identify" => q.op \in WithToken
          /\ pc[r] = "idle"
          /\ loaded'[r] = loaded[r] /\ pending'[r] = pending[r]
      BY <1>1, <2>2, Names DEF Receive, TypeOK, session
    <3>5. QED
      BY <2>1, <2>2, <3>1, <3>2, <3>3, <3>4 DEF ControlAt
  <2>3. CASE s \in Req /\ Identify(s) /\ pc'[s] \in Running
    <3>1. s \notin Process /\ pc[s] = "identify"
      BY <2>3, Names DEF Identify
    <3>2. /\ call[s].op \in {"create", "update"}
          /\ pc'[s] = IF call[s].op = "create" THEN "lookup" ELSE "load"
          /\ UNCHANGED <<call, token, loaded, pending>>
      BY <1>1, <2>3
         DEF Identify, Close, Continue, TypeOK, request, session, Running
    <3>3. QED
      BY <2>1, <3>1, <3>2 DEF ControlAt
  <2>4. CASE s \in Req /\ Lookup(s) /\ pc'[s] \in Running
    <3>1. s \notin Process /\ pc[s] = "lookup"
      BY <2>4, Names DEF Lookup
    <3>2. /\ call[s].op # "login" /\ pc'[s] = "insert"
          /\ UNCHANGED <<call, token, loaded, pending>>
      BY <1>1, <2>4
         DEF Lookup, Close, Continue, TypeOK, request, session, Running
    <3>3. QED
      BY <2>1, <3>1, <3>2 DEF ControlAt
  <2>5. CASE s \in Req /\ Load(s) /\ pc'[s] \in Running
    <3>1. s \notin Process /\ pc[s] = "load"
      BY <2>5, Names DEF Load
    <3>2. /\ pc'[s] = "commit" /\ loaded'[s] # None
          /\ UNCHANGED <<call, token, pending>>
      <4>1. users[call[s].id] # None
        BY <1>1, <2>5 DEF Load, Close, TypeOK, Running
      <4>2. call[s].id \in Id /\ users[call[s].id] \in User
        BY <1>1, <2>1, <3>1, <4>1, <2>5, CallOfRequest DEF ControlAt, TypeOK
      <4>3. [id |-> call[s].id, row |-> users[call[s].id]] # None
        BY <4>2, NoneIsApart
      <4>4. QED
        BY <1>1, <2>5, <4>1, <4>3 DEF Load, Continue, TypeOK, request
    <3>3. QED
      BY <2>1, <3>1, <3>2 DEF ControlAt
  <2>6. CASE s \in Process /\ Start(s)
    <3>1. /\ s \notin Req /\ pc[s] = "down"
          /\ pc'[s] = IF AdminEmail = None THEN "up" ELSE "lookup"
          /\ UNCHANGED <<call, token, loaded, pending>>
      BY <1>1, <2>6, Names DEF Start, TypeOK, request, session
    <3>2. QED
      BY <2>1, <2>6, <3>1 DEF ControlAt
  <2>7. CASE s \in Process /\ FindAdmin(s) /\ pc'[s] \in Running
    <3>1. s \notin Req /\ pc[s] = "lookup"
      BY <2>7, Names DEF FindAdmin
    <3>2. CASE Continue(s, "insert") /\ UNCHANGED session
      <4>1. pc'[s] = "insert" /\ UNCHANGED <<loaded, pending>>
        BY <1>1, <3>2 DEF Continue, TypeOK, session
      <4>2. QED
        BY <2>1, <2>7, <3>1, <4>1 DEF ControlAt
    <3>3. ASSUME NEW x \in Found(AdminEmail), UNCHANGED pending,
                 loaded' = [loaded EXCEPT ![s] = [id |-> x, row |-> users[x]]],
                 Continue(s, "commit")
          PROVE  ControlAt(s)'
      <4>1. x \in Id /\ users[x] \in User
        BY <1>1 DEF Found, TypeOK
      <4>2. [id |-> x, row |-> users[x]] # None
        BY <4>1, NoneIsApart
      <4>3. pc'[s] = "commit" /\ loaded'[s] # None
        BY <1>1, <3>3, <4>2 DEF Continue, TypeOK
      <4>4. QED
        BY <2>1, <2>7, <3>1, <4>3 DEF ControlAt
    <3>4. CASE Close(s, "up")
      BY <1>1, <2>7, <3>4 DEF Close, TypeOK, Running
    <3>5. QED
      BY <2>7, <3>2, <3>3, <3>4 DEF FindAdmin
  <2>8. CASE Insert(s) /\ pc'[s] = "commit"
    <3>1. /\ pc[s] = "insert" /\ pending'[s] = NewUser(s)
          /\ UNCHANGED <<call, token, loaded>>
      BY <1>1, <2>8
         DEF Insert, Close, Continue, Aborted, TypeOK, request
    <3>2. s \in Req => call[s].op \in {"register", "create"}
      BY <2>1, <3>1 DEF ControlAt
    <3>3. pending'[s] # None
      BY <1>1, <2>1, <3>1, <3>2, NewUserType, NoneIsApart
    <3>4. QED
      BY <2>1, <2>8, <3>1, <3>3 DEF ControlAt
  <2>9. CASE Commit(s)
    <3>1. /\ pc[s] = "commit" /\ loaded'[s] = None /\ pending'[s] = None
          /\ pc'[s] = IF s \in Process THEN "up" ELSE "refresh"
          /\ UNCHANGED <<call, token>>
      BY <1>1, <2>9 DEF Commit, TypeOK, request
    <3>2. QED
      BY <2>1, <3>1, Names DEF ControlAt
  <2>10. QED
    BY <1>4, <2>2, <2>3, <2>4, <2>5, <2>6, <2>7, <2>8, <2>9 DEF Advances
<1>5. QED
  BY <1>2, <1>3, <1>4, StepShape

\* A step that inserts nothing gives nobody an e-mail address.
LEMMA TakenStep ==
    ASSUME AccountsInv, [Next]_vars, NEW e, ~Taken(e),
           NEW y \in Id, users'[y] # None, users'[y].email = e
    PROVE  \E s \in Session : /\ Commit(s) /\ pending[s] # None
                              /\ pending[s].email = e
<1>1. users'[y] # None /\ users'[y].email = e
  OBVIOUS
<1>2. PICK s \in Session : Commit(s)
  BY UsersChangeByCommit DEF Taken
<1>3. PICK x \in Id, u \in User :
         /\ users' = [users EXCEPT ![x] = u]
         /\ \/ pending[s] # None /\ u = pending[s]
            \/ users[x] # None /\ u.email = users[x].email
  BY <1>2, CommitEffect
<1>4. y = x
  BY <1>1, <1>3 DEF Taken
<1>5. users'[x] = u
  BY <1>3 DEF AccountsInv, TypeOK
<1>6. pending[s] # None /\ u = pending[s]
  BY <1>1, <1>3, <1>4, <1>5 DEF Taken
<1>7. QED
  BY <1>1, <1>2, <1>4, <1>5, <1>6

\* Every step keeps what sessions hold.
LEMMA HeldStep ==
    ASSUME AccountsInv, [Next]_vars
    PROVE  \A s \in Session : HeldAt(s)'
<1>1. TypeOK /\ \A s \in Session : ControlAt(s) /\ HeldAt(s)
  BY DEF AccountsInv
<1>2. ASSUME NEW o \in Session, pending'[o] = pending[o], pending[o] # None
      PROVE  ~Taken(pending[o].email)'
  <2>1. SUFFICES ASSUME Taken(pending[o].email)' PROVE FALSE
    OBVIOUS
  <2>2. ~Taken(pending[o].email)
    BY <1>1, <1>2 DEF HeldAt
  <2>3. PICK s \in Session : /\ Commit(s) /\ pending[s] # None
                             /\ pending[s].email = pending[o].email
    <3>1. PICK y \in Id : users'[y] # None /\ users'[y].email = pending[o].email
      BY <1>2, <2>1 DEF Taken
    <3>2. QED
      BY <2>2, <3>1, TakenStep
  <2>4. pending'[s] = None
    BY <1>1, <2>3 DEF Commit, TypeOK
  <2>5. s # o
    BY <1>2, <2>4
  <2>6. QED
    BY <1>1, <1>2, <2>3, <2>5 DEF HeldAt
<1>3. ASSUME NEW s \in Session, Insert(s), pc'[s] = "commit"
      PROVE  /\ pending'[s] = NewUser(s) /\ NewUser(s).email = EmailOf(s)
             /\ \A o \in Session \ {s} :
                   pending[o] # None => pending[o].email # EmailOf(s)
             /\ ~Taken(EmailOf(s)) /\ users' = users
             /\ UNCHANGED <<call, loaded>> /\ loaded[s] = None
             /\ s \in Req => call[s].op \in {"register", "create"}
  <2>1. /\ pc[s] = "insert" /\ pending'[s] = NewUser(s) /\ users' = users
        /\ ~Taken(EmailOf(s)) /\ UNCHANGED <<call, loaded>>
        /\ \A o \in Session \ {s} :
              pending[o] # None => pending[o].email # EmailOf(s)
    BY <1>1, <1>3 DEF Insert, Close, Continue, Aborted, TypeOK, request
  <2>2. s \in Req => call[s].op \in {"register", "create"}
    BY <1>1, <2>1 DEF ControlAt
  <2>3. NewUser(s).email = EmailOf(s)
    BY <1>1, <2>1, <2>2, NewUserType
  <2>4. loaded[s] = None
    BY <1>1, <2>1 DEF ControlAt
  <2>5. QED
    BY <2>1, <2>2, <2>3, <2>4
<1>4. ASSUME NEW s \in Session, NEW o \in Session \ {s},
             pending'[s] # None, pending'[o] # None
      PROVE  pending'[o].email # pending'[s].email
  <2>1. CASE pending'[s] = pending[s] /\ pending'[o] = pending[o]
    BY <1>1, <1>4, <2>1 DEF HeldAt
  <2>2. ASSUME NEW i \in Session, pending'[i] # None, pending'[i] # pending[i]
        PROVE  /\ Insert(i) /\ pc'[i] = "commit"
               /\ \A j \in Session \ {i} : Unmoved(j)
    <3>1. PICK z \in Session : Advances(z) /\ \A j \in Session \ {z} : Unmoved(j)
      BY <2>2, StepShape DEF Unmoved, Ended
    <3>2. z = i
      BY <2>2, <3>1 DEF Unmoved
    <3>3. QED
      BY <1>1, <2>2, <3>1, <3>2
         DEF Advances, Receive, Identify, Lookup, Load, Start, FindAdmin,
             Commit, Close, Continue, session, TypeOK
  <2>3. ASSUME NEW i \in Session, NEW j \in Session \ {i}, pending'[i] # None,
               pending'[j] # None, pending'[i] # pending[i]
        PROVE  pending'[j].email # pending'[i].email
    BY <1>3, <2>2, <2>3 DEF Unmoved
  <2>4. QED
    BY <1>4, <2>1, <2>3
<1>5. ASSUME NEW o \in Session, pending'[o] # None
      PROVE  /\ (pending[o] = NewUser(o))'
             /\ o \in Req => call'[o].op \in {"register", "create"}
             /\ ~Taken(pending[o].email)'
             /\ loaded'[o] = None
  <2>1. CASE Unmoved(o)
    <3>1. /\ pending[o] # None /\ pending[o] = NewUser(o) /\ loaded[o] = None
          /\ o \in Req => call[o].op \in {"register", "create"}
      BY <1>1, <1>5, <2>1 DEF Unmoved, HeldAt
    <3>2. NewUser(o)' = NewUser(o)
      BY <2>1, Names DEF Unmoved, NewUser
    <3>3. QED
      BY <1>2, <2>1, <3>1, <3>2 DEF Unmoved
  <2>2. CASE Ended(o)
    BY <1>5, <2>2 DEF Ended
  <2>3. CASE Insert(o) /\ pc'[o] = "commit"
    <3>1. NewUser(o)' = NewUser(o)
      BY <1>3, <2>3 DEF NewUser
    <3>2. ~Taken(EmailOf(o))'
      BY <1>3, <2>3 DEF Taken, EmailOf
    <3>3. QED
      BY <1>3, <2>3, <3>1, <3>2 DEF Taken
  <2>4. CASE Advances(o) /\ ~(Insert(o) /\ pc'[o] = "commit")
    <3>1. pc[o] # "commit" /\ pending'[o] = pending[o]
      BY <1>1, <1>5, <2>4
         DEF Advances, Receive, Identify, Lookup, Load, Start, FindAdmin,
             Commit, Close, Continue, session, TypeOK
    <3>2. QED
      BY <1>1, <1>5, <3>1 DEF ControlAt
  <2>5. QED
    BY <2>1, <2>2, <2>3, <2>4, StepShape
<1>6. ASSUME NEW o \in Session, loaded'[o] # None
      PROVE  /\ users'[loaded'[o].id] # None
             /\ users'[loaded'[o].id].email = loaded'[o].row.email
             /\ o \in Req => call'[o].op = "update" /\ loaded'[o].id = call'[o].id
             /\ o \in Process => loaded'[o].row.email = AdminEmail
  <2>1. CASE Unmoved(o)
    <3>1. loaded[o] # None /\ loaded[o] = loaded'[o]
      BY <1>6, <2>1 DEF Unmoved
    <3>2. /\ loaded[o].id \in Id /\ users[loaded[o].id] # None
          /\ users[loaded[o].id].email = loaded[o].row.email
          /\ o \in Req => call[o].op = "update" /\ loaded[o].id = call[o].id
          /\ o \in Process => loaded[o].row.email = AdminEmail
      BY <1>1, <3>1 DEF HeldAt, TypeOK
    <3>3. QED
      BY <2>1, <3>1, <3>2, UsersStay DEF Unmoved
  <2>2. CASE Ended(o)
    BY <1>6, <2>2 DEF Ended
  <2>3. CASE o \in Req /\ Load(o)
    <3>1. /\ call[o].op = "update" /\ call[o].id \in Id
          /\ o \notin Process
      BY <1>1, <2>3, CallOfRequest, Names DEF Load, ControlAt
    <3>2. /\ loaded' = [loaded EXCEPT ![o] = [id |-> call[o].id,
                                              row |-> users[call[o].id]]]
          /\ UNCHANGED <<users, call>> /\ users[call[o].id] # None
      BY <1>1, <1>6, <2>3 DEF Load, Close, Continue, request, TypeOK
    <3>3. loaded'[o] = [id |-> call[o].id, row |-> users[call[o].id]]
      BY <1>1, <3>2 DEF TypeOK
    <3>4. QED
      BY <3>1, <3>2, <3>3
  <2>4. CASE o \in Process /\ FindAdmin(o)
    <3>1. loaded[o] = None
      BY <1>1, <2>4 DEF FindAdmin, ControlAt
    <3>2. PICK x \in Found(AdminEmail) :
             /\ loaded' = [loaded EXCEPT ![o] = [id |-> x, row |-> users[x]]]
             /\ users' = users
      BY <1>1, <1>6, <2>4, <3>1
         DEF FindAdmin, Close, Continue, session, TypeOK
    <3>3. /\ x \in Id /\ users[x] # None /\ users[x].email = AdminEmail
          /\ loaded'[o] = [id |-> x, row |-> users[x]]
      BY <1>1, <3>2 DEF Found, TypeOK
    <3>4. QED
      BY <2>4, <3>2, <3>3, Names
  <2>5. CASE Advances(o) /\ ~(o \in Req /\ Load(o))
             /\ ~(o \in Process /\ FindAdmin(o))
    <3>1. pc[o] # "commit" /\ loaded'[o] = loaded[o]
      BY <1>1, <1>6, <2>5
         DEF Advances, Receive, Identify, Lookup, Start, Insert, Commit, Close,
             Continue, session, TypeOK
    <3>2. QED
      BY <1>1, <1>6, <3>1 DEF ControlAt
  <2>6. QED
    BY <2>1, <2>2, <2>3, <2>4, <2>5, StepShape
<1>7. QED
  BY <1>4, <1>5, <1>6 DEF HeldAt

\* A row that is new has the name of the session that has committed it.
LEMMA NewRowIsOwn ==
    ASSUME AccountsInv, [Next]_vars, NEW x \in Id, users[x] = None,
           users'[x] # None
    PROVE  /\ x \in Session /\ Commit(x) /\ pending[x] # None
           /\ users'[x] = NewUser(x)
           /\ NewUser(x).email = EmailOf(x)
BY UsersChangeByCommit, CommitEffect DEF AccountsInv, TypeOK

\* Every step keeps the names of the sessions for themselves.
LEMMA OwnRowStep ==
    ASSUME AccountsInv, [Next]_vars
    PROVE  \A s \in Session : OwnRowAt(s)'
<1>1. /\ TypeOK
      /\ \A s \in Session : ControlAt(s) /\ HeldAt(s) /\ OwnRowAt(s)
  BY DEF AccountsInv
<1>2. ASSUME NEW r \in Req,
             \/ pc'[r] \in {"idle", "identify", "lookup", "insert"}
             \/ pending'[r] # None
      PROVE  users'[r] = None
  <2>1. r \in Session /\ r \in Id /\ r \notin Process
    BY Names
  <2>2. ~Commit(r)
    <3>1. SUFFICES ASSUME Commit(r) PROVE FALSE
      OBVIOUS
    <3>2. pc'[r] = "refresh" /\ pending'[r] = None
      BY <1>1, <2>1, <3>1 DEF Commit, TypeOK
    <3>3. QED
      BY <1>2, <3>2
  <2>3. users[r] = None
    <3>1. CASE Unmoved(r)
      BY <1>1, <1>2, <2>1, <3>1 DEF Unmoved, OwnRowAt
    <3>2. CASE Ended(r)
      BY <1>2, <3>2 DEF Ended
    <3>3. CASE Advances(r)
      <4>1. pc[r] \in {"idle", "identify", "lookup", "insert"}
        <5>1. CASE Load(r)
          <6>1. pc'[r] \in {"commit", "refused"} /\ pc[r] = "load"
                /\ pending'[r] \in {pending[r], None}
            BY <1>1, <2>1, <5>1 DEF Load, Continue, Close, TypeOK
          <6>2. pending[r] = None
            BY <1>1, <2>1, <6>1 DEF ControlAt
          <6>3. QED
            BY <1>2, <6>1, <6>2
        <5>2. CASE ~Load(r)
          BY <2>1, <2>2, <3>3, <5>2
             DEF Advances, Receive, Identify, Lookup, Insert
        <5>3. QED
          BY <5>1, <5>2
      <4>2. QED
        BY <1>1, <2>1, <4>1 DEF OwnRowAt
    <3>4. QED
      BY <2>1, <3>1, <3>2, <3>3, StepShape
  <2>4. QED
    BY <2>1, <2>2, <2>3, NewRowIsOwn
<1>3. ASSUME NEW p \in Process, users'[p] # None
      PROVE  users'[p].email = AdminEmail
  <2>1. p \in Session /\ p \in Id
    BY Names
  <2>2. CASE users[p] = None
    <3>1. users'[p] = NewUser(p) /\ NewUser(p).email = EmailOf(p)
      BY <1>3, <2>1, <2>2, NewRowIsOwn
    <3>2. QED
      BY <3>1 DEF EmailOf
  <2>3. CASE users[p] # None
    BY <1>1, <2>1, <2>3, UsersStay DEF OwnRowAt
  <2>4. QED
    BY <2>2, <2>3
<1>4. ASSUME NEW p \in Process, pc'[p] # "down"
      PROVE  first'[p] \/ Taken(AdminEmail)'
  <2>1. p \in Session /\ p \notin Req
    BY Names
  <2>2. CASE Start(p)
    <3>1. first'[p] = ~Taken(AdminEmail)
      BY <1>1, <2>2 DEF Start, TypeOK
    <3>2. QED
      BY <3>1, UsersStay
  <2>3. CASE ~Start(p)
    <3>1. first'[p] = first[p] /\ pc[p] # "down"
      <4>1. CASE Unmoved(p)
        BY <1>4, <4>1 DEF Unmoved
      <4>2. CASE Ended(p)
        BY <4>2 DEF Ended
      <4>3. CASE Advances(p)
        BY <2>1, <2>3, <4>3
           DEF Advances, FindAdmin, Insert, Commit, Close, Continue
      <4>4. QED
        BY <2>1, <4>1, <4>2, <4>3, StepShape
    <3>2. first[p] \/ Taken(AdminEmail)
      BY <1>1, <2>1, <3>1 DEF OwnRowAt
    <3>3. QED
      BY <3>1, <3>2, UsersStay
  <2>4. QED
    BY <2>2, <2>3
<1>5. QED
  BY <1>2, <1>3, <1>4 DEF OwnRowAt

\* Every step keeps e-mail addresses unique.
LEMMA EmailsStep ==
    ASSUME AccountsInv, [Next]_vars
    PROVE  EmailsUnique'
<1>1. SUFFICES ASSUME NEW x \in Id, NEW y \in Id, users'[x] # None,
                      users'[y] # None, x # y
               PROVE  users'[x].email # users'[y].email
  BY DEF EmailsUnique
<1>2. ASSUME NEW a \in Id, NEW b \in Id, users[a] # None, users[b] = None,
             users'[a] # None, users'[b] # None
      PROVE  users'[a].email # users'[b].email
  <2>1. /\ b \in Session /\ Commit(b) /\ pending[b] # None
        /\ users'[b] = NewUser(b)
    BY <1>2, NewRowIsOwn
  <2>2. users'[b] = pending[b] /\ ~Taken(pending[b].email)
    BY <2>1 DEF AccountsInv, HeldAt
  <2>3. users'[a].email = users[a].email
    BY <1>2, UsersStay
  <2>4. QED
    BY <1>2, <2>2, <2>3 DEF Taken
<1>3. CASE users[x] # None /\ users[y] # None
  BY <1>1, <1>3, UsersStay DEF AccountsInv, EmailsUnique
<1>4. CASE users[x] = None /\ users[y] = None
  <2>1. x \in Session /\ Commit(x) /\ y \in Session /\ Commit(y)
    BY <1>1, <1>4, NewRowIsOwn
  <2>2. pending'[y] = None /\ pending'[x] = None
    BY <2>1 DEF Commit, AccountsInv, TypeOK
  <2>3. pc[y] = "commit" /\ pc'[y] # pc[y] /\ pc'[x] # pc[x]
    BY <2>1 DEF Commit, AccountsInv, TypeOK
  <2>4. \A o \in Session \ {x} : pc'[o] = pc[o]
    BY <2>1 DEF Commit, AccountsInv, TypeOK
  <2>5. QED
    BY <1>1, <2>1, <2>3, <2>4
<1>5. QED
  BY <1>1, <1>2, <1>3, <1>4

\* Every step issues tokens for users who exist.
LEMMA TokensStep ==
    ASSUME AccountsInv, [Next]_vars
    PROVE  TokensHaveUsers'
<1>1. TypeOK /\ TokensHaveUsers
  BY DEF AccountsInv
<1>2. ASSUME NEW t \in tokens' PROVE users'[t.sub] # None
  <2>1. CASE t \in tokens
    BY <1>1, <2>1, UsersStay DEF TokensHaveUsers, TypeOK, Token
  <2>2. CASE t \notin tokens
    <3>1. PICK r \in Req : Identify(r) \/ Lookup(r)
      BY <2>2 DEF Next, Step, Load, Refresh, FindAdmin, Insert, Commit, Fail,
                  Start, Crash, Receive, Quiescent, Continue, vars
    <3>2. \E x \in Id : users[x] # None /\ t \in TokenPair(x)
      <4>1. CASE Identify(r)
        <5>1. r \in Session /\ token[r] \in Token
          BY <4>1, Names, NoneIsApart DEF Identify, ControlAt, TypeOK, AccountsInv
        <5>2. token[r].sub \in Id
          BY <5>1 DEF Token
        <5>3. QED
          BY <2>2, <4>1, <5>2 DEF Identify, Continue
      <4>2. CASE Lookup(r)
        BY <2>2, <4>2 DEF Lookup, Found, Continue
      <4>3. QED
        BY <3>1, <4>1, <4>2
    <3>3. QED
      BY <1>1, <3>2, TokenPairType, UsersStay
  <2>3. QED
    BY <2>1, <2>2
<1>3. ASSUME NEW r \in Req, token'[r] # None PROVE users'[token'[r].sub] # None
  <2>1. CASE token'[r] = token[r]
    BY <1>1, <1>3, <2>1, UsersStay, NoneIsApart
       DEF TokensHaveUsers, TypeOK, Token
  <2>2. CASE token'[r] # token[r]
    <3>1. PICK q \in Workload, p \in Process :
             \E t \in IF q.op \in WithToken THEN tokens ELSE {None} :
                Receive(r, q, t, p)
      BY <1>1, <2>2, StepShape, Names
         DEF Unmoved, Ended, Advances, Identify, Lookup, Load, Insert, Commit,
             Close, Continue, request
    <3>2. token'[r] \in tokens
      BY <1>1, <1>3, <3>1 DEF Receive, TypeOK
    <3>3. QED
      BY <1>1, <3>2, UsersStay DEF TokensHaveUsers, TypeOK, Token
  <2>3. QED
    BY <2>1, <2>2
<1>4. QED
  BY <1>2, <1>3 DEF TokensHaveUsers

-----------------------------------------------------------------------------
(* Who is admitted, and which start may fail.                              *)

\* Every step keeps the history true of the present.
LEMMA HistoryStep ==
    ASSUME AccountsInv, [Next]_vars
    PROVE  \A r \in Req : HistoryAt(r)'
<1>1. TypeOK /\ \A r \in Req : HistoryAt(r)
  BY DEF AccountsInv
<1>2. ASSUME NEW r \in Req, pc'[r] \in Running,
             Entitled(users', call'[r], token'[r])
      PROVE  entitled'[r]
  <2>1. r \in Session /\ r \notin Process
    BY Names
  <2>2. CASE \E q \in Workload, p \in Process :
               \E t \in IF q.op \in WithToken THEN tokens ELSE {None} :
                   Receive(r, q, t, p)
    BY <1>1, <1>2, <2>2 DEF Receive, TypeOK
  <2>3. CASE ~\E q \in Workload, p \in Process :
               \E t \in IF q.op \in WithToken THEN tokens ELSE {None} :
                   Receive(r, q, t, p)
    <3>1. call'[r] = call[r] /\ token'[r] = token[r] /\ pc[r] \in Running
      <4>1. CASE Unmoved(r)
        BY <1>2, <4>1 DEF Unmoved
      <4>2. CASE Ended(r)
        BY <4>2 DEF Ended
      <4>3. CASE Advances(r)
        BY <2>1, <2>3, <4>3
           DEF Advances, Identify, Lookup, Load, Insert, Commit, Close,
               Continue, request, Running
      <4>4. QED
        BY <2>1, <4>1, <4>2, <4>3, StepShape
    <3>2. CASE users' = users
      <4>1. entitled[r]
        BY <1>1, <1>2, <3>1, <3>2 DEF HistoryAt
      <4>2. entitled'[r] = entitled[r] \/ \E s \in Session : Commit(s)
        BY <1>1, <2>3
           DEF Next, Step, Identify, Lookup, Load, Refresh, FindAdmin, Insert,
               Fail, Start, Crash, Receive, Quiescent, Continue, Close, vars,
               TypeOK
      <4>3. QED
        BY <1>1, <4>1, <4>2 DEF Commit, TypeOK
    <3>3. ASSUME NEW s \in Session, Commit(s) PROVE entitled'[r]
      <4>1. call[r] # None
        BY <1>1, <2>1, <3>1, CallOfRequest DEF AccountsInv, Running
      <4>2. entitled'[r] = (\/ entitled[r]
                            \/ /\ call[r] # None
                               /\ Entitled(users', call[r], token[r]))
        BY <3>3, Zenon DEF Commit
      <4>3. QED
        BY <1>2, <3>1, <4>1, <4>2
    <3>4. QED
      BY <3>2, <3>3, UsersChangeByCommit
  <2>4. QED
    BY <2>2, <2>3
<1>3. QED
  BY <1>2 DEF HistoryAt

\* Once entitled, a request stays so until the next one takes its place.
LEMMA EntitledStays ==
    ASSUME AccountsInv, [Next]_vars, NEW r \in Req, entitled[r],
           pc[r] # "idle"
    PROVE  entitled'[r]
<1>1. TypeOK
  BY DEF AccountsInv
<1>2. ASSUME NEW s \in Session, Commit(s) PROVE entitled'[r]
  <2>1. entitled'[r] = (\/ entitled[r]
                        \/ /\ call[r] # None
                           /\ Entitled(users', call[r], token[r]))
    BY <1>2, Zenon DEF Commit
  <2>2. QED
    BY <2>1
<1>3. CASE ~\E s \in Session : Commit(s)
  <2>1. entitled'[r] = entitled[r]
    BY <1>1, <1>3
       DEF Next, Step, Identify, Lookup, Load, Refresh, FindAdmin, Insert,
           Fail, Start, Crash, Receive, Quiescent, Continue, Close, vars,
           TypeOK
  <2>2. QED
    BY <2>1
<1>4. QED
  BY <1>2, <1>3

\* Only a step of its own ends a request well.
LEMMA OwnStepEndsWell ==
    ASSUME AccountsInv, [Next]_vars, NEW r \in Req, pc[r] # "ok",
           pc'[r] = "ok"
    PROVE  Identify(r) \/ Lookup(r) \/ Load(r) \/ Refresh(r)
<1>1. TypeOK /\ r \in Session /\ r \notin Process
  BY Names DEF AccountsInv
<1>2. ASSUME NEW s \in Session, s # r, Step(s) \/ Fail(s) PROVE pc'[r] = pc[r]
  BY <1>1, <1>2
     DEF Step, Identify, Lookup, Load, Refresh, FindAdmin, Insert, Commit,
         Fail, Close, Continue, TypeOK
<1>3. ASSUME Fail(r) \/ Insert(r) \/ Commit(r) PROVE pc'[r] # "ok"
  BY <1>1, <1>3
     DEF Insert, Commit, Fail, Close, Continue, Aborted, TypeOK
<1>4. ASSUME NEW p \in Process, Start(p) \/ Crash(p)
      PROVE  pc'[r] \in {pc[r], "failed"}
  BY <1>1, <1>4 DEF Start, Crash, Aborted, TypeOK
<1>5. ASSUME NEW o \in Req, NEW q \in Workload, NEW p \in Process,
             NEW t \in IF q.op \in WithToken THEN tokens ELSE {None},
             Receive(o, q, t, p)
      PROVE  pc'[r] # "ok"
  BY <1>1, <1>5, Names DEF Receive, TypeOK
<1>6. CASE UNCHANGED vars
  BY <1>6 DEF vars
<1>7. CASE Step(r)
  BY <1>1, <1>3, <1>7 DEF Step
<1>8. QED
  BY <1>2, <1>3, <1>4, <1>5, <1>6, <1>7 DEF Next, Quiescent

\* Every step admits only those who were entitled.
LEMMA AdmittedStep ==
    ASSUME AccountsInv, [Next]_vars
    PROVE  AdmittedWereEntitled'
<1>1. /\ TypeOK /\ AdmittedWereEntitled
      /\ \A r \in Req : HistoryAt(r)
      /\ \A s \in Session : ControlAt(s)
  BY DEF AccountsInv
<1>2. ASSUME NEW r \in Req, call'[r] # None, Admitted(r)'
      PROVE  entitled'[r]
  <2>1. r \in Session /\ r \notin Process
    BY Names
  <2>2. ASSUME pc[r] # "idle", call'[r] = call[r], Admitted(r)
        PROVE  entitled'[r]
    BY <1>1, <1>2, <2>2, EntitledStays DEF AdmittedWereEntitled
  <2>3. CASE Unmoved(r)
    <3>1. Admitted(r) /\ call[r] # None /\ call'[r] = call[r]
      BY <1>2, <2>3 DEF Unmoved, Admitted
    <3>2. pc[r] # "idle"
      BY <1>1, <2>1, <3>1 DEF ControlAt
    <3>3. QED
      BY <2>2, <3>1, <3>2
  <2>4. CASE Ended(r) /\ pc'[r] # "ok"
    BY <1>2, <2>4 DEF Ended, Admitted
  <2>5. CASE \E q \in Workload, p \in Process :
               \E t \in IF q.op \in WithToken THEN tokens ELSE {None} :
                   Receive(r, q, t, p)
    <3>1. PICK q \in Workload, p \in Process :
             \E t \in IF q.op \in WithToken THEN tokens ELSE {None} :
                 Receive(r, q, t, p)
      BY <2>5
    <3>2. /\ call'[r] = q
          /\ pc'[r] \in {"lookup", "identify", "refused"}
          /\ pc'[r] = "lookup" => q.op \notin WithToken
      BY <1>1, <2>1, <3>1 DEF Receive, TypeOK
    <3>3. QED
      BY <1>2, <3>2 DEF Admitted
  <2>6. CASE Identify(r)
    <3>1. call'[r] = call[r] /\ call[r].op \in WithToken /\ pc[r] = "identify"
      BY <1>1, <2>1, <2>6
         DEF Identify, ControlAt, Continue, Close, request
    <3>2. CASE Close(r, "refused")
      <4>1. pc'[r] = "refused"
        BY <1>1, <2>1, <3>2 DEF Close, TypeOK
      <4>2. QED
        BY <1>2, <4>1 DEF Admitted
    <3>3. CASE ~Close(r, "refused")
      <4>1. /\ users[token[r].sub] # None
            /\ May(call[r], token[r], users[token[r].sub])
        BY <2>6, <3>3 DEF Identify
      <4>2. /\ users[token[r].sub].is_active
            /\ call[r].op \in AdminOps
               => users[token[r].sub].role = "SUPER_ADMIN"
        BY <4>1 DEF May
      <4>3. Entitled(users, call[r], token[r])
        BY <3>1, <4>1, <4>2 DEF Entitled, WithToken, AdminOps
      <4>4. entitled[r]
        BY <1>1, <3>1, <4>3 DEF HistoryAt, Running
      <4>5. QED
        BY <3>1, <4>4, EntitledStays
    <3>4. QED
      BY <3>2, <3>3
  <2>7. CASE Lookup(r)
    <3>1. /\ pc[r] = "lookup" /\ call'[r] = call[r]
          /\ call[r].op \in {"register", "login", "create"}
      BY <1>1, <2>1, <2>7 DEF Lookup, ControlAt, Continue, Close, request
    <3>2. CASE call[r].op = "create"
      BY <2>2, <3>1, <3>2 DEF Admitted, WithToken, AdminOps
    <3>3. CASE call[r].op = "register"
      BY <1>2, <3>1, <3>3 DEF Admitted, WithToken, AdminOps
    <3>4. CASE call[r].op = "login"
      <4>1. CASE Close(r, "refused")
        <5>1. pc'[r] = "refused"
          BY <1>1, <2>1, <4>1 DEF Close, TypeOK
        <5>2. QED
          BY <1>2, <3>1, <3>4, <5>1 DEF Admitted
      <4>2. CASE ~Close(r, "refused")
        <5>1. \E x \in Id : /\ users[x] # None
                            /\ users[x].email = call[r].email
                            /\ users[x].is_active
          BY <2>7, <3>4, <4>2 DEF Lookup, Found
        <5>2. Entitled(users, call[r], token[r])
          BY <3>4, <5>1 DEF Entitled, WithToken, AdminOps
        <5>3. entitled[r]
          BY <1>1, <3>1, <5>2 DEF HistoryAt, Running
        <5>4. QED
          BY <3>1, <5>3, EntitledStays
      <4>3. QED
        BY <4>1, <4>2
    <3>5. QED
      BY <3>1, <3>2, <3>3, <3>4
  <2>8. CASE Load(r) \/ Insert(r) \/ Commit(r) \/ Refresh(r)
    <3>1. /\ call'[r] = call[r]
          /\ pc[r] \in {"insert", "load", "commit", "refresh"}
          /\ call[r].op \in {"register", "create", "update"}
      BY <1>1, <2>1, <2>8
         DEF Load, Insert, Commit, Refresh, Continue, Close, request, ControlAt
    <3>2. CASE call[r].op = "register"
      BY <1>2, <3>1, <3>2 DEF Admitted, WithToken, AdminOps
    <3>3. CASE call[r].op \in {"create", "update"}
      <4>1. Admitted(r)
        BY <3>1, <3>3 DEF Admitted, WithToken, AdminOps
      <4>2. QED
        BY <2>2, <3>1, <4>1
    <3>4. QED
      BY <3>1, <3>2, <3>3
  <2>9. CASE Ended(r) /\ pc'[r] = "ok"
    <3>1. pc[r] # "ok"
      BY <2>9 DEF Ended, Running
    <3>2. Identify(r) \/ Lookup(r) \/ Load(r) \/ Refresh(r)
      BY <1>1, <2>1, <2>9, <3>1, OwnStepEndsWell
    <3>3. QED
      BY <2>6, <2>7, <2>8, <3>2
  <2>10. CASE Advances(r)
    BY <2>1, <2>5, <2>6, <2>7, <2>8, <2>10 DEF Advances
  <2>11. QED
    BY <2>1, <2>3, <2>4, <2>9, <2>10, StepShape
<1>3. QED
  BY <1>2 DEF AdmittedWereEntitled

\* Every step lets only first starts insert.
LEMMA ConflictStep ==
    ASSUME AccountsInv, [Next]_vars
    PROVE  ConflictOnlyAtFirstStart'
<1>1. /\ TypeOK /\ ConflictOnlyAtFirstStart
      /\ \A s \in Session : ControlAt(s) /\ OwnRowAt(s)
  BY DEF AccountsInv
<1>2. ASSUME NEW p \in Process, pc'[p] = "insert" \/ pending'[p] # None
      PROVE  first'[p]
  <2>1. p \in Session /\ p \notin Req
    BY Names
  <2>2. CASE Unmoved(p)
    BY <1>1, <1>2, <2>2 DEF Unmoved, ConflictOnlyAtFirstStart
  <2>3. CASE Ended(p)
    BY <1>2, <2>3 DEF Ended
  <2>4. CASE Start(p)
    <3>1. pc[p] = "down" /\ pc'[p] \in {"up", "lookup"} /\ pending' = pending
      BY <1>1, <2>1, <2>4 DEF Start, TypeOK, session
    <3>2. QED
      BY <1>1, <1>2, <2>1, <3>1 DEF ControlAt
  <2>5. CASE FindAdmin(p)
    <3>1. pc[p] = "lookup" /\ pending[p] = None
      BY <1>1, <2>1, <2>5 DEF FindAdmin, ControlAt
    <3>2. ~Taken(AdminEmail) /\ first' = first
      BY <1>1, <1>2, <2>1, <2>5, <3>1
         DEF FindAdmin, Found, Taken, Continue, Close, session, TypeOK
    <3>3. QED
      BY <1>1, <2>1, <3>1, <3>2 DEF OwnRowAt
  <2>6. CASE Insert(p)
    BY <1>1, <2>6
       DEF Insert, Close, Continue, ConflictOnlyAtFirstStart
  <2>7. CASE Commit(p)
    BY <1>1, <1>2, <2>1, <2>7 DEF Commit, TypeOK
  <2>8. QED
    BY <2>1, <2>2, <2>3, <2>4, <2>5, <2>6, <2>7, StepShape DEF Advances
<1>3. QED
  BY <1>2 DEF ConflictOnlyAtFirstStart

\* Initially nothing runs.
LEMMA InvInit == Init => AccountsInv
<1>1. SUFFICES ASSUME Init PROVE AccountsInv
  OBVIOUS
<1>2. TypeOK
  BY <1>1, TypeInit
<1>3. PICK u \in SeedUsers :
         users = [x \in Id |-> IF x \in Seed THEN u[x] ELSE None]
  BY <1>1 DEF Init
<1>4. Seed \subseteq Id
  BY DEF Id
<1>5. \A x \in Id : users[x] # None => x \in Seed /\ users[x] = u[x]
  BY <1>3
<1>6. EmailsUnique
  BY <1>5, SeedAssumption DEF EmailsUnique
<1>7. TokensHaveUsers
  BY <1>1, <1>3, <1>4, SeedAssumption DEF Init, TokensHaveUsers
<1>8. ASSUME NEW s \in Session
      PROVE  ControlAt(s) /\ HeldAt(s) /\ OwnRowAt(s)
  <2>1. /\ pc[s] = IF s \in Process THEN "down" ELSE "idle"
        /\ loaded[s] = None /\ pending[s] = None
        /\ s \in Req => call[s] = None /\ s \notin Process
    BY <1>1, <1>8, Names DEF Init
  <2>2. users[s] = None
    BY <1>3, <1>5, SessionAssumption, Names
  <2>3. ControlAt(s)
    BY <1>8, <2>1, Names DEF ControlAt
  <2>4. HeldAt(s) /\ OwnRowAt(s)
    BY <1>8, <2>1, <2>2, Names DEF HeldAt, OwnRowAt
  <2>5. QED
    BY <2>3, <2>4
<1>9. ASSUME NEW r \in Req PROVE pc[r] = "idle" /\ call[r] = None
  BY <1>1, Names DEF Init
<1>10. (\A r \in Req : HistoryAt(r)) /\ AdmittedWereEntitled
  BY <1>9 DEF HistoryAt, Running, AdmittedWereEntitled
<1>11. ConflictOnlyAtFirstStart
  BY <1>1, Names DEF Init, ConflictOnlyAtFirstStart
<1>12. QED
  BY <1>2, <1>6, <1>7, <1>8, <1>10, <1>11 DEF AccountsInv

\* One step: rights come from entitled administrators or from a start.
LEMMA PrivilegeStep ==
    ASSUME AccountsInv, [Next]_vars, NEW x \in Id, users'[x] # users[x]
    PROVE  \/ /\ users[x] = None
              /\ users'[x].role = "CUSTOMER"
              /\ users'[x].is_active
           \/ \E r \in Req : /\ Commits(r)
                             /\ call[r].op \in {"create", "update"}
                             /\ entitled[r]
           \/ \E p \in Process : Commits(p) /\ users'[x].email = AdminEmail
<1>1. TypeOK
  BY DEF AccountsInv
<1>2. PICK s \in Session : Commit(s)
  BY UsersChangeByCommit
<1>3. PICK y \in Id, u \in User :
         /\ users' = [users EXCEPT ![y] = u]
         /\ \/ /\ users[y] = None
               /\ u.email = EmailOf(s)
               /\ s \in Req => call[s].op \in {"register", "create"}
               /\ s \in Req /\ call[s].op = "register"
                  => u.role = "CUSTOMER" /\ u.is_active
            \/ /\ s \in Req => call[s].op = "update"
               /\ s \in Process => u.email = AdminEmail
  BY <1>2, CommitEffect
<1>4. y = x /\ users'[x] = u
  BY <1>1, <1>3 DEF TypeOK
<1>5. Commits(s)
  BY <1>1, <1>2 DEF Commit, Commits, TypeOK
<1>6. CASE s \in Process
  BY <1>3, <1>4, <1>5, <1>6, Names DEF EmailOf
<1>7. CASE s \in Req
  <2>1. CASE call[s].op = "register"
    BY <1>3, <1>4, <1>7, <2>1
  <2>2. CASE call[s].op \in {"create", "update"}
    <3>1. pc[s] = "commit" /\ ControlAt(s)
      BY <1>2 DEF Commit, AccountsInv
    <3>2. call[s] # None
      BY <1>1, <1>7, <3>1, CallOfRequest
    <3>3. Admitted(s)
      BY <2>2, <3>1 DEF Admitted, WithToken, AdminOps
    <3>4. entitled[s]
      BY <1>7, <3>2, <3>3 DEF AccountsInv, AdmittedWereEntitled
    <3>5. QED
      BY <1>5, <1>7, <2>2, <3>4
  <2>3. QED
    BY <1>3, <1>7, <2>1, <2>2
<1>8. QED
  BY <1>6, <1>7, Names

\* One step: users change as their sessions were to change them.
LEMMA EditStep ==
    ASSUME AccountsInv, [Next]_vars, NEW x \in Id, users[x] # None,
           users'[x] # users[x]
    PROVE  \E s \in Session :
              /\ Commits(s)
              /\ loaded[s] # None
              /\ loaded[s].id = x
              /\ users'[x].role \in {users[x].role, Assigned(s).role}
              /\ users'[x].is_active \in {users[x].is_active,
                                          Assigned(s).is_active}
              /\ users'[x].role # users[x].role =>
                    users'[x].role # loaded[s].row.role
              /\ users'[x].is_active # users[x].is_active =>
                    users'[x].is_active # loaded[s].row.is_active
<1>1. TypeOK
  BY DEF AccountsInv
<1>2. PICK s \in Session : Commit(s)
  BY UsersChangeByCommit
<1>3. PICK y \in Id, u \in User :
         /\ users' = [users EXCEPT ![y] = u]
         /\ users[y] # None
            => loaded[s] # None /\ y = loaded[s].id /\ u = Updated(s, users[y])
  BY <1>2, CommitEffect
<1>4. y = x /\ users'[x] = u
  BY <1>1, <1>3 DEF TypeOK
<1>5. Commits(s) /\ pc[s] = "commit"
  BY <1>1, <1>2 DEF Commit, Commits, TypeOK
<1>6. /\ users'[x].role
            = IF Assigned(s).role \in {None, loaded[s].row.role}
              THEN users[x].role ELSE Assigned(s).role
      /\ users'[x].is_active
            = IF Assigned(s).is_active \in {None, loaded[s].row.is_active}
              THEN users[x].is_active ELSE Assigned(s).is_active
  <2>1. users[x] \in User /\ ControlAt(s)
    BY <1>1 DEF TypeOK, AccountsInv
  <2>2. QED
    BY <1>1, <1>3, <1>4, <1>5, <2>1, UpdatedType
<1>7. QED
  BY <1>3, <1>4, <1>5, <1>6

\* One step: a process that comes up has the first administrator in order.
LEMMA RestoreStep ==
    ASSUME AccountsInv, [Next]_vars, NEW p \in Process,
           pc[p] \in {"lookup", "commit"}, pc'[p] = "up"
    PROVE  \/ \E x \in Id :
                 users'[x] = [email |-> AdminEmail, role |-> "SUPER_ADMIN",
                              is_active |-> TRUE]
           \/ loaded[p] # None /\ users[loaded[p].id] # loaded[p].row
<1>1. TypeOK /\ p \in Session /\ p \notin Req /\ ControlAt(p) /\ HeldAt(p)
  BY Names DEF AccountsInv
<1>2. ASSUME NEW u \in User, u.email = AdminEmail, u.role = "SUPER_ADMIN",
             u.is_active
      PROVE  u = [email |-> AdminEmail, role |-> "SUPER_ADMIN",
                  is_active |-> TRUE]
  BY <1>2 DEF User
<1>3. FindAdmin(p) \/ Commit(p)
  <2>1. ASSUME NEW s \in Session, s # p, Step(s) \/ Fail(s)
        PROVE  pc'[p] = pc[p]
    BY <1>1, <2>1
       DEF Step, Identify, Lookup, Load, Refresh, FindAdmin, Insert, Commit,
           Fail, Close, Continue, TypeOK
  <2>2. ASSUME Fail(p) \/ Insert(p) PROVE pc'[p] # "up"
    BY <1>1, <2>2, Names
       DEF Insert, Fail, Close, Continue, Aborted, TypeOK
  <2>3. ASSUME NEW q \in Process, Start(q) \/ Crash(q)
        PROVE  pc'[p] \in {pc[p], "down"}
    <3>1. pc[p] # "down"
      OBVIOUS
    <3>2. QED
      BY <1>1, <2>3, <3>1, Names DEF Start, Crash, Aborted, TypeOK
  <2>4. ASSUME NEW r \in Req, NEW q \in Workload, NEW o \in Process,
               NEW t \in IF q.op \in WithToken THEN tokens ELSE {None},
               Receive(r, q, t, o)
        PROVE  pc'[p] = pc[p]
    BY <1>1, <2>4, Names DEF Receive, TypeOK
  <2>5. CASE Step(p)
    BY <1>1, <2>2, <2>5 DEF Step
  <2>6. CASE UNCHANGED vars
    BY <2>6 DEF vars
  <2>7. QED
    BY <2>1, <2>2, <2>3, <2>4, <2>5, <2>6 DEF Next, Quiescent
<1>4. CASE FindAdmin(p)
  <2>1. PICK x \in Found(AdminEmail) :
           users[x].role = "SUPER_ADMIN" /\ users[x].is_active /\ users' = users
    BY <1>1, <1>4 DEF FindAdmin, Continue, TypeOK
  <2>2. x \in Id /\ users[x] \in User /\ users[x].email = AdminEmail
    BY <1>1, <2>1 DEF Found, TypeOK
  <2>3. QED
    BY <1>2, <2>1, <2>2
<1>5. CASE Commit(p)
  <2>1. PICK x \in Id, u \in User :
           /\ users' = [users EXCEPT ![x] = u]
           /\ \/ u = NewUser(p)
              \/ /\ users[x] # None /\ loaded[p] # None /\ x = loaded[p].id
                 /\ u = Updated(p, users[x]) /\ u.email = AdminEmail
    BY <1>1, <1>5, CommitEffect
  <2>2. users'[x] = u
    BY <1>1, <2>1 DEF TypeOK
  <2>3. CASE u = NewUser(p)
    BY <1>1, <2>2, <2>3 DEF NewUser
  <2>4. CASE /\ users[x] # None /\ loaded[p] # None /\ x = loaded[p].id
             /\ u = Updated(p, users[x]) /\ u.email = AdminEmail
             /\ users[x] = loaded[p].row
    <3>1. /\ Assigned(p).role = "SUPER_ADMIN"
          /\ Assigned(p).is_active = TRUE
      BY DEF Assigned
    <3>2. users[x] \in User /\ pc[p] = "commit"
      BY <1>1, <1>5, <2>4 DEF TypeOK, Commit
    <3>3. /\ u.role = IF "SUPER_ADMIN" \in {None, users[x].role}
                      THEN users[x].role ELSE "SUPER_ADMIN"
          /\ u.is_active = IF TRUE \in {None, users[x].is_active}
                           THEN users[x].is_active ELSE TRUE
      BY <1>1, <2>4, <3>1, <3>2, UpdatedType
    <3>4. None # TRUE /\ None # "SUPER_ADMIN"
      BY NoneIsApart DEF Role
    <3>5. u.role = "SUPER_ADMIN"
      BY <3>3, <3>4
    <3>6. u.is_active = TRUE
      BY <3>3, <3>4
    <3>7. QED
      BY <1>2, <2>2, <2>4, <3>5, <3>6
  <2>5. QED
    BY <2>1, <2>3, <2>4
<1>6. QED
  BY <1>3, <1>4, <1>5

-----------------------------------------------------------------------------
(* The theorems.                                                           *)

\* For any requests, processes, users, tokens and calls, and however often
\* processes crash and start: the types, the control state, what sessions hold
\* and what they were entitled to are an invariant of the code's steps.
THEOREM AccountsInvariant == Spec => []AccountsInv
<1>1. Init => AccountsInv
  BY InvInit
<1>2. AccountsInv /\ [Next]_vars => AccountsInv'
  BY TypeStep, EmailsStep, ControlStep, HeldStep, OwnRowStep, TokensStep,
     HistoryStep, AdmittedStep, ConflictStep DEF AccountsInv
<1>3. QED
  BY <1>1, <1>2, PTL DEF Spec

\* All variables have their types.
THEOREM TypeCorrect == Spec => []TypeOK
<1>1. AccountsInv => TypeOK
  BY DEF AccountsInv
<1>2. QED
  BY <1>1, AccountsInvariant, PTL

\* get_current_user, RoleChecker, login and refresh admit, and issue tokens
\* for, only users who were active, and for administration SUPER_ADMINs, at
\* some moment of the request.
THEOREM AdmissionsAreEntitled == Spec => []AdmittedWereEntitled
<1>1. AccountsInv => AdmittedWereEntitled
  BY DEF AccountsInv
<1>2. QED
  BY <1>1, AccountsInvariant, PTL

\* However many processes start at once, only one that started before the
\* first administrator existed can fail because another one created him.
THEOREM ConflictsAreFirstStarts == Spec => []ConflictOnlyAtFirstStart
<1>1. AccountsInv => ConflictOnlyAtFirstStart
  BY DEF AccountsInv
<1>2. QED
  BY <1>1, AccountsInvariant, PTL

\* register never makes more than an active CUSTOMER; everything else comes
\* from an entitled SUPER_ADMIN or from the start of a process.
THEOREM PrivilegeComesFromAdmins == Spec => PrivilegeByAdminsOnly
<1>1. AccountsInv /\ [Next]_vars =>
        [\A x \in Id : users'[x] # users[x] =>
          \/ /\ users[x] = None
             /\ users'[x].role = "CUSTOMER"
             /\ users'[x].is_active
          \/ \E r \in Req : /\ Commits(r)
                            /\ call[r].op \in {"create", "update"}
                            /\ entitled[r]
          \/ \E p \in Process : Commits(p) /\ users'[x].email = AdminEmail]_vars
  BY PrivilegeStep
<1>2. QED
  BY <1>1, AccountsInvariant, PTL DEF Spec, PrivilegeByAdminsOnly

\* Whatever PATCHes of users and starts of processes race, each changes only
\* the columns it was to change.
THEOREM EditsAreIntended == Spec => OnlyIntendedEdits
<1>1. AccountsInv /\ [Next]_vars =>
        [\A x \in Id : users[x] # None /\ users'[x] # users[x] =>
          \E s \in Session :
              /\ Commits(s)
              /\ loaded[s] # None
              /\ loaded[s].id = x
              /\ users'[x].role \in {users[x].role, Assigned(s).role}
              /\ users'[x].is_active \in {users[x].is_active,
                                          Assigned(s).is_active}
              /\ users'[x].role # users[x].role =>
                    users'[x].role # loaded[s].row.role
              /\ users'[x].is_active # users[x].is_active =>
                    users'[x].is_active # loaded[s].row.is_active]_vars
  BY EditStep
<1>2. QED
  BY <1>1, AccountsInvariant, PTL DEF Spec, OnlyIntendedEdits

\* Whatever crashed before, a process that comes up leaves the first
\* administrator an active SUPER_ADMIN, unless he was changed meanwhile.
THEOREM StartsRestoreAdmin == Spec => BootstrapRestoresAdmin
<1>1. AccountsInv /\ [Next]_vars =>
        [\A p \in Process :
          pc[p] \in {"lookup", "commit"} /\ pc'[p] = "up" =>
             \/ \E x \in Id :
                   users'[x] = [email |-> AdminEmail, role |-> "SUPER_ADMIN",
                                is_active |-> TRUE]
             \/ loaded[p] # None /\ users[loaded[p].id] # loaded[p].row]_vars
  BY RestoreStep
<1>2. QED
  BY <1>1, AccountsInvariant, PTL DEF Spec, BootstrapRestoresAdmin
=============================================================================
