------------------------------ MODULE Accounts ------------------------------
(***************************************************************************)
(* Users, sessions and the tasks they own: UserService.Register and Login, *)
(* AuthMiddleware, and TaskService's Submit, Status and Result, over the   *)
(* users and tasks tables and the Redis sessions.                          *)
(*                                                                         *)
(* Requests run concurrently, and each of their statements is a step of    *)
(* its own.  The databases are external: login is UNIQUE, and any          *)
(* statement may fail for its caller, a write committed or not.  A session *)
(* or a task is named after the request that made it, tokens and task ids  *)
(* being random, and Redis forgets a session when its TTL has passed.      *)
(* Password hashes are abstracted to the password they match.  What        *)
(* becomes of a task's status and result is in CodeService.                *)
(***************************************************************************)
EXTENDS Naturals

CONSTANTS
    Requests,    \* HTTP requests, each made once
    Logins,
    Passwords,
    Nobody,      \* no account, no password, no user
    MayAsk       \* what each request may ask: bounds the inputs

Ask == [kind : {"register", "login"}, login : Logins, password : Passwords]
       \cup [kind : {"submit"}, token : Requests]
       \cup [kind : {"status", "result"}, token : Requests, task : Requests]

ASSUME NobodyAssumption == Nobody \notin Passwords \cup Requests \cup Ask
ASSUME MayAskAssumption == MayAsk \in [Requests -> SUBSET Ask]

VARIABLES
    account,    \* per login: the registering request (the user id) and password
    sessions,   \* per login request: the user id its session holds
    owner,      \* per submit request: the user id in its task's row
    req,        \* what each request asks
    user,       \* the user id it has found: of the login, or in its context
    step,       \* where it is
    reply       \* what it was answered

stores == <<account, sessions, owner>>
vars == <<stores, req, user, step, reply>>

TypeOK ==
    /\ account \in [Logins -> [id : Requests, password : Passwords]
                              \cup {[id |-> Nobody, password |-> Nobody]}]
    /\ sessions \in [Requests -> Requests \cup {Nobody}]
    /\ owner \in [Requests -> Requests \cup {Nobody}]
    /\ req \in [Requests -> Ask \cup {Nobody}]
    /\ \A r \in Requests : step[r] # "idle" => req[r] \in Ask
    /\ user \in [Requests -> Requests \cup {Nobody}]
    /\ \A r \in Requests : step[r] \in {"session", "submit", "status", "result"}
                           => user[r] # Nobody
    /\ step \in [Requests -> {"idle", "register", "insert", "reread", "login", "session",
                              "auth", "submit", "status", "result", "done"}]
    /\ reply \in [Requests -> {"none", "created", "conflict", "invalid", "unauthorized",
                               "error", "token", "accepted", "found", "not found"}]

Free == [id |-> Nobody, password |-> Nobody]

Init ==
    /\ account = [l \in Logins |-> Free]
    /\ sessions = [r \in Requests |-> Nobody]
    /\ owner = [r \in Requests |-> Nobody]
    /\ req = [r \in Requests |-> Nobody]
    /\ user = [r \in Requests |-> Nobody]
    /\ step = [r \in Requests |-> "idle"]
    /\ reply = [r \in Requests |-> "none"]

Goto(r, from, to) == step[r] = from /\ step' = [step EXCEPT ![r] = to]

Reply(r, from, answer) ==
    /\ Goto(r, from, "done")
    /\ reply' = [reply EXCEPT ![r] = answer]

Mine(r) == account[req[r].login]
SamePassword(r) == Mine(r).password = req[r].password

----------------------------------------------------------------------------
(* Register and Login.                                                     *)

\* A request for an account arrives; empty fields were refused before.
Enter(r, ask) ==
    /\ ask.kind \in {"register", "login"}
    /\ Goto(r, "idle", ask.kind)

\* A request arrives at the middleware.  It presents a token, and asks about a
\* task, that some client was given.
EnterGroup(r, ask) ==
    /\ ask.kind \notin {"register", "login"}
    /\ reply[ask.token] = "token"
    /\ ask.kind # "submit" => reply[ask.task] = "accepted"
    /\ Goto(r, "idle", "auth")

\* The router picks the handler.
Arrive(r) ==
    /\ \E ask \in MayAsk[r] :
          /\ Enter(r, ask) \/ EnterGroup(r, ask)
          /\ req' = [req EXCEPT ![r] = ask]
    /\ UNCHANGED <<stores, user, reply>>

\* GetUserByLogin, in Register.  A repeated registration is a success.
RegisterLookup(r) ==
    /\ step[r] = "register"
    /\ IF Mine(r) = Free
       THEN Goto(r, "register", "insert") /\ UNCHANGED reply
       ELSE Reply(r, "register", IF SamePassword(r) THEN "created" ELSE "conflict")
    /\ UNCHANGED <<stores, req, user>>

CreateAccount(r) ==
    account' = [account EXCEPT ![req[r].login] = [id |-> r, password |-> req[r].password]]

\* Mutated form of SaveUser: an upsert, as without the UNIQUE constraint.
SaveUserUpsert(r) ==
    /\ Reply(r, "insert", "created")
    /\ CreateAccount(r)
    /\ UNCHANGED <<sessions, owner, req, user>>

\* INSERT: done, refused as a duplicate, or failed, committed or not.
SaveUser(r) ==
    /\ step[r] = "insert"
    /\ \/ Mine(r) = Free /\ CreateAccount(r) /\ Reply(r, "insert", "created")
       \/ Mine(r) # Free /\ Goto(r, "insert", "reread") /\ UNCHANGED <<account, reply>>
       \/ Mine(r) = Free /\ CreateAccount(r) /\ Reply(r, "insert", "error")
    /\ UNCHANGED <<sessions, owner, req, user>>

\* Mutated form of RegisterReread: losing the race is a success.
RegisterRereadAny(r) ==
    /\ Reply(r, "reread", "created")
    /\ UNCHANGED <<stores, req, user>>

\* The registration lost a race: its password must match the winner's.
RegisterReread(r) ==
    /\ Reply(r, "reread", IF SamePassword(r) THEN "created" ELSE "conflict")
    /\ UNCHANGED <<stores, req, user>>

\* GetUserByLogin and the password comparison, in Login.
LoginLookup(r) ==
    /\ step[r] = "login"
    /\ IF SamePassword(r)
       THEN /\ Goto(r, "login", "session")
            /\ user' = [user EXCEPT ![r] = Mine(r).id]
            /\ UNCHANGED reply
       ELSE Reply(r, "login", "invalid") /\ UNCHANGED user
    /\ UNCHANGED <<stores, req>>

\* Mutated form of CreateSession: the session holds an id of its own.
CreateSessionOwn(r) ==
    /\ sessions' = [sessions EXCEPT ![r] = r]
    /\ Reply(r, "session", "token") \/ Reply(r, "session", "error")
    /\ UNCHANGED <<account, owner, req, user>>

\* SET with the TTL; the reply is the token.
CreateSession(r) ==
    /\ sessions' = [sessions EXCEPT ![r] = user[r]]
    /\ Reply(r, "session", "token") \/ Reply(r, "session", "error")
    /\ UNCHANGED <<account, owner, req, user>>

Expire(r) ==
    /\ sessions[r] # Nobody
    /\ sessions' = [sessions EXCEPT ![r] = Nobody]
    /\ UNCHANGED <<account, owner, req, user, step, reply>>

----------------------------------------------------------------------------
(* The middleware, and the handlers behind it.                             *)

\* Mutated form of Authenticate: the session is used though it was not found.
AuthenticateAny(r) ==
    /\ Goto(r, "auth", req[r].kind)
    /\ user' = [user EXCEPT ![r] = sessions[req[r].token]]
    /\ UNCHANGED <<stores, req, reply>>

\* The session of the token: its user id goes into the request's context.
GetSession(r) == sessions[req[r].token]

\* The request goes on as the user of its token, or is unauthorized, for any
\* error.  The session may expire while the request goes on.
Authenticate(r) ==
    /\ step[r] = "auth"
    /\ \/ /\ GetSession(r) # Nobody
          /\ Goto(r, "auth", req[r].kind)
          /\ user' = [user EXCEPT ![r] = GetSession(r)]
          /\ UNCHANGED reply
       \/ Reply(r, "auth", "unauthorized") /\ UNCHANGED user
    /\ UNCHANGED <<stores, req>>

\* POST /task: the row is inserted with its owner.  The answer is the id, or an
\* error although the row is there: the statement failed after its commit, or
\* Publish failed.
Submit(r) ==
    /\ owner' = [owner EXCEPT ![r] = user[r]]
    /\ Reply(r, "submit", "accepted") \/ Reply(r, "submit", "error")
    /\ UNCHANGED <<account, sessions, req, user>>

\* getOwnedTask: the row of a task, if the caller owns it.
OwnsTask(r) == owner[req[r].task] = user[r]

\* Mutated form of Status: any task that exists is answered.
StatusUnowned(r) ==
    /\ Reply(r, "status", IF owner[req[r].task] = Nobody THEN "not found" ELSE "found")
    /\ UNCHANGED <<stores, req, user>>

\* GET /status/{task_id}: a task of another user is as unknown as none.
Status(r) ==
    /\ Reply(r, "status", IF OwnsTask(r) THEN "found" ELSE "not found")
    /\ UNCHANGED <<stores, req, user>>

\* GET /result/{task_id}: the same, and a task may not have its result yet.
Result(r) ==
    /\ step[r] = "result"
    /\ \/ OwnsTask(r) /\ Reply(r, "result", "found")
       \/ Reply(r, "result", "not found")
    /\ UNCHANGED <<stores, req, user>>

\* A statement fails, or a submission is refused, without effect.
StatementFails(r) ==
    /\ \E at \in {"register", "insert", "reread", "login", "session",
                  "submit", "status", "result"} : Reply(r, at, "error")
    /\ UNCHANGED <<stores, req, user>>

Next ==
    \E r \in Requests :
        \/ Arrive(r)
        \/ RegisterLookup(r) \/ SaveUser(r) \/ RegisterReread(r)
        \/ LoginLookup(r) \/ CreateSession(r) \/ Expire(r)
        \/ Authenticate(r) \/ Submit(r) \/ Status(r) \/ Result(r)
        \/ StatementFails(r)

Spec == Init /\ [][Next]_vars

----------------------------------------------------------------------------
(* Properties.                                                             *)

\* A registration that was answered with success can log in: its password is
\* the account's, now and later.  Of two concurrent registrations of a login
\* with different passwords at most one is told it succeeded.
RegisteredCanLogin ==
    \A r \in Requests : reply[r] = "created" => SamePassword(r)

\* An account never changes hands: not by a late registration, nor by a
\* statement that failed for its caller after it was committed.
AccountIsKept == [][\A l \in Logins : account[l] # Free => account'[l] = account[l]]_vars

\* The login request behind the token of a request.
LoginOf(r) == req[req[r].token]

\* A task belongs to the login it was submitted under, through every session
\* of it: whoever is answered about it presented a token that was issued for
\* that login and its password, and whoever did is not told that it is unknown.
\* (A result may be unknown because there is none yet.)
TasksStayWithOwner ==
    \A r \in Requests :
        step[r] = "done" /\ req[r].kind \in {"status", "result"} =>
        LET same == /\ LoginOf(r).login = LoginOf(req[r].task).login
                    /\ SamePassword(req[r].token)
        IN  /\ reply[r] = "found" => same
            /\ req[r].kind = "status" /\ reply[r] = "not found" => ~same

\* Requests are answered as if each took effect at once, against passwords and
\* logins alone: the races between statements, the user ids, the sessions and
\* the rows are not to be seen from outside.
Interface == INSTANCE Directory WITH password <- [l \in Logins |-> account[l].password]
DirectorySpec == Interface!Spec
=============================================================================
