-------------------------- MODULE AccountsProofs --------------------------
(***************************************************************************)
(* Theorems about Accounts: for any requests, logins and passwords, who    *)
(* can log in and who is answered about a task.                            *)
(***************************************************************************)
EXTENDS Accounts, TLAPS

\* An account is the registration that made it, so that a user id names one
\* login.
AccountsKnown ==
    \A l \in Logins :
        account[l] # Free =>
        LET r == account[l].id IN
        /\ r \in Requests /\ step[r] # "idle"
        /\ req[r].kind = "register" /\ req[r].login = l
        /\ account[l].password = req[r].password

\* Where a request is decides what it asked.
KindOf(r) ==
    /\ step[r] \in {"register", "insert", "reread"} \/ reply[r] = "created"
       => req[r].kind = "register"
    /\ step[r] \in {"login", "session"} \/ reply[r] = "token"
       => req[r].kind = "login"
    /\ step[r] = "auth" => req[r].kind \in {"submit", "status", "result"}
    /\ step[r] \in {"submit", "status", "result"} => req[r].kind = step[r]
    /\ reply[r] = "accepted" => req[r].kind = "submit"
    /\ reply[r] \in {"found", "not found"} => req[r].kind \in {"status", "result"}
    /\ reply[r] # "none" <=> step[r] = "done"
KindKnown == \A r \in Requests : KindOf(r)

\* The session that a login request stores is its account's.
SessionOf(r) ==
    /\ step[r] = "session" \/ reply[r] = "token" \/ sessions[r] # Nobody
       => /\ req[r].kind = "login" /\ user[r] # Nobody
          /\ Mine(r).id = user[r] /\ SamePassword(r)
    /\ sessions[r] # Nobody => step[r] = "done" /\ sessions[r] = user[r]
SessionsKnown == \A r \in Requests : SessionOf(r)

\* A request behind the middleware goes on as the account of its token's login.
ContextOf(r) ==
    step[r] # "idle" /\ req[r].kind \in {"submit", "status", "result"} =>
    /\ reply[req[r].token] = "token"
    /\ req[r].kind # "submit" => reply[req[r].task] = "accepted"
    /\ step[r] \in {"submit", "status", "result"}
       \/ reply[r] \in {"accepted", "found", "not found"}
       => user[r] = user[req[r].token]
ContextKnown == \A r \in Requests : ContextOf(r)

\* A row has the owner that submitted it, and an accepted task has its row.
OwnerOf(r) ==
    /\ owner[r] # Nobody => step[r] = "done" /\ owner[r] = user[r]
    /\ reply[r] = "accepted" => owner[r] = user[r]
OwnersKnown == \A r \in Requests : OwnerOf(r)

\* What has been answered about a task was decided by its owner.
AnswerOf(r) ==
    /\ reply[r] = "found" => user[r] = user[req[r].task]
    /\ reply[r] = "not found" /\ req[r].kind = "status" => user[r] # user[req[r].task]
AnswersKnown == \A r \in Requests : AnswerOf(r)

\* A registration that lost the race finds the account it lost to.
RaceKnown ==
    \A r \in Requests : step[r] = "reread" => Mine(r) # Free

\* A request asks nothing before it arrives.
IdleKnown == \A r \in Requests : step[r] = "idle" => req[r] = Nobody

\* The inductive invariant.
IInv ==
    /\ TypeOK
    /\ IdleKnown
    /\ AccountsKnown
    /\ KindKnown
    /\ SessionsKnown
    /\ ContextKnown
    /\ OwnersKnown
    /\ AnswersKnown
    /\ RaceKnown
    /\ RegisteredCanLogin

----------------------------------------------------------------------------

\* Nothing has happened yet.
LEMMA InitHolds == Init => IInv
  BY NobodyAssumption
     DEF Init, IInv, TypeOK, Free, IdleKnown, AccountsKnown, KindKnown, KindOf, SessionsKnown, SessionOf,
         ContextKnown, ContextOf, OwnersKnown, OwnerOf, AnswersKnown, AnswerOf,
         RaceKnown, RegisteredCanLogin

(***************************************************************************)
(* What each step does, request by request: the lemmas below use these     *)
(* facts and not the actions.                                              *)
(***************************************************************************)

\* Nothing changes of another request.
Only(r) ==
    \A q \in Requests :
        q # r => /\ step'[q] = step[q] /\ reply'[q] = reply[q]
                 /\ user'[q] = user[q] /\ req'[q] = req[q]
\* The functions stay functions.
Updates(r) ==
    /\ step' = [step EXCEPT ![r] = step'[r]] /\ reply' = [reply EXCEPT ![r] = reply'[r]]
    /\ user' = [user EXCEPT ![r] = user'[r]] /\ req' = [req EXCEPT ![r] = req'[r]]

\* Request r goes on, or ends with one of the answers.
GoesOn(r, s) == Updates(r) /\ step'[r] = s /\ reply'[r] = reply[r]
Ends(r, answers) ==
    Updates(r) /\ step'[r] = "done" /\ reply'[r] \in answers /\ user'[r] = user[r]
Unstored == UNCHANGED <<account, sessions, owner, req>>

\* The moves: a request arrives;
Asks(r) ==
    /\ step[r] = "idle"
    /\ req'[r] \in Ask
    /\ UNCHANGED <<account, sessions, owner>>
    /\ GoesOn(r, IF req'[r].kind \in {"register", "login"} THEN req'[r].kind ELSE "auth")
    /\ user'[r] = user[r]
    /\ req'[r].kind \in {"submit", "status", "result"} => reply[req'[r].token] = "token"
    /\ req'[r].kind \in {"status", "result"} => reply[req'[r].task] = "accepted"
\* finds its login free;
Finds(r) ==
    /\ step[r] = "register" /\ Unstored
    /\ Mine(r) = Free /\ GoesOn(r, "insert") /\ user'[r] = user[r]
\* finds its account made;
Confirms(r) ==
    /\ step[r] \in {"register", "reread"} /\ Unstored
    /\ SamePassword(r) /\ Ends(r, {"created"})
\* makes it;
Inserts(r) ==
    /\ step[r] = "insert" /\ UNCHANGED <<sessions, owner, req>>
    /\ Mine(r) = Free /\ CreateAccount(r) /\ Ends(r, {"created", "error"})
\* comes too late to make it;
Loses(r) ==
    /\ step[r] = "insert" /\ Unstored
    /\ Mine(r) # Free /\ GoesOn(r, "reread") /\ user'[r] = user[r]
\* has the account's password;
LogsIn(r) ==
    /\ step[r] = "login" /\ Unstored
    /\ SamePassword(r) /\ GoesOn(r, "session") /\ user'[r] = Mine(r).id
\* stores its session;
Opens(r) ==
    /\ step[r] = "session" /\ UNCHANGED <<account, owner, req>>
    /\ sessions' = [sessions EXCEPT ![r] = user[r]]
    /\ Ends(r, {"token", "error"})
\* passes the middleware;
Passes(r) ==
    /\ step[r] = "auth" /\ Unstored
    /\ GetSession(r) # Nobody /\ GoesOn(r, req[r].kind) /\ user'[r] = GetSession(r)
\* stores its task;
Submits(r) ==
    /\ step[r] = "submit" /\ UNCHANGED <<account, sessions, req>>
    /\ owner' = [owner EXCEPT ![r] = user[r]]
    /\ Ends(r, {"accepted", "error"})
\* is answered about a task;
Answers(r) ==
    /\ step[r] \in {"status", "result"} /\ Unstored
    /\ Ends(r, {"found", "not found"})
    /\ reply'[r] = "found" => OwnsTask(r)
    /\ reply'[r] = "not found" /\ step[r] = "status" => ~OwnsTask(r)
\* or ends without effect.
Fails(r) ==
    /\ step[r] \notin {"idle", "done"} /\ Unstored
    /\ Ends(r, {"conflict", "invalid", "unauthorized", "error"})

Moves(r) ==
    \/ Asks(r) \/ Finds(r) \/ Confirms(r) \/ Inserts(r) \/ Loses(r) \/ LogsIn(r)
    \/ Opens(r) \/ Expire(r) \/ Passes(r) \/ Submits(r) \/ Answers(r) \/ Fails(r)

\* A request that arrives asks something it may.
LEMMA ArriveMoves == ASSUME TypeOK, NEW r \in Requests, Arrive(r) PROVE Asks(r)
  <1>1. PICK ask \in MayAsk[r] : /\ Enter(r, ask) \/ EnterGroup(r, ask)
                                 /\ req' = [req EXCEPT ![r] = ask]
    BY DEF Arrive
  <1>2. ask \in Ask
    BY MayAskAssumption
  <1>3. req'[r] = ask
    BY <1>1, <1>2 DEF TypeOK
  <1>4. UNCHANGED <<account, sessions, owner, user, reply>>
    BY DEF Arrive, stores
  <1>5. CASE Enter(r, ask)
    <2>1. /\ step[r] = "idle" /\ step' = [step EXCEPT ![r] = ask.kind]
          /\ ask.kind \in {"register", "login"}
      BY <1>5 DEF Enter, Goto
    <2>2. GoesOn(r, ask.kind)
      BY <1>1, <1>3, <2>1, <1>4 DEF GoesOn, Updates, TypeOK
    <2> QED
      BY <2>1, <2>2, <1>2, <1>3, <1>4 DEF Asks
  <1>6. CASE EnterGroup(r, ask)
    <2>1. step[r] = "idle" /\ step' = [step EXCEPT ![r] = "auth"]
      BY <1>6 DEF EnterGroup, Goto
    <2>2. GoesOn(r, "auth")
      BY <1>1, <1>3, <2>1, <1>4 DEF GoesOn, Updates, TypeOK
    <2> QED
      BY <2>1, <2>2, <1>2, <1>3, <1>4, <1>6 DEF Asks, EnterGroup
  <1> QED
    BY <1>1, <1>5, <1>6

\* What Goto does to the request.
LEMMA GotoAt ==
    ASSUME TypeOK, NEW r \in Requests, NEW from, NEW to, Goto(r, from, to),
           UNCHANGED <<reply, req>>, user' = [user EXCEPT ![r] = user'[r]]
    PROVE  step[r] = from /\ GoesOn(r, to)
  BY DEF TypeOK, Goto, GoesOn, Updates

\* What Reply does to the request.
LEMMA ReplyAt ==
    ASSUME TypeOK, NEW r \in Requests, NEW from, NEW answer, Reply(r, from, answer),
           UNCHANGED <<user, req>>
    PROVE  step[r] = from /\ Ends(r, {answer})
  BY DEF TypeOK, Goto, Reply, Ends, Updates

\* Every step is one of the moves.
LEMMA NextMoves == TypeOK /\ Next => \E r \in Requests : Moves(r)
  <1> SUFFICES ASSUME TypeOK, Next PROVE \E r \in Requests : Moves(r)
    OBVIOUS
  <1> USE DEF stores, Unstored
  <1>1. ASSUME NEW r \in Requests, RegisterLookup(r) PROVE Moves(r)
    <2>1. CASE Mine(r) = Free
      BY <1>1, <2>1, GotoAt DEF RegisterLookup, Moves, Finds, TypeOK
    <2>2. CASE Mine(r) # Free /\ SamePassword(r)
      BY <1>1, <2>2, ReplyAt DEF RegisterLookup, Moves, Confirms
    <2>3. CASE Mine(r) # Free /\ ~SamePassword(r)
      BY <1>1, <2>3, ReplyAt DEF RegisterLookup, Moves, Fails, Ends
    <2> QED
      BY <2>1, <2>2, <2>3
  <1>2. ASSUME NEW r \in Requests, SaveUser(r) PROVE Moves(r)
    <2>1. CASE Mine(r) = Free /\ CreateAccount(r) /\ Reply(r, "insert", "created")
      BY <1>2, <2>1, ReplyAt DEF SaveUser, Moves, Inserts, Ends
    <2>2. CASE Mine(r) # Free /\ Goto(r, "insert", "reread") /\ UNCHANGED <<account, reply>>
      BY <1>2, <2>2, GotoAt DEF SaveUser, Moves, Loses, TypeOK
    <2>3. CASE Mine(r) = Free /\ CreateAccount(r) /\ Reply(r, "insert", "error")
      BY <1>2, <2>3, ReplyAt DEF SaveUser, Moves, Inserts, Ends
    <2> QED
      BY <1>2, <2>1, <2>2, <2>3 DEF SaveUser
  <1>3. ASSUME NEW r \in Requests, RegisterReread(r) PROVE Moves(r)
    <2>1. CASE SamePassword(r)
      BY <1>3, <2>1, ReplyAt DEF RegisterReread, Moves, Confirms
    <2>2. CASE ~SamePassword(r)
      BY <1>3, <2>2, ReplyAt DEF RegisterReread, Moves, Fails, Ends
    <2> QED
      BY <2>1, <2>2
  <1>4. ASSUME NEW r \in Requests, LoginLookup(r) PROVE Moves(r)
    <2>1. CASE SamePassword(r)
      BY <1>4, <2>1, GotoAt DEF LoginLookup, Moves, LogsIn, TypeOK
    <2>2. CASE ~SamePassword(r)
      BY <1>4, <2>2, ReplyAt DEF LoginLookup, Moves, Fails, Ends
    <2> QED
      BY <2>1, <2>2
  <1>5. ASSUME NEW r \in Requests, CreateSession(r) PROVE Moves(r)
    BY <1>5, ReplyAt DEF CreateSession, Moves, Opens, Ends
  <1>6. ASSUME NEW r \in Requests, Authenticate(r) PROVE Moves(r)
    <2>1. CASE /\ GetSession(r) # Nobody
               /\ Goto(r, "auth", req[r].kind)
               /\ user' = [user EXCEPT ![r] = GetSession(r)]
               /\ UNCHANGED reply
      BY <1>6, <2>1, GotoAt DEF Authenticate, Moves, Passes, TypeOK
    <2>2. CASE Reply(r, "auth", "unauthorized") /\ UNCHANGED user
      BY <1>6, <2>2, ReplyAt DEF Authenticate, Moves, Fails, Ends
    <2> QED
      BY <1>6, <2>1, <2>2 DEF Authenticate
  <1>7. ASSUME NEW r \in Requests, Submit(r) PROVE Moves(r)
    BY <1>7, ReplyAt DEF Submit, Moves, Submits, Ends
  <1>8. ASSUME NEW r \in Requests, Status(r) PROVE Moves(r)
    <2>1. CASE OwnsTask(r)
      <3>1. step[r] = "status" /\ Ends(r, {"found"}) /\ Unstored
        BY <1>8, <2>1, ReplyAt DEF Status
      <3> QED
        BY <2>1, <3>1 DEF Moves, Answers, Ends
    <2>2. CASE ~OwnsTask(r)
      <3>1. step[r] = "status" /\ Ends(r, {"not found"}) /\ Unstored
        BY <1>8, <2>2, ReplyAt DEF Status
      <3> QED
        BY <2>2, <3>1 DEF Moves, Answers, Ends
    <2> QED
      BY <2>1, <2>2
  <1>9. ASSUME NEW r \in Requests, Result(r) PROVE Moves(r)
    <2>1. CASE OwnsTask(r) /\ Reply(r, "result", "found")
      <3>1. step[r] = "result" /\ Ends(r, {"found"}) /\ Unstored
        BY <1>9, <2>1, ReplyAt DEF Result
      <3> QED
        BY <2>1, <3>1 DEF Moves, Answers, Ends
    <2>2. CASE Reply(r, "result", "not found")
      <3>1. step[r] = "result" /\ Ends(r, {"not found"}) /\ Unstored
        BY <1>9, <2>2, ReplyAt DEF Result
      <3> QED
        BY <3>1 DEF Moves, Answers, Ends
    <2> QED
      BY <1>9, <2>1, <2>2 DEF Result
  <1>10. ASSUME NEW r \in Requests, StatementFails(r) PROVE Moves(r)
    BY <1>10, ReplyAt DEF StatementFails, Moves, Fails, Ends
  <1> QED
    BY ArriveMoves, <1>1, <1>2, <1>3, <1>4, <1>5, <1>6, <1>7, <1>8, <1>9, <1>10 DEF Next, Moves

\* A move is of one request.
LEMMA MovesOnly == ASSUME TypeOK, NEW r \in Requests, Moves(r) PROVE Only(r) /\ Updates(r)
  <1>1. Updates(r)
    <2>1. CASE Expire(r)
      BY <2>1 DEF Expire, Updates, TypeOK
    <2> QED
      BY <2>1 DEF Moves, GoesOn, Ends, Asks, Finds, Confirms, Inserts, Loses, LogsIn,
              Opens, Passes, Submits, Answers, Fails
  <1>2. Only(r)
    BY <1>1 DEF Updates, Only, TypeOK
  <1> QED
    BY <1>1, <1>2

\* What a request carries, by its kind.
LEMMA AskFields ==
    ASSUME NEW ask \in Ask
    PROVE  /\ ask.kind \in {"register", "login", "submit", "status", "result"}
           /\ ask.kind \in {"register", "login"} =>
              ask.login \in Logins /\ ask.password \in Passwords
           /\ ask.kind \in {"submit", "status", "result"} => ask.token \in Requests
           /\ ask.kind \in {"status", "result"} => ask.task \in Requests
  BY DEF Ask

FieldsKnown ==
    \A q \in Requests :
        step[q] # "idle" =>
        /\ req[q].kind \in {"register", "login", "submit", "status", "result"}
        /\ req[q].kind \in {"register", "login"} =>
           req[q].login \in Logins /\ req[q].password \in Passwords
        /\ req[q].kind \in {"submit", "status", "result"} => req[q].token \in Requests
        /\ req[q].kind \in {"status", "result"} => req[q].task \in Requests

\* A request that has arrived has the fields of its kind.
LEMMA Fields == TypeOK => FieldsKnown
  BY AskFields DEF TypeOK, FieldsKnown

\* A move keeps the types if its own values have them.
LEMMA UpdatesTyped ==
    ASSUME TypeOK, NEW r \in Requests, Updates(r),
           account' \in [Logins -> [id : Requests, password : Passwords] \cup {Free}],
           sessions' \in [Requests -> Requests \cup {Nobody}],
           owner' \in [Requests -> Requests \cup {Nobody}],
           req'[r] \in Ask, user'[r] \in Requests \cup {Nobody},
           step'[r] \in {"session", "submit", "status", "result"} => user'[r] # Nobody,
           step'[r] \in {"register", "insert", "reread", "login", "session",
                         "auth", "submit", "status", "result", "done"},
           reply'[r] \in {"none", "created", "conflict", "invalid", "unauthorized",
                          "error", "token", "accepted", "found", "not found"}
    PROVE  TypeOK'
  <1>1. step' \in [Requests -> {"idle", "register", "insert", "reread", "login", "session",
                               "auth", "submit", "status", "result", "done"}]
    BY DEF TypeOK, Updates
  <1>2. reply' \in [Requests -> {"none", "created", "conflict", "invalid", "unauthorized",
                                "error", "token", "accepted", "found", "not found"}]
    BY DEF TypeOK, Updates
  <1>3. user' \in [Requests -> Requests \cup {Nobody}]
    <2>1. user \in [Requests -> Requests \cup {Nobody}]
      BY DEF TypeOK
    <2> QED
      BY <2>1 DEF Updates
  <1>4. req' \in [Requests -> Ask \cup {Nobody}]
    BY DEF TypeOK, Updates
  <1>5. \A q \in Requests : step'[q] # "idle" => req'[q] \in Ask
    BY DEF TypeOK, Updates
  <1>6. \A q \in Requests : step'[q] \in {"session", "submit", "status", "result"}
                           => user'[q] # Nobody
    BY DEF TypeOK, Updates
  <1> QED
    BY <1>1, <1>2, <1>3, <1>4, <1>5, <1>6 DEF TypeOK, Free

\* Every step keeps the types.
LEMMA TypeStep == TypeOK /\ KindKnown /\ [Next]_vars => TypeOK'
  <1> SUFFICES ASSUME TypeOK, KindKnown, [Next]_vars PROVE TypeOK'
    OBVIOUS
  <1>0. /\ account \in [Logins -> [id : Requests, password : Passwords] \cup {Free}]
        /\ sessions \in [Requests -> Requests \cup {Nobody}]
        /\ owner \in [Requests -> Requests \cup {Nobody}]
        /\ FieldsKnown
        /\ \A r \in Requests :
              /\ step[r] # "idle" => req[r] \in Ask
              /\ user[r] \in Requests \cup {Nobody}
              /\ step[r] \in {"session", "submit", "status", "result"} => user[r] # Nobody
              /\ reply[r] \in {"none", "created", "conflict", "invalid", "unauthorized",
                               "error", "token", "accepted", "found", "not found"}
    BY Fields DEF TypeOK, Free
  <1> USE <1>0, UpdatesTyped DEF GoesOn, Ends, Unstored
  <1>1. ASSUME NEW r \in Requests, Asks(r) PROVE TypeOK'
    <2>1. req'[r].kind \in {"register", "login", "submit", "status", "result"}
      BY <1>1, AskFields DEF Asks
    <2> QED
      BY <1>1, <2>1 DEF Asks
  <1>2. ASSUME NEW r \in Requests, Finds(r) PROVE TypeOK'
    BY <1>2 DEF Finds
  <1>3. ASSUME NEW r \in Requests, Confirms(r) PROVE TypeOK'
    BY <1>3 DEF Confirms
  <1>4. ASSUME NEW r \in Requests, Inserts(r) PROVE TypeOK'
    <2>1. account' \in [Logins -> [id : Requests, password : Passwords] \cup {Free}]
      BY <1>4 DEF Inserts, CreateAccount, KindKnown, KindOf, FieldsKnown
    <2> QED
      BY <1>4, <2>1 DEF Inserts
  <1>5. ASSUME NEW r \in Requests, Loses(r) PROVE TypeOK'
    BY <1>5 DEF Loses
  <1>6. ASSUME NEW r \in Requests, LogsIn(r) PROVE TypeOK'
    <2>1. Mine(r).id \in Requests
      <3>1. req[r].login \in Logins /\ req[r].password \in Passwords
        BY <1>6 DEF LogsIn, KindKnown, KindOf, FieldsKnown
      <3>2. Mine(r).password # Nobody
        BY <1>6, <3>1, NobodyAssumption DEF LogsIn, SamePassword
      <3>3. Mine(r) \in [id : Requests, password : Passwords] \cup {Free}
        BY <3>1 DEF Mine
      <3>4. Free.password = Nobody
        BY DEF Free
      <3> QED
        BY <3>2, <3>3, <3>4
    <2>2. Mine(r).id # Nobody
      BY <2>1, NobodyAssumption
    <2> QED
      BY <1>6, <2>1, <2>2 DEF LogsIn
  <1>7. ASSUME NEW r \in Requests, Opens(r) PROVE TypeOK'
    BY <1>7 DEF Opens
  <1>8. ASSUME NEW r \in Requests, Expire(r) PROVE TypeOK'
    BY <1>8 DEF Expire, TypeOK
  <1>9. ASSUME NEW r \in Requests, Passes(r) PROVE TypeOK'
    <2>1. req[r].kind \in {"submit", "status", "result"} /\ req[r].token \in Requests
      BY <1>9 DEF Passes, KindKnown, KindOf, FieldsKnown
    <2>2. GetSession(r) \in Requests \cup {Nobody}
      BY <2>1 DEF GetSession
    <2> QED
      BY <1>9, <2>1, <2>2 DEF Passes
  <1>10. ASSUME NEW r \in Requests, Submits(r) PROVE TypeOK'
    BY <1>10 DEF Submits
  <1>11. ASSUME NEW r \in Requests, Answers(r) PROVE TypeOK'
    BY <1>11 DEF Answers
  <1>12. ASSUME NEW r \in Requests, Fails(r) PROVE TypeOK'
    BY <1>12 DEF Fails
  <1>13. CASE UNCHANGED vars
    BY <1>13 DEF vars, stores, TypeOK
  <1> QED
    BY NextMoves, <1>1, <1>2, <1>3, <1>4, <1>5, <1>6,
       <1>7, <1>8, <1>9, <1>10, <1>11, <1>12, <1>13 DEF Moves

\* A request's place keeps agreeing with its question.
LEMMA KindStep == TypeOK /\ KindKnown /\ [Next]_vars => KindKnown'
  <1> SUFFICES ASSUME TypeOK, KindKnown, [Next]_vars PROVE KindKnown'
    OBVIOUS
  <1>0. ASSUME NEW r \in Requests, Only(r), KindOf(r)' PROVE KindKnown'
    <2> SUFFICES ASSUME NEW q \in Requests PROVE KindOf(q)'
      BY DEF KindKnown
    <2>1. CASE q = r
      BY <1>0, <2>1
    <2>2. CASE q # r
      <3>1. step'[q] = step[q] /\ reply'[q] = reply[q] /\ req'[q] = req[q]
        BY <1>0, <2>2 DEF Only
      <3>2. KindOf(q)
        BY DEF KindKnown
      <3> QED
        BY <3>1, <3>2 DEF KindOf
    <2> QED
      BY <2>1, <2>2
  <1> USE DEF GoesOn, Ends, Unstored, KindOf
  <1>1. ASSUME NEW r \in Requests, Asks(r), KindOf(r) PROVE KindOf(r)'
    <2>1. req'[r].kind \in {"register", "login", "submit", "status", "result"}
      BY <1>1, AskFields DEF Asks
    <2>2. reply'[r] = reply[r] /\ step[r] = "idle"
      BY <1>1 DEF Asks
    <2>3. step'[r] = IF req'[r].kind \in {"register", "login"} THEN req'[r].kind ELSE "auth"
      BY <1>1 DEF Asks
    <2>4. reply[r] = "none"
      BY <1>1, <2>2
    <2> QED
      BY <2>1, <2>2, <2>3, <2>4
  <1>2. ASSUME NEW r \in Requests, Finds(r), KindOf(r) PROVE KindOf(r)'
    BY <1>2 DEF Finds
  <1>3. ASSUME NEW r \in Requests, Confirms(r), KindOf(r) PROVE KindOf(r)'
    BY <1>3 DEF Confirms
  <1>4. ASSUME NEW r \in Requests, Inserts(r), KindOf(r) PROVE KindOf(r)'
    BY <1>4 DEF Inserts
  <1>5. ASSUME NEW r \in Requests, Loses(r), KindOf(r) PROVE KindOf(r)'
    BY <1>5 DEF Loses
  <1>6. ASSUME NEW r \in Requests, LogsIn(r), KindOf(r) PROVE KindOf(r)'
    BY <1>6 DEF LogsIn
  <1>7. ASSUME NEW r \in Requests, Opens(r), KindOf(r) PROVE KindOf(r)'
    BY <1>7 DEF Opens
  <1>8. ASSUME NEW r \in Requests, Expire(r), KindOf(r) PROVE KindOf(r)'
    BY <1>8 DEF Expire
  <1>9. ASSUME NEW r \in Requests, Passes(r), KindOf(r) PROVE KindOf(r)'
    BY <1>9 DEF Passes
  <1>10. ASSUME NEW r \in Requests, Submits(r), KindOf(r) PROVE KindOf(r)'
    BY <1>10 DEF Submits
  <1>11. ASSUME NEW r \in Requests, Answers(r), KindOf(r) PROVE KindOf(r)'
    BY <1>11 DEF Answers
  <1>12. ASSUME NEW r \in Requests, Fails(r), KindOf(r) PROVE KindOf(r)'
    BY <1>12 DEF Fails
  <1>13. CASE UNCHANGED vars
    BY <1>13 DEF vars, stores, KindKnown
  <1>14. ASSUME NEW r \in Requests, Moves(r) PROVE KindOf(r)'
    <2>1. KindOf(r)
      BY DEF KindKnown
    <2>2. \/ Asks(r) \/ Finds(r) \/ Confirms(r) \/ Inserts(r) \/ Loses(r) \/ LogsIn(r)
          \/ Opens(r) \/ Expire(r) \/ Passes(r) \/ Submits(r) \/ Answers(r) \/ Fails(r)
      BY <1>14 DEF Moves
    <2> HIDE DEF KindOf
    <2> QED
      BY <2>1, <2>2, <1>1, <1>2, <1>3, <1>4, <1>5, <1>6,
         <1>7, <1>8, <1>9, <1>10, <1>11, <1>12
  <1> QED
    BY NextMoves, MovesOnly, <1>0, <1>13, <1>14

\* An account stays that of its registration.
LEMMA AccountsStep ==
    TypeOK /\ TypeOK' /\ KindKnown /\ AccountsKnown /\ [Next]_vars => AccountsKnown'
  <1> SUFFICES ASSUME TypeOK, TypeOK', KindKnown, AccountsKnown, [Next]_vars
               PROVE  AccountsKnown'
    OBVIOUS
  <1> USE DEF Only, GoesOn, Ends, Unstored, AccountsKnown
  <1>1. ASSUME NEW r \in Requests, Asks(r), Only(r) PROVE AccountsKnown'
    <2>1. account' = account /\ step[r] = "idle" /\ step'[r] # "idle" /\ Free' = Free
      BY <1>1, AskFields DEF Asks, Free
    <2> QED
      BY <1>1, <2>1
  <1>2. ASSUME NEW r \in Requests, Finds(r), Only(r) PROVE AccountsKnown'
    BY <1>2 DEF Finds
  <1>3. ASSUME NEW r \in Requests, Confirms(r), Only(r) PROVE AccountsKnown'
    BY <1>3 DEF Confirms
  <1>4. ASSUME NEW r \in Requests, Inserts(r), Only(r) PROVE AccountsKnown'
    <2>1. /\ step[r] = "insert" /\ step'[r] = "done" /\ req' = req
          /\ req[r].kind = "register" /\ req[r].login \in Logins
      BY <1>4, Fields DEF Inserts, KindKnown, KindOf, FieldsKnown
    <2>2. account' = [account EXCEPT ![req[r].login] = [id |-> r, password |-> req[r].password]]
      BY <1>4 DEF Inserts, CreateAccount
    <2>3. account'[req[r].login] = [id |-> r, password |-> req[r].password]
      BY <2>1, <2>2 DEF TypeOK
    <2>4. \A l \in Logins : l # req[r].login => account'[l] = account[l]
      <3>1. DOMAIN account = Logins
        BY DEF TypeOK
      <3> QED
        BY <2>2, <3>1
    <2>5. Free' = Free
      BY DEF Free
    <2> QED
      BY <1>4, <2>1, <2>3, <2>4, <2>5
  <1>5. ASSUME NEW r \in Requests, Loses(r), Only(r) PROVE AccountsKnown'
    BY <1>5 DEF Loses
  <1>6. ASSUME NEW r \in Requests, LogsIn(r), Only(r) PROVE AccountsKnown'
    BY <1>6 DEF LogsIn
  <1>7. ASSUME NEW r \in Requests, Opens(r), Only(r) PROVE AccountsKnown'
    BY <1>7 DEF Opens
  <1>8. ASSUME NEW r \in Requests, Expire(r), Only(r) PROVE AccountsKnown'
    BY <1>8 DEF Expire
  <1>9. ASSUME NEW r \in Requests, Passes(r), Only(r) PROVE AccountsKnown'
    BY <1>9 DEF Passes
  <1>10. ASSUME NEW r \in Requests, Submits(r), Only(r) PROVE AccountsKnown'
    BY <1>10 DEF Submits
  <1>11. ASSUME NEW r \in Requests, Answers(r), Only(r) PROVE AccountsKnown'
    BY <1>11 DEF Answers
  <1>12. ASSUME NEW r \in Requests, Fails(r), Only(r) PROVE AccountsKnown'
    BY <1>12 DEF Fails
  <1>13. CASE UNCHANGED vars
    BY <1>13 DEF vars, stores
  <1> QED
    BY NextMoves, MovesOnly, <1>1, <1>2, <1>3, <1>4, <1>5, <1>6,
       <1>7, <1>8, <1>9, <1>10, <1>11, <1>12, <1>13 DEF Moves

\* An account is taken or has neither a user nor a password.
LEMMA Taken ==
    ASSUME TypeOK, NEW l \in Logins
    PROVE  /\ account[l] # Free => account[l].id \in Requests /\ account[l].password \in Passwords
           /\ account[l] = Free => account[l].id = Nobody /\ account[l].password = Nobody
  <1>1. account[l] \in [id : Requests, password : Passwords] \cup {Free}
    BY DEF TypeOK, Free
  <1>2. Free.id = Nobody /\ Free.password = Nobody
    BY DEF Free
  <1> QED
    BY <1>1, <1>2

\* A taken account is not changed, nor is what a request asked.
LEMMA Keeps ==
    ASSUME TypeOK, KindKnown, NEW r \in Requests, Moves(r)
    PROVE  /\ \A l \in Logins : account[l] # Free => account'[l] = account[l]
           /\ \A q \in Requests : step[q] # "idle" => req'[q] = req[q] /\ step'[q] # "idle"
           /\ \A q \in Requests : step[q] = "done" =>
                 step'[q] = "done" /\ reply'[q] = reply[q] /\ user'[q] = user[q]
  <1>1. \A l \in Logins : account[l] # Free => account'[l] = account[l]
    <2>1. CASE Inserts(r)
      BY <2>1 DEF Inserts, CreateAccount, Mine, TypeOK
    <2> QED
      BY <2>1 DEF Moves, Asks, Finds, Confirms, Loses, LogsIn, Opens, Expire, Passes,
                  Submits, Answers, Fails, Unstored
  <1>2. /\ step[r] # "idle" => req'[r] = req[r] /\ step'[r] # "idle"
        /\ step[r] = "done" => step'[r] = "done" /\ reply'[r] = reply[r] /\ user'[r] = user[r]
    <2>1. CASE Passes(r)
      BY <2>1 DEF Passes, GoesOn, Unstored, KindKnown, KindOf
    <2> QED
      BY <2>1 DEF Moves, Asks, Finds, Confirms, Inserts, Loses, LogsIn, Opens, Expire,
                  Submits, Answers, Fails, Unstored, GoesOn, Ends
  <1>3. Only(r)
    BY MovesOnly
  <1> QED
    BY <1>1, <1>2, <1>3 DEF Only

\* An account that won a race stays.
LEMMA RaceStep == TypeOK /\ KindKnown /\ RaceKnown /\ [Next]_vars => RaceKnown'
  <1> SUFFICES ASSUME TypeOK, KindKnown, RaceKnown, [Next]_vars,
                      NEW q \in Requests, step'[q] = "reread"
               PROVE  (Mine(q) # Free)'
    BY DEF RaceKnown
  <1>0. Free' = Free
    BY DEF Free
  <1>1. CASE UNCHANGED vars
    BY <1>0, <1>1 DEF vars, stores, RaceKnown, Mine
  <1>2. ASSUME NEW r \in Requests, Moves(r) PROVE (Mine(q) # Free)'
    <2>1. step[q] = "reread" \/ (q = r /\ Loses(r))
      <3>1. CASE q = r
        BY <1>2, <3>1 DEF Moves, Asks, Finds, Confirms, Inserts, LogsIn, Opens, Expire,
              Passes, Submits, Answers, Fails, GoesOn, Ends, KindKnown, KindOf
      <3>2. CASE q # r
        BY <1>2, <3>2, MovesOnly DEF Only
      <3> QED
        BY <3>1, <3>2
    <2>2. step[q] \in {"insert", "reread"} /\ Mine(q) # Free
      BY <2>1 DEF Loses, RaceKnown
    <2>3. req[q].login \in Logins
      BY <2>2, Fields DEF KindKnown, KindOf, FieldsKnown
    <2>4. account'[req[q].login] = account[req[q].login] /\ req'[q] = req[q]
      BY <1>2, <2>2, <2>3, Keeps DEF Mine
    <2> QED
      BY <1>0, <2>2, <2>4 DEF Mine
  <1> QED
    BY NextMoves, <1>1, <1>2

\* A successful registration keeps its password.
LEMMA RegisteredStep ==
    TypeOK /\ KindKnown /\ RegisteredCanLogin /\ [Next]_vars => RegisteredCanLogin'
  <1> SUFFICES ASSUME TypeOK, KindKnown, RegisteredCanLogin, [Next]_vars,
                      NEW q \in Requests, reply'[q] = "created"
               PROVE  SamePassword(q)'
    BY DEF RegisteredCanLogin
  <1>1. CASE UNCHANGED vars
    BY <1>1 DEF vars, stores, RegisteredCanLogin, SamePassword, Mine
  <1>2. ASSUME NEW r \in Requests, Moves(r) PROVE SamePassword(q)'
    <2>1. \/ reply[q] = "created"
          \/ q = r /\ (Confirms(r) \/ Inserts(r))
      <3>1. CASE q = r
        BY <1>2, <3>1 DEF Moves, Asks, Finds, Loses, LogsIn, Opens, Expire,
              Passes, Submits, Answers, Fails, GoesOn, Ends
      <3>2. CASE q # r
        BY <1>2, <3>2, MovesOnly DEF Only
      <3> QED
        BY <3>1, <3>2
    <2>2. /\ step[q] # "idle" /\ req'[q] = req[q]
          /\ req[q].login \in Logins /\ req[q].password \in Passwords
      <3>1. step[q] # "idle" /\ req[q].kind = "register"
        BY <2>1 DEF KindKnown, KindOf, Confirms, Inserts
      <3> QED
        BY <1>2, <3>1, Keeps, Fields DEF FieldsKnown
    <2>3. CASE q = r /\ Inserts(r)
      BY <2>2, <2>3 DEF Inserts, CreateAccount, SamePassword, Mine, TypeOK
    <2>4. CASE SamePassword(q)
      <3>1. account[req[q].login] # Free
        BY <2>2, <2>4, Taken, NobodyAssumption DEF SamePassword, Mine
      <3>2. account'[req[q].login] = account[req[q].login]
        BY <1>2, <2>2, <3>1, Keeps
      <3> QED
        BY <2>2, <2>4, <3>2 DEF SamePassword, Mine
    <2> QED
      BY <2>1, <2>3, <2>4 DEF RegisteredCanLogin, Confirms
  <1> QED
    BY NextMoves, <1>1, <1>2

\* A session stays its account's.
LEMMA SessionsStep == TypeOK /\ KindKnown /\ SessionsKnown /\ [Next]_vars => SessionsKnown'
  <1> SUFFICES ASSUME TypeOK, KindKnown, SessionsKnown, [Next]_vars, NEW q \in Requests
               PROVE  SessionOf(q)'
    BY DEF SessionsKnown
  <1>1. CASE UNCHANGED vars
    BY <1>1 DEF vars, stores, SessionsKnown, SessionOf, SamePassword, Mine
  <1>2. ASSUME NEW r \in Requests, Moves(r) PROVE SessionOf(q)'
    <2>0. SessionOf(q) /\ KindOf(q) /\ Only(r)
      BY <1>2, MovesOnly DEF SessionsKnown, KindKnown
    <2>1. step[q] = "session" \/ reply[q] = "token" \/ sessions[q] # Nobody =>
          /\ req'[q] = req[q]
          /\ account'[req[q].login] = account[req[q].login]
      <3> SUFFICES ASSUME step[q] = "session" \/ reply[q] = "token" \/ sessions[q] # Nobody
                   PROVE  /\ req'[q] = req[q]
                          /\ account'[req[q].login] = account[req[q].login]
        OBVIOUS
      <3>1. step[q] # "idle" /\ req[q].kind = "login" /\ Mine(q).id # Nobody
        BY <2>0 DEF SessionOf, KindOf
      <3>2. req[q].login \in Logins /\ account[req[q].login] # Free
        BY <3>1, Fields, Taken DEF FieldsKnown, Mine
      <3> QED
        BY <1>2, <3>1, <3>2, Keeps
    <2>2. sessions'[q] = sessions[q] \/ (q = r /\ (Opens(r) \/ Expire(r)))
      <3>1. CASE Opens(r)
        BY <3>1 DEF Opens, TypeOK
      <3>2. CASE Expire(r)
        BY <3>2 DEF Expire, TypeOK
      <3>3. ~Opens(r) /\ ~Expire(r) => sessions' = sessions
        BY <1>2 DEF Moves, Asks, Finds, Confirms, Inserts, Loses, LogsIn, Passes,
              Submits, Answers, Fails, Unstored
      <3> QED
        BY <3>1, <3>2, <3>3
    <2>3. CASE q # r
      BY <2>0, <2>1, <2>2, <2>3 DEF Only, SessionOf, SamePassword, Mine
    <2>4. CASE q = r /\ Opens(r)
      <3>1. sessions'[q] = user[q] /\ step'[q] = "done" /\ user'[q] = user[q]
        BY <2>4 DEF Opens, Ends, TypeOK
      <3>2. step[q] = "session"
        BY <2>4 DEF Opens
      <3> QED
        BY <2>0, <2>1, <3>1, <3>2 DEF SessionOf, SamePassword, Mine
    <2>5. CASE q = r /\ Expire(r)
      <3>1. sessions'[q] = Nobody
        BY <2>5 DEF Expire, TypeOK
      <3>2. UNCHANGED <<account, req, user, step, reply>>
        BY <2>5 DEF Expire
      <3> QED
        BY <2>0, <3>1, <3>2 DEF SessionOf, SamePassword, Mine
    <2>6. CASE q = r /\ LogsIn(r)
      <3>1. /\ req[q].kind = "login" /\ req[q].login \in Logins /\ req[q].password \in Passwords
            /\ SamePassword(q) /\ account[req[q].login] # Free
        BY <2>0, <2>6, Fields, Taken, NobodyAssumption
           DEF LogsIn, KindOf, FieldsKnown, SamePassword, Mine
      <3>2. Mine(q).id \in Requests /\ Mine(q).id # Nobody
        BY <3>1, Taken, NobodyAssumption DEF Mine
      <3>3. /\ UNCHANGED <<account, req, sessions>> /\ user'[q] = Mine(q).id
            /\ step'[q] = "session" /\ sessions[q] = Nobody
        BY <2>0, <2>6 DEF LogsIn, Unstored, GoesOn, SessionOf
      <3> QED
        BY <3>1, <3>2, <3>3 DEF SessionOf, SamePassword, Mine
    <2>7. CASE /\ q = r /\ ~Opens(r) /\ ~Expire(r) /\ ~LogsIn(r)
      <3>1. step[q] # "done" /\ sessions'[q] = Nobody
        <4>1. step[q] # "done"
          BY <1>2, <2>7 DEF Moves, Asks, Finds, Confirms, Inserts, Loses,
                Passes, Submits, Answers, Fails
        <4> QED
          BY <4>1, <2>0, <2>2, <2>7 DEF SessionOf
      <3>2. step'[q] # "session"
        BY <1>2, <2>7, <2>0 DEF Moves, Asks, Finds, Confirms, Inserts, Loses,
              Passes, Submits, Answers, Fails, GoesOn, Ends, KindOf
      <3>3. reply'[q] # "token"
        <4>1. reply[q] # "token"
          BY <2>0, <3>1 DEF KindOf
        <4> QED
          BY <1>2, <2>7, <4>1 DEF Moves, Asks, Finds, Confirms, Inserts, Loses,
                Passes, Submits, Answers, Fails, GoesOn, Ends
      <3> QED
        BY <3>1, <3>2, <3>3 DEF SessionOf
    <2> QED
      BY <2>3, <2>4, <2>5, <2>6, <2>7
  <1> QED
    BY NextMoves, <1>1, <1>2

\* The user in a request's context is that of its token.
LEMMA ContextStep ==
    TypeOK /\ KindKnown /\ SessionsKnown /\ ContextKnown /\ [Next]_vars => ContextKnown'
  <1> SUFFICES ASSUME TypeOK, KindKnown, SessionsKnown, ContextKnown, [Next]_vars,
                      NEW q \in Requests
               PROVE  ContextOf(q)'
    BY DEF ContextKnown
  <1>1. CASE UNCHANGED vars
    BY <1>1 DEF vars, stores, ContextKnown, ContextOf
  <1>2. ASSUME NEW r \in Requests, Moves(r) PROVE ContextOf(q)'
    <2>0. ContextOf(q) /\ KindOf(q) /\ Only(r)
      BY <1>2, MovesOnly DEF ContextKnown, KindKnown
    <2>1. \A p \in Requests :
             step[p] = "done" => reply'[p] = reply[p] /\ user'[p] = user[p]
      BY <1>2, Keeps
    <2>2. \A p \in Requests : reply[p] \in {"token", "accepted"} => step[p] = "done"
      BY DEF KindKnown, KindOf
    <2>3. CASE q = r /\ Asks(r)
      <3>1. req'[q] \in Ask
        BY <2>3 DEF Asks
      <3>2. /\ req'[q].kind \in {"submit", "status", "result"} =>
               req'[q].token \in Requests /\ reply[req'[q].token] = "token"
            /\ req'[q].kind \in {"status", "result"} =>
               req'[q].task \in Requests /\ reply[req'[q].task] = "accepted"
        BY <2>3, <3>1, AskFields DEF Asks
      <3>3. step[q] = "idle" /\ reply'[q] = reply[q] /\ reply[q] = "none"
        BY <2>0, <2>3 DEF Asks, GoesOn, KindOf
      <3>4. step'[q] = IF req'[q].kind \in {"register", "login"} THEN req'[q].kind ELSE "auth"
        BY <2>3 DEF Asks, GoesOn
      <3> QED
        BY <2>1, <2>2, <3>2, <3>3, <3>4 DEF ContextOf
    <2>4. ASSUME step[q] # "idle", req[q].kind \in {"submit", "status", "result"}
          PROVE  /\ req'[q] = req[q] /\ req[q].token \in Requests
                 /\ reply'[req[q].token] = "token" /\ user'[req[q].token] = user[req[q].token]
                 /\ req[q].kind # "submit" => reply'[req[q].task] = "accepted"
      <3>1. req'[q] = req[q]
        BY <1>2, <2>4, Keeps
      <3>2. /\ req[q].token \in Requests
            /\ req[q].kind # "submit" => req[q].task \in Requests
        BY <2>4, Fields DEF FieldsKnown
      <3> QED
        BY <2>0, <2>1, <2>2, <2>4, <3>1, <3>2 DEF ContextOf
    <2>5. CASE q = r /\ Passes(r)
      <3>1. step[q] = "auth" /\ req[q].kind \in {"submit", "status", "result"}
        BY <2>0, <2>5 DEF Passes, KindOf
      <3>2. user'[q] = sessions[req[q].token] /\ sessions[req[q].token] # Nobody
        BY <2>5 DEF Passes, GetSession
      <3>3. sessions[req[q].token] = user[req[q].token]
        BY <2>4, <3>1, <3>2 DEF SessionsKnown, SessionOf
      <3> QED
        BY <2>4, <3>1, <3>2, <3>3 DEF ContextOf
    <2>6. CASE ~(q = r /\ Asks(r)) /\ ~(q = r /\ Passes(r))
      <3>1. step[q] = "idle" => step'[q] = "idle"
        BY <1>2, <2>0, <2>6 DEF Only, Moves, Finds, Confirms, Inserts, Loses, LogsIn, Opens,
              Expire, Submits, Answers, Fails
      <3>2. step[q] # "idle" /\ req[q].kind \in {"submit", "status", "result"} =>
            \/ user'[q] = user[q] /\ step'[q] = step[q] /\ reply'[q] = reply[q]
            \/ /\ user'[q] = user[q] /\ step'[q] = "done"
               /\ reply'[q] \in {"accepted", "found", "not found"} =>
                  step[q] \in {"submit", "status", "result"}
        BY <1>2, <2>0, <2>6 DEF Only, Moves, Finds, Confirms, Inserts, Loses, LogsIn, Opens,
              Expire, Submits, Answers, Fails, GoesOn, Ends, KindOf
      <3>3. step[q] # "idle" => req'[q] = req[q]
        BY <1>2, Keeps
      <3> QED
        BY <2>0, <2>4, <3>1, <3>2, <3>3 DEF ContextOf
    <2> QED
      BY <2>3, <2>5, <2>6
  <1> QED
    BY NextMoves, <1>1, <1>2

\* A row keeps the owner that submitted it.
LEMMA OwnersStep == TypeOK /\ KindKnown /\ OwnersKnown /\ [Next]_vars => OwnersKnown'
  <1> SUFFICES ASSUME TypeOK, KindKnown, OwnersKnown, [Next]_vars, NEW q \in Requests
               PROVE  OwnerOf(q)'
    BY DEF OwnersKnown
  <1>1. CASE UNCHANGED vars
    BY <1>1 DEF vars, stores, OwnersKnown, OwnerOf
  <1>2. ASSUME NEW r \in Requests, Moves(r) PROVE OwnerOf(q)'
    <2>0. OwnerOf(q) /\ KindOf(q) /\ Only(r)
      BY <1>2, MovesOnly DEF OwnersKnown, KindKnown
    <2>1. CASE Submits(r)
      <3>1. owner'[r] = user[r] /\ (q # r => owner'[q] = owner[q])
        BY <2>1 DEF Submits, TypeOK
      <3> QED
        BY <2>0, <2>1, <3>1 DEF Submits, Ends, Only, OwnerOf
    <2>2. CASE ~Submits(r)
      <3>1. owner' = owner
        BY <1>2, <2>2 DEF Moves, Asks, Finds, Confirms, Inserts, Loses, LogsIn, Opens, Expire,
              Passes, Answers, Fails, Unstored
      <3>2. step[q] = "done" => step'[q] = "done" /\ user'[q] = user[q] /\ reply'[q] = reply[q]
        BY <1>2, Keeps
      <3>3. reply'[q] = "accepted" => reply[q] = "accepted"
        BY <1>2, <2>0, <2>2 DEF Only, Moves, Asks, Finds, Confirms, Inserts, Loses, LogsIn,
              Opens, Expire, Passes, Answers, Fails, GoesOn, Ends
      <3> QED
        BY <2>0, <3>1, <3>2, <3>3 DEF OwnerOf, KindOf
    <2> QED
      BY <2>1, <2>2
  <1> QED
    BY NextMoves, <1>1, <1>2

\* An answer about a task keeps its reason.
LEMMA AnswersStep ==
    TypeOK /\ KindKnown /\ ContextKnown /\ OwnersKnown /\ AnswersKnown /\ [Next]_vars
    => AnswersKnown'
  <1> SUFFICES ASSUME TypeOK, KindKnown, ContextKnown, OwnersKnown, AnswersKnown,
                      [Next]_vars, NEW q \in Requests
               PROVE  AnswerOf(q)'
    BY DEF AnswersKnown
  <1>1. CASE UNCHANGED vars
    BY <1>1 DEF vars, stores, AnswersKnown, AnswerOf
  <1>2. ASSUME NEW r \in Requests, Moves(r), reply'[q] \in {"found", "not found"}
        PROVE  AnswerOf(q)'
    <2>0. AnswerOf(q) /\ KindOf(q) /\ ContextOf(q) /\ Only(r)
      BY <1>2, MovesOnly DEF AnswersKnown, KindKnown, ContextKnown
    <2>1. \/ reply[q] = reply'[q] /\ step[q] = "done"
          \/ q = r /\ Answers(r)
      BY <1>2, <2>0 DEF Only, Moves, Asks, Finds, Confirms, Inserts, Loses, LogsIn,
            Opens, Expire, Passes, Submits, Fails, GoesOn, Ends, KindOf
    <2>2. step[q] # "idle" /\ req[q].kind \in {"status", "result"} /\ req'[q] = req[q]
      <3>1. step[q] # "idle" /\ req[q].kind \in {"status", "result"}
        BY <1>2, <2>0, <2>1 DEF KindOf, Answers
      <3> QED
        BY <1>2, <3>1, Keeps
    <2>3. req[q].task \in Requests /\ reply[req[q].task] = "accepted"
      BY <2>0, <2>2, Fields DEF ContextOf, FieldsKnown
    <2>4. /\ user'[req[q].task] = user[req[q].task]
          /\ owner[req[q].task] = user[req[q].task]
      <3>1. step[req[q].task] = "done"
        BY <2>3 DEF KindKnown, KindOf
      <3> QED
        BY <1>2, <2>3, <3>1, Keeps DEF OwnersKnown, OwnerOf
    <2>5. CASE reply[q] = reply'[q] /\ step[q] = "done"
      BY <1>2, <2>0, <2>2, <2>4, <2>5, Keeps DEF AnswerOf
    <2>6. CASE q = r /\ Answers(r)
      <3>1. user'[q] = user[q] /\ step[q] = req[q].kind
        BY <2>0, <2>6 DEF Answers, Ends, KindOf
      <3> QED
        BY <2>2, <2>4, <2>6, <3>1 DEF Answers, OwnsTask, AnswerOf
    <2> QED
      BY <2>1, <2>5, <2>6
  <1> QED
    BY NextMoves, <1>1, <1>2 DEF AnswerOf

\* No step takes a request back to where it has not arrived.
LEMMA IdleStep == TypeOK /\ KindKnown /\ IdleKnown /\ [Next]_vars => IdleKnown'
  <1> SUFFICES ASSUME TypeOK, KindKnown, IdleKnown, [Next]_vars, NEW q \in Requests,
                      step'[q] = "idle"
               PROVE  req'[q] = Nobody
    BY DEF IdleKnown
  <1>1. CASE UNCHANGED vars
    BY <1>1 DEF vars, IdleKnown
  <1>2. ASSUME NEW r \in Requests, Moves(r) PROVE req'[q] = Nobody
    <2>1. step[q] = "idle" /\ req[q] = Nobody
      BY <1>2, Keeps DEF IdleKnown
    <2>2. CASE q # r
      BY <1>2, <2>1, <2>2, MovesOnly DEF Only
    <2>3. CASE q = r
      <3>1. step'[r] = "idle" => req' = req
        BY <1>2, AskFields DEF Moves, Asks, Finds, Confirms, Inserts, Loses, LogsIn, Opens,
              Expire, Passes, Submits, Answers, Fails, GoesOn, Ends, Unstored
      <3> QED
        BY <2>1, <2>3, <3>1
    <2> QED
      BY <2>2, <2>3
  <1> QED
    BY NextMoves, <1>1, <1>2

\* The parts of the invariant are inductive together.
LEMMA StepHolds == IInv /\ [Next]_vars => IInv'
  BY TypeStep, IdleStep, KindStep, AccountsStep, RaceStep, RegisteredStep, SessionsStep,
     ContextStep, OwnersStep, AnswersStep DEF IInv

----------------------------------------------------------------------------

\* The invariant holds in every reachable state.
THEOREM Invariance == Spec => []IInv
  <1>1. Init => IInv
    BY InitHolds
  <1>2. IInv /\ [Next]_vars => IInv'
    BY StepHolds
  <1> QED
    BY <1>1, <1>2, PTL DEF Spec

\* Every request, account, session and row is of its type.
THEOREM TypeCorrect == Spec => []TypeOK
  <1>1. IInv => TypeOK
    BY DEF IInv
  <1> QED
    BY <1>1, Invariance, PTL

\* Of the concurrent registrations of a login, only those that fit the account
\* that was made are told that they succeeded.
THEOREM RegisteredCanLoginHolds == Spec => []RegisteredCanLogin
  <1>1. IInv => RegisteredCanLogin
    BY DEF IInv
  <1> QED
    BY <1>1, Invariance, PTL

\* No statement, late or repeated, changes an account that was made.
THEOREM AccountIsKeptHolds == Spec => AccountIsKept
  <1>1. IInv /\ [Next]_vars
        => [\A l \in Logins : account[l] # Free => account'[l] = account[l]]_vars
    BY NextMoves, Keeps DEF IInv
  <1> QED
    BY <1>1, Invariance, PTL DEF Spec, AccountIsKept

\* The user behind a token has the token's login and its password, and of one
\* login there is one user.
LEMMA TokenLogin ==
    ASSUME IInv, NEW p \in Requests, NEW o \in Requests, reply[p] = "token", reply[o] = "token"
    PROVE  /\ SamePassword(p) /\ SamePassword(o)
           /\ user[p] = user[o] <=> req[p].login = req[o].login
  <1>1. FieldsKnown /\ KindKnown /\ SessionsKnown /\ AccountsKnown
    BY Fields DEF IInv
  <1>2. ASSUME NEW q \in Requests, reply[q] = "token"
        PROVE  /\ SamePassword(q) /\ user[q] # Nobody /\ req[q].login \in Logins
               /\ account[req[q].login].id = user[q]
               /\ req[user[q]].login = req[q].login
    <2>1. SamePassword(q) /\ user[q] # Nobody /\ Mine(q).id = user[q] /\ req[q].kind = "login"
      BY <1>1, <1>2 DEF SessionsKnown, SessionOf
    <2>2. step[q] = "done"
      BY <1>1, <1>2 DEF KindKnown, KindOf
    <2>3. req[q].login \in Logins
      BY <1>1, <2>1, <2>2 DEF FieldsKnown
    <2>4. account[req[q].login] # Free
      BY <2>1, <2>3, Taken DEF IInv, Mine
    <2> QED
      BY <1>1, <2>1, <2>3, <2>4 DEF AccountsKnown, Mine
  <1> QED
    BY <1>2

\* A task is answered for to those, and only those, who presented a token of the
\* login it was submitted under, whichever sessions came and went.
THEOREM TasksStayWithOwnerHolds == Spec => []TasksStayWithOwner
  <1>1. ASSUME IInv, NEW r \in Requests, step[r] = "done", req[r].kind \in {"status", "result"},
               reply[r] \in {"found", "not found"}
        PROVE  LET same == /\ LoginOf(r).login = LoginOf(req[r].task).login
                           /\ SamePassword(req[r].token)
               IN  /\ reply[r] = "found" => same
                   /\ req[r].kind = "status" /\ reply[r] = "not found" => ~same
    <2> DEFINE s == req[r].task
               p == req[r].token
               o == req[s].token
    <2>1. FieldsKnown /\ KindKnown /\ SessionsKnown /\ ContextKnown /\ AccountsKnown
          /\ AnswersKnown
      BY <1>1, Fields DEF IInv
    <2>2. /\ p \in Requests /\ s \in Requests
          /\ reply[p] = "token" /\ reply[s] = "accepted" /\ user[r] = user[p]
      BY <1>1, <2>1 DEF FieldsKnown, ContextKnown, ContextOf
    <2>3. step[s] = "done" /\ req[s].kind = "submit"
      BY <2>1, <2>2 DEF KindKnown, KindOf
    <2>4. o \in Requests /\ reply[o] = "token" /\ user[s] = user[o]
      BY <2>1, <2>2, <2>3 DEF FieldsKnown, ContextKnown, ContextOf
    <2>5. /\ SamePassword(p) /\ SamePassword(o)
          /\ user[p] = user[o] <=> req[p].login = req[o].login
      BY <1>1, <2>2, <2>4, TokenLogin
    <2>6. /\ reply[r] = "found" => user[r] = user[s]
          /\ reply[r] = "not found" /\ req[r].kind = "status" => user[r] # user[s]
      BY <2>1 DEF AnswersKnown, AnswerOf
    <2> QED
      BY <2>2, <2>4, <2>5, <2>6 DEF LoginOf
  <1>2. IInv => TasksStayWithOwner
    BY <1>1 DEF TasksStayWithOwner
  <1> QED
    BY <1>2, Invariance, PTL

----------------------------------------------------------------------------
(* The requests implement Directory: which step of a request answers it,   *)
(* and that the answer is the one it has if the request takes effect then. *)

\* The passwords that Directory sees.
PasswordOf == [l \in Logins |-> account[l].password]

\* The steps that nobody outside sees.
Unseen == PasswordOf' = PasswordOf /\ UNCHANGED <<req, reply>>

\* A step that leaves the accounts alone leaves the passwords alone.
LEMMA PasswordsKept ==
    ASSUME account' = account
    PROVE  PasswordOf' = PasswordOf
  BY DEF PasswordOf

\* A login that is free has no password.
LEMMA FreeLogin ==
    ASSUME TypeOK, NEW r \in Requests, step[r] # "idle", req[r].kind \in {"register", "login"}
    PROVE  /\ req[r].login \in Logins /\ req[r].password \in Passwords
           /\ PasswordOf[req[r].login] = Mine(r).password
           /\ Mine(r) = Free <=> PasswordOf[req[r].login] = Nobody
  <1>1. req[r].login \in Logins /\ req[r].password \in Passwords
    BY Fields DEF FieldsKnown
  <1>2. PasswordOf[req[r].login] = Mine(r).password
    BY <1>1 DEF PasswordOf, Mine
  <1> QED
    BY <1>1, <1>2, Taken, NobodyAssumption DEF Mine

\* A request that is under way has arrived and was not answered.
LEMMA UnderWay ==
    ASSUME IInv, NEW r \in Requests, step[r] \notin {"idle", "done"}
    PROVE  req[r] # Nobody /\ reply[r] = "none"
  BY NobodyAssumption DEF IInv, TypeOK, KindKnown, KindOf

\* An answer is the only thing that changes for the outside.
LEMMA AnswerOnly ==
    ASSUME NEW r \in Requests, NEW from, NEW answer, Reply(r, from, answer)
    PROVE  step[r] = from /\ reply' = [reply EXCEPT ![r] = answer]
  BY DEF Reply, Goto

\* An arriving request is Ask.
LEMMA ArriveAsks ==
    ASSUME IInv, NEW r \in Requests, Arrive(r)
    PROVE  Interface!Ask(r)
  <1>1. PICK ask \in MayAsk[r] : /\ Enter(r, ask) \/ EnterGroup(r, ask)
                                 /\ req' = [req EXCEPT ![r] = ask]
    BY DEF Arrive
  <1>2. ask \in Ask
    BY MayAskAssumption
  <1>3. req[r] = Nobody
    BY <1>1 DEF IInv, IdleKnown, Enter, EnterGroup, Goto
  <1>4. /\ ask.kind \in {"submit", "status", "result"} => reply[ask.token] = "token"
        /\ ask.kind \in {"status", "result"} => reply[ask.task] = "accepted"
    BY <1>1, <1>2, AskFields DEF Enter, EnterGroup
  <1>5. PasswordOf' = PasswordOf /\ reply' = reply
    BY PasswordsKept DEF Arrive, stores
  <1> QED
    BY <1>1, <1>3, <1>4, <1>5 DEF Interface!Ask, PasswordOf

\* A registration is answered by the lookup that finds its login taken, by the
\* insertion that makes the account, or by the lookup after a lost race.
LEMMA RegistrationsRegister ==
    ASSUME IInv, NEW r \in Requests, RegisterLookup(r) \/ SaveUser(r) \/ RegisterReread(r)
    PROVE  Interface!Register(r) \/ Unseen
  <1>1. step[r] \in {"register", "insert", "reread"} /\ UNCHANGED req
    BY DEF RegisterLookup, SaveUser, RegisterReread, Reply, Goto
  <1>2. /\ req[r] # Nobody /\ reply[r] = "none" /\ req[r].kind = "register"
        /\ TypeOK
    BY <1>1, UnderWay DEF IInv, KindKnown, KindOf
  <1>3. /\ req[r].login \in Logins /\ req[r].password \in Passwords
        /\ PasswordOf[req[r].login] = Mine(r).password
        /\ Mine(r) = Free <=> PasswordOf[req[r].login] = Nobody
    BY <1>1, <1>2, FreeLogin
  <1>4. ASSUME Mine(r) # Free, account' = account,
               reply' = [reply EXCEPT ![r] = IF SamePassword(r) THEN "created" ELSE "conflict"]
        PROVE  Interface!Register(r)
    <2>1. PasswordOf' = PasswordOf
      BY <1>4, PasswordsKept
    <2>2. PasswordOf[req[r].login] # Nobody
          /\ (SamePassword(r) <=> PasswordOf[req[r].login] = req[r].password)
      BY <1>3, <1>4 DEF SamePassword
    <2> QED
      BY <1>1, <1>2, <1>4, <2>1, <2>2
         DEF Interface!Register, Interface!Asks, Interface!Answer, Interface!Matches, PasswordOf
  <1>5. ASSUME Mine(r) = Free, CreateAccount(r), NEW answer \in {"created", "error"},
               reply' = [reply EXCEPT ![r] = answer]
        PROVE  Interface!Register(r)
    <2>1. PasswordOf' = [PasswordOf EXCEPT ![req[r].login] = req[r].password]
      <3>1. ASSUME NEW l \in Logins
            PROVE  account'[l].password =
                   IF l = req[r].login THEN req[r].password ELSE account[l].password
        BY <1>2, <1>3, <1>5 DEF CreateAccount, TypeOK
      <3> QED
        BY <3>1 DEF PasswordOf
    <2> QED
      BY <1>1, <1>2, <1>3, <1>5, <2>1
         DEF Interface!Register, Interface!Asks, Interface!Answer, Interface!Create, PasswordOf
  <1>6. CASE RegisterLookup(r)
    <2>1. account' = account
      BY <1>6 DEF RegisterLookup, stores
    <2>2. CASE Mine(r) = Free
      BY <1>6, <2>1, <2>2, PasswordsKept DEF RegisterLookup, Unseen
    <2>3. CASE Mine(r) # Free
      BY <1>4, <1>6, <2>1, <2>3, AnswerOnly DEF RegisterLookup
    <2> QED
      BY <2>2, <2>3
  <1>7. CASE SaveUser(r)
    <2>1. CASE Mine(r) = Free /\ CreateAccount(r) /\ Reply(r, "insert", "created")
      BY <1>5, <2>1, AnswerOnly
    <2>2. CASE Mine(r) = Free /\ CreateAccount(r) /\ Reply(r, "insert", "error")
      BY <1>5, <2>2, AnswerOnly
    <2>3. CASE UNCHANGED <<account, reply>>
      BY <1>1, <2>3, PasswordsKept DEF Unseen
    <2> QED
      BY <1>7, <2>1, <2>2, <2>3 DEF SaveUser
  <1>8. CASE RegisterReread(r)
    <2>1. Mine(r) # Free
      BY <1>8 DEF RegisterReread, Reply, Goto, IInv, RaceKnown
    <2>2. account' = account
      BY <1>8 DEF RegisterReread, stores
    <2> QED
      BY <1>4, <1>8, <2>1, <2>2, AnswerOnly DEF RegisterReread
  <1> QED
    BY <1>6, <1>7, <1>8

\* A request that fails or is refused without effect, or with an effect that
\* nobody outside will see.
LEMMA RefusalsRefuse ==
    ASSUME IInv, NEW r \in Requests, step[r] \notin {"idle", "done"},
           account' = account, req' = req,
           \/ reply' = [reply EXCEPT ![r] = "error"]
           \/ step[r] = "auth" /\ reply' = [reply EXCEPT ![r] = "unauthorized"]
    PROVE  Interface!Refuse(r)
  <1>1. PasswordOf' = PasswordOf
    BY PasswordsKept
  <1>2. step[r] = "auth" => req[r].kind \in {"submit", "status", "result"}
    BY DEF IInv, KindKnown, KindOf
  <1> QED
    BY <1>1, <1>2, UnderWay DEF Interface!Refuse, Interface!Answer, PasswordOf

\* A login is answered by the comparison that fails or when its session is
\* stored: the password it compared is the login's still.
LEMMA LoginsLogIn ==
    ASSUME IInv, NEW r \in Requests, LoginLookup(r) \/ CreateSession(r)
    PROVE  Interface!Login(r) \/ Interface!Refuse(r) \/ Unseen
  <1>1. /\ step[r] \in {"login", "session"} /\ UNCHANGED <<account, req>>
        /\ PasswordOf' = PasswordOf
    BY PasswordsKept DEF LoginLookup, CreateSession, Reply, Goto, stores
  <1>2. req[r] # Nobody /\ reply[r] = "none" /\ req[r].kind = "login" /\ TypeOK
    BY <1>1, UnderWay DEF IInv, KindKnown, KindOf
  <1>3. PasswordOf[req[r].login] = Mine(r).password
    BY <1>1, <1>2, FreeLogin
  <1>4. ASSUME reply' = [reply EXCEPT ![r] = IF SamePassword(r) THEN "token" ELSE "invalid"]
        PROVE  Interface!Login(r)
    BY <1>1, <1>2, <1>3, <1>4
       DEF Interface!Login, Interface!Asks, Interface!Answer, Interface!Matches, PasswordOf,
           SamePassword
  <1>5. CASE LoginLookup(r)
    <2>1. CASE SamePassword(r)
      BY <1>1, <1>5, <2>1 DEF LoginLookup, Unseen
    <2>2. CASE ~SamePassword(r)
      BY <1>4, <1>5, <2>2, AnswerOnly DEF LoginLookup
    <2> QED
      BY <2>1, <2>2
  <1>6. CASE CreateSession(r)
    <2>1. SamePassword(r)
      BY <1>6 DEF CreateSession, Reply, Goto, IInv, SessionsKnown, SessionOf
    <2>2. CASE Reply(r, "session", "token")
      BY <1>4, <2>1, <2>2, AnswerOnly
    <2>3. CASE Reply(r, "session", "error")
      BY <1>1, <2>3, AnswerOnly, RefusalsRefuse
    <2> QED
      BY <1>6, <2>2, <2>3 DEF CreateSession
  <1> QED
    BY <1>5, <1>6

\* The middleware's part of a request is not seen, unless it refuses.
LEMMA MiddlewareRefuses ==
    ASSUME IInv, NEW r \in Requests, Authenticate(r)
    PROVE  Interface!Refuse(r) \/ Unseen
  <1>1. step[r] = "auth" /\ UNCHANGED <<account, req>> /\ PasswordOf' = PasswordOf
    BY PasswordsKept DEF Authenticate, stores
  <1>2. CASE UNCHANGED reply
    BY <1>1, <1>2 DEF Unseen
  <1>3. CASE Reply(r, "auth", "unauthorized")
    BY <1>1, <1>3, AnswerOnly, RefusalsRefuse
  <1> QED
    BY <1>2, <1>3 DEF Authenticate

\* A submission is answered when its row is stored.
LEMMA SubmissionsSubmit ==
    ASSUME IInv, NEW r \in Requests, Submit(r)
    PROVE  Interface!Submit(r) \/ Interface!Refuse(r)
  <1>1. /\ step[r] = "submit" /\ UNCHANGED <<account, req>>
        /\ PasswordOf' = PasswordOf
    BY PasswordsKept DEF Submit, Reply, Goto
  <1>2. req[r] # Nobody /\ reply[r] = "none" /\ req[r].kind = "submit"
    BY <1>1, UnderWay DEF IInv, KindKnown, KindOf
  <1>3. CASE Reply(r, "submit", "accepted")
    BY <1>1, <1>2, <1>3, AnswerOnly
       DEF Interface!Submit, Interface!Asks, Interface!Answer, PasswordOf
  <1>4. CASE Reply(r, "submit", "error")
    BY <1>1, <1>4, AnswerOnly, RefusalsRefuse
  <1> QED
    BY <1>3, <1>4 DEF Submit

\* The user id in a row decides as the logins do: it is the caller's exactly
\* when the caller's token was issued for the login of the submission's.
LEMMA OwnerIsCaller ==
    ASSUME IInv, NEW r \in Requests, step[r] \in {"status", "result"}
    PROVE  OwnsTask(r) <=> LoginOf(r).login = LoginOf(req[r].task).login
  <1> DEFINE s == req[r].task
             p == req[r].token
             o == req[s].token
  <1>1. FieldsKnown /\ KindKnown /\ ContextKnown /\ OwnersKnown
    BY Fields DEF IInv
  <1>2. req[r].kind = step[r]
    BY <1>1 DEF KindKnown, KindOf
  <1>3. /\ p \in Requests /\ s \in Requests
        /\ reply[p] = "token" /\ reply[s] = "accepted" /\ user[r] = user[p]
    BY <1>1, <1>2 DEF FieldsKnown, ContextKnown, ContextOf
  <1>4. step[s] = "done" /\ req[s].kind = "submit" /\ owner[s] = user[s]
    BY <1>1, <1>3 DEF KindKnown, KindOf, OwnersKnown, OwnerOf
  <1>5. o \in Requests /\ reply[o] = "token" /\ user[s] = user[o]
    BY <1>1, <1>3, <1>4 DEF FieldsKnown, ContextKnown, ContextOf
  <1>6. user[p] = user[o] <=> req[p].login = req[o].login
    BY <1>3, <1>5, TokenLogin
  <1> QED
    BY <1>3, <1>4, <1>5, <1>6 DEF OwnsTask, LoginOf

\* A question about a task is answered by the lookup of its row.
LEMMA QuestionsAreAnswered ==
    ASSUME IInv, NEW r \in Requests, Status(r) \/ Result(r)
    PROVE  Interface!Status(r) \/ Interface!Result(r)
  <1>1. step[r] \in {"status", "result"} /\ UNCHANGED <<account, req>> /\ PasswordOf' = PasswordOf
    BY PasswordsKept DEF Status, Result, Reply, Goto, stores
  <1>2. req[r] # Nobody /\ reply[r] = "none" /\ req[r].kind = step[r]
    BY <1>1, UnderWay DEF IInv, KindKnown, KindOf
  <1>3. OwnsTask(r) <=> req[req[r].token].login = req[req[req[r].task].token].login
    BY <1>1, OwnerIsCaller DEF LoginOf
  <1>4. CASE Status(r)
    <2>1. /\ step[r] = "status"
          /\ reply' = [reply EXCEPT ![r] = IF OwnsTask(r) THEN "found" ELSE "not found"]
      BY <1>4, AnswerOnly DEF Status
    <2> QED
      BY <1>1, <1>2, <1>3, <2>1
         DEF Interface!Status, Interface!Asks, Interface!Answer, Interface!Caller, PasswordOf
  <1>5. CASE Result(r)
    <2>1. step[r] = "result"
      BY <1>5 DEF Result
    <2>2. \/ OwnsTask(r) /\ reply' = [reply EXCEPT ![r] = "found"]
          \/ reply' = [reply EXCEPT ![r] = "not found"]
      BY <1>5, AnswerOnly DEF Result
    <2> QED
      BY <1>1, <1>2, <1>3, <2>1, <2>2
         DEF Interface!Result, Interface!Asks, Interface!Answer, Interface!Caller, PasswordOf
  <1> QED
    BY <1>4, <1>5

\* A statement that fails ends the request with an error.
LEMMA FailuresRefuse ==
    ASSUME IInv, NEW r \in Requests, StatementFails(r)
    PROVE  Interface!Refuse(r)
  <1>1. account' = account /\ req' = req
    BY DEF StatementFails, stores
  <1>2. PICK at \in {"register", "insert", "reread", "login", "session",
                    "submit", "status", "result"} : Reply(r, at, "error")
    BY DEF StatementFails
  <1>3. step[r] = at /\ reply' = [reply EXCEPT ![r] = "error"]
    BY <1>2, AnswerOnly
  <1> QED
    BY <1>1, <1>3, RefusalsRefuse

\* Every request is answered as if it took effect at once.
THEOREM ImplementsDirectory == Spec => DirectorySpec
  <1>1. Init => Interface!Init
    BY DEF Init, Interface!Init, Free
  <1>2. IInv /\ [Next]_vars => [Interface!Next]_<<[l \in Logins |-> account[l].password], req, reply>>
    <2> SUFFICES ASSUME IInv, [Next]_vars PROVE Interface!Next \/ Unseen
      BY DEF Unseen, PasswordOf
    <2>1. CASE UNCHANGED vars
      BY <2>1, PasswordsKept DEF vars, stores, Unseen
    <2>2. ASSUME NEW r \in Requests, Arrive(r) PROVE Interface!Next
      BY <2>2, ArriveAsks DEF Interface!Next
    <2>3. ASSUME NEW r \in Requests, RegisterLookup(r) \/ SaveUser(r) \/ RegisterReread(r)
          PROVE  Interface!Next \/ Unseen
      BY <2>3, RegistrationsRegister DEF Interface!Next
    <2>4. ASSUME NEW r \in Requests, LoginLookup(r) \/ CreateSession(r)
          PROVE  Interface!Next \/ Unseen
      BY <2>4, LoginsLogIn DEF Interface!Next
    <2>5. ASSUME NEW r \in Requests, Expire(r) PROVE Unseen
      BY <2>5, PasswordsKept DEF Expire, Unseen
    <2>6. ASSUME NEW r \in Requests, Authenticate(r) PROVE Interface!Next \/ Unseen
      BY <2>6, MiddlewareRefuses DEF Interface!Next
    <2>7. ASSUME NEW r \in Requests, Submit(r) PROVE Interface!Next
      BY <2>7, SubmissionsSubmit DEF Interface!Next
    <2>8. ASSUME NEW r \in Requests, Status(r) \/ Result(r) PROVE Interface!Next
      BY <2>8, QuestionsAreAnswered DEF Interface!Next
    <2>9. ASSUME NEW r \in Requests, StatementFails(r) PROVE Interface!Next
      BY <2>9, FailuresRefuse DEF Interface!Next
    <2> QED
      BY <2>1, <2>2, <2>3, <2>4, <2>5, <2>6, <2>7, <2>8, <2>9 DEF Next
  <1> QED
    BY <1>1, <1>2, Invariance, PTL DEF Spec, DirectorySpec, Interface!Spec

=============================================================================
