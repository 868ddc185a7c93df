------------------------------ MODULE Directory ------------------------------
(***************************************************************************)
(* What the HTTP interface promises about users and their tasks (the       *)
(* answers documented in internal/controller/handlers): every request is   *)
(* answered as if it took effect at once, against one password per login.  *)
(* There are no user ids, rows or statements here: a token stands for the  *)
(* login it was issued for, and so does the owner of a task.  A request    *)
(* may also fail, having taken effect or not.  Accounts implements this.   *)
(***************************************************************************)

CONSTANTS Requests, Logins, Passwords, Nobody, MayAsk

VARIABLES
    password,   \* per login: its password, or Nobody
    req,        \* what each request asks
    reply       \* what it was answered

Init ==
    /\ password = [l \in Logins |-> Nobody]
    /\ req = [r \in Requests |-> Nobody]
    /\ reply = [r \in Requests |-> "none"]

\* The request is under way, and asks for this.
Asks(r, kind) == req[r] # Nobody /\ reply[r] = "none" /\ req[r].kind = kind

Answer(r, answer) == reply' = [reply EXCEPT ![r] = answer]

\* A request comes in; tokens and tasks are those that were given out.
Ask(r) ==
    /\ req[r] = Nobody
    /\ \E ask \in MayAsk[r] :
          /\ ask.kind \in {"submit", "status", "result"} => reply[ask.token] = "token"
          /\ ask.kind \in {"status", "result"} => reply[ask.task] = "accepted"
          /\ req' = [req EXCEPT ![r] = ask]
    /\ UNCHANGED <<password, reply>>

\* The first registration of a login sets its password for good.
Create(r) ==
    /\ password[req[r].login] = Nobody
    /\ password' = [password EXCEPT ![req[r].login] = req[r].password]

Matches(r) == password[req[r].login] = req[r].password

Register(r) ==
    /\ Asks(r, "register")
    /\ \/ Create(r) /\ (Answer(r, "created") \/ Answer(r, "error"))
       \/ /\ password[req[r].login] # Nobody
          /\ Answer(r, IF Matches(r) THEN "created" ELSE "conflict")
          /\ UNCHANGED password
    /\ UNCHANGED req

Login(r) ==
    /\ Asks(r, "login")
    /\ Answer(r, IF Matches(r) THEN "token" ELSE "invalid")
    /\ UNCHANGED <<password, req>>

Submit(r) ==
    /\ Asks(r, "submit")
    /\ Answer(r, "accepted")
    /\ UNCHANGED <<password, req>>

\* The login that a token was issued for.
Caller(r) == req[req[r].token].login

\* A task is found by the login that submitted it, and is unknown to others.
Status(r) ==
    /\ Asks(r, "status")
    /\ Answer(r, IF Caller(r) = Caller(req[r].task) THEN "found" ELSE "not found")
    /\ UNCHANGED <<password, req>>

\* A result may be missing for its owner too.
Result(r) ==
    /\ Asks(r, "result")
    /\ \/ Caller(r) = Caller(req[r].task) /\ Answer(r, "found")
       \/ Answer(r, "not found")
    /\ UNCHANGED <<password, req>>

\* Tokens expire, and anything may fail.
Refuse(r) ==
    /\ req[r] # Nobody /\ reply[r] = "none"
    /\ \/ req[r].kind \in {"submit", "status", "result"} /\ Answer(r, "unauthorized")
       \/ Answer(r, "error")
    /\ UNCHANGED <<password, req>>

Next ==
    \E r \in Requests :
        Ask(r) \/ Register(r) \/ Login(r) \/ Submit(r) \/ Status(r) \/ Result(r) \/ Refuse(r)

Spec == Init /\ [][Next]_<<password, req, reply>>
=============================================================================
