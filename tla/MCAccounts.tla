----------------------------- MODULE MCAccounts -----------------------------
(* TLC instance of Accounts: two or three registrations, two logins with   *)
(* the same or other credentials, a submission, a question about its task.  *)
EXTENDS Accounts

CONSTANTS reg1, reg2, log1, log2, sub, get, l1, l2, w1, w2

SixRequests == {reg1, reg2, log1, log2, sub, get}
Registrations == [kind : {"register"}, login : Logins, password : Passwords]
LogIns == [kind : {"login"}, login : Logins, password : Passwords]
Script ==
    [r \in SixRequests |->
        CASE r = reg1 -> {a \in Registrations : a.login = l1 /\ a.password = w1}
          [] r = reg2 -> Registrations
          [] r = log1 -> {a \in LogIns : a.login = l1}
          [] r = log2 -> LogIns \cup Registrations
          [] r = sub -> [kind : {"submit"}, token : {log1, log2}]
          [] r = get -> [kind : {"status", "result"}, token : {log1, log2}, task : {sub}]]
=============================================================================
