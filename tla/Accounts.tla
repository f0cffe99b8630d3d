------------------------------ MODULE Accounts ------------------------------
(* Accounts with passwords: logins, password changes, reset links, the         *)
(* operator's command-line reset, the owner declared by the environment, the   *)
(* admins the owner creates and deletes, and the projects they are assigned.   *)
(* Transactions of one account wait for its row; the command line has none.    *)
(*                                                                             *)
(* A password is the number of the change that set it; whoever logs in knows   *)
(* one of them, old or new.  Ids of sessions and links are never used twice.   *)
EXTENDS Naturals, FiniteSets

CONSTANTS User, Owner,   \* accounts; the one that the environment declares
          Session, Link, \* auth_sessions, password_resets
          Project, Request,
          None, Gone,    \* not yet there; deleted
          MaxPassword    \* bound: passwords of an account

VARIABLES account,   \* users: the password of each
          session,   \* auth_sessions: [user, password it was opened or kept with]
          link,      \* password_resets: [user, live]
          assigned,  \* project_assignments
          tx,        \* the transaction of each request
          shell,     \* the command line: the account it is resetting
          lastSet    \* history: passwords that a link has set

vars == <<account, session, link, assigned, tx, shell, lastSet>>

Exists(u) == account[u] \notin {None, Gone}
Live(s) == session[s] \notin {None, Gone}
Usable(l) == link[l] \notin {None, Gone} /\ link[l].live

Init ==
  /\ account = [u \in User |-> None] /\ session = [s \in Session |-> None]
  /\ link = [l \in Link |-> None] /\ assigned = {} /\ tx = [r \in Request |-> None]
  /\ shell = None /\ lastSet = [l \in Link |-> 0]

Unlocked(u) == \A r \in Request : tx[r] # None /\ tx[r].step = "locked" => tx[r].user # u
NextPassword(u) == account[u] + 1
Accepts(u) == account[u] < MaxPassword

-----------------------------------------------------------------------------
(* What needs a live session of the owner.                                    *)
Admits(s) == Live(s)
OwnerActs == \E s \in Session : Admits(s) /\ session[s].user = Owner

EnsureOwner ==
  /\ account[Owner] = None
  /\ account' = [account EXCEPT ![Owner] = 1]
  /\ UNCHANGED <<session, link, assigned, tx, shell, lastSet>>
Create(u) ==
  /\ OwnerActs /\ u # Owner /\ account[u] = None
  /\ account' = [account EXCEPT ![u] = 1]
  /\ UNCHANGED <<session, link, assigned, tx, shell, lastSet>>
Without(u) ==
  /\ session' = [s \in Session |-> IF Live(s) /\ session[s].user = u THEN Gone ELSE session[s]]
  /\ link' = [l \in Link |-> IF link[l] \notin {None, Gone} /\ link[l].user = u
                             THEN Gone ELSE link[l]]
(* Only admins; sessions, links and assignments go with the row.              *)
Delete(u) ==
  /\ OwnerActs /\ u # Owner /\ Exists(u) /\ Unlocked(u)
  /\ account' = [account EXCEPT ![u] = Gone] /\ Without(u)
  /\ assigned' = {a \in assigned : a[1] # u}
  /\ UNCHANGED <<tx, shell, lastSet>>
Assign(u, p) ==
  /\ OwnerActs /\ Exists(u) /\ assigned' = assigned \cup {<<u, p>>}
  /\ UNCHANGED <<account, session, link, tx, shell, lastSet>>
Unassign(u, p) ==
  /\ OwnerActs /\ assigned' = assigned \ {<<u, p>>}
  /\ UNCHANGED <<account, session, link, tx, shell, lastSet>>

-----------------------------------------------------------------------------
(* login: the row is locked, the password verified, then a session inserted.  *)
Verified(u, password) == account[u] = password
LoginLock(r, u, password) ==
  /\ tx[r] = None /\ Exists(u) /\ Unlocked(u) /\ Verified(u, password)
  /\ tx' = [tx EXCEPT ![r] = [step |-> "locked", kind |-> "login", user |-> u,
                             with |-> password, id |-> None]]
  /\ UNCHANGED <<account, session, link, assigned, shell, lastSet>>
LoginCommit(r, s) ==
  /\ tx[r] # None /\ tx[r].kind = "login" /\ tx[r].step = "locked" /\ session[s] = None
  /\ session' = [session EXCEPT ![s] = [user |-> tx[r].user, password |-> tx[r].with]]
  /\ tx' = [tx EXCEPT ![r] = None]
  /\ UNCHANGED <<account, link, assigned, shell, lastSet>>

(* change_password: the middleware has admitted the session; both it and the  *)
(* password are checked again under the lock.                                 *)
ChangeBegin(r, s) ==
  /\ tx[r] = None /\ Admits(s)
  /\ tx' = [tx EXCEPT ![r] = [step |-> "admitted", kind |-> "change", user |-> session[s].user,
                             with |-> None, id |-> s]]
  /\ UNCHANGED <<account, session, link, assigned, shell, lastSet>>
StillLive(r) == Live(tx[r].id)
ChangeLock(r, password) ==
  /\ tx[r] # None /\ tx[r].kind = "change" /\ tx[r].step = "admitted"
  /\ LET u == tx[r].user IN
       IF Exists(u) /\ StillLive(r) /\ Verified(u, password) /\ Accepts(u)
       THEN Unlocked(u) /\ tx' = [tx EXCEPT ![r].step = "locked"]
       ELSE tx' = [tx EXCEPT ![r] = None]
  /\ UNCHANGED <<account, session, link, assigned, shell, lastSet>>
(* The links of the account are spent, its other sessions closed.             *)
Spent(u) ==
  [l \in Link |-> IF link[l] \notin {None, Gone} /\ link[l].user = u
                  THEN [link[l] EXCEPT !.live = FALSE] ELSE link[l]]
ChangeCommit(r) ==
  /\ tx[r] # None /\ tx[r].kind = "change" /\ tx[r].step = "locked"
  /\ LET u == tx[r].user IN
       /\ account' = [account EXCEPT ![u] = NextPassword(u)]
       /\ session' = [s \in Session |->
            IF ~Live(s) \/ session[s].user # u THEN session[s]
            ELSE IF s = tx[r].id THEN [session[s] EXCEPT !.password = NextPassword(u)]
            ELSE Gone]
       /\ link' = Spent(u)
  /\ tx' = [tx EXCEPT ![r] = None]
  /\ UNCHANGED <<assigned, shell, lastSet>>

(* forgot_password mails a link; reset_password finds the account by it, and  *)
(* looks at the link again when it has the lock.                              *)
Forgot(u, l) ==
  /\ Exists(u) /\ link[l] = None
  /\ link' = [link EXCEPT ![l] = [user |-> u, live |-> TRUE]]
  /\ UNCHANGED <<account, session, assigned, tx, shell, lastSet>>
ResetFind(r, l) ==
  /\ tx[r] = None /\ Usable(l)
  /\ tx' = [tx EXCEPT ![r] = [step |-> "found", kind |-> "reset", user |-> link[l].user,
                             with |-> None, id |-> l]]
  /\ UNCHANGED <<account, session, link, assigned, shell, lastSet>>
StillUsable(r) == Usable(tx[r].id)
ResetLock(r) ==
  /\ tx[r] # None /\ tx[r].kind = "reset" /\ tx[r].step = "found"
  /\ IF Exists(tx[r].user) /\ StillUsable(r) /\ Accepts(tx[r].user)
     THEN Unlocked(tx[r].user) /\ tx' = [tx EXCEPT ![r].step = "locked"]
     ELSE tx' = [tx EXCEPT ![r] = None]
  /\ UNCHANGED <<account, session, link, assigned, shell, lastSet>>
ResetCommit(r) ==
  /\ tx[r] # None /\ tx[r].kind = "reset" /\ tx[r].step = "locked"
  /\ LET u == tx[r].user IN
       /\ account' = [account EXCEPT ![u] = NextPassword(u)]
       /\ session' = [s \in Session |-> IF Live(s) /\ session[s].user = u THEN Gone ELSE session[s]]
       /\ link' = Spent(u) /\ lastSet' = [lastSet EXCEPT ![tx[r].id] = @ + 1]
  /\ tx' = [tx EXCEPT ![r] = None] /\ UNCHANGED <<assigned, shell>>
Abort(r) ==
  /\ tx[r] # None /\ tx' = [tx EXCEPT ![r] = None]
  /\ UNCHANGED <<account, session, link, assigned, shell, lastSet>>

(* logout, or a session that is too old.                                      *)
Logout(s) ==
  /\ Live(s) /\ session' = [session EXCEPT ![s] = Gone]
  /\ UNCHANGED <<account, link, assigned, tx, shell, lastSet>>
Expire(l) ==
  /\ Usable(l) /\ \A r \in Request : ~(tx[r] # None /\ tx[r].id = l /\ tx[r].step = "locked")
  /\ link' = [link EXCEPT ![l].live = FALSE]
  /\ UNCHANGED <<account, session, assigned, tx, shell, lastSet>>

-----------------------------------------------------------------------------
(* reset-password on the command line: three statements, each on its own; it  *)
(* fails, if it fails, with an error.                                         *)
ShellUpdate(u) ==
  /\ shell = None /\ Exists(u) /\ Accepts(u) /\ Unlocked(u)
  /\ account' = [account EXCEPT ![u] = NextPassword(u)]
  /\ shell' = u
  /\ UNCHANGED <<session, link, assigned, tx, lastSet>>
Closed(u) == [s \in Session |-> IF Live(s) /\ session[s].user = u THEN Gone ELSE session[s]]
ShellDelete ==
  /\ shell # None /\ session' = Closed(shell) /\ shell' = None
  /\ UNCHANGED <<account, link, assigned, tx, lastSet>>

Next ==
  \/ EnsureOwner \/ ShellDelete
  \/ \E u \in User : Create(u) \/ Delete(u) \/ ShellUpdate(u)
  \/ \E u \in User, p \in Project : Assign(u, p) \/ Unassign(u, p)
  \/ \E r \in Request, u \in User, password \in 1..MaxPassword : LoginLock(r, u, password)
  \/ \E r \in Request, s \in Session : LoginCommit(r, s) \/ ChangeBegin(r, s)
  \/ \E r \in Request, password \in 1..MaxPassword : ChangeLock(r, password)
  \/ \E r \in Request, l \in Link : ResetFind(r, l)
  \/ \E r \in Request : ChangeCommit(r) \/ ResetLock(r) \/ ResetCommit(r) \/ Abort(r)
  \/ \E u \in User, l \in Link : Forgot(u, l)
  \/ \E l \in Link : Expire(l)
  \/ \E s \in Session : Logout(s)
Spec == Init /\ [][Next]_vars

-----------------------------------------------------------------------------
TypeOK ==
  /\ \A u \in User : Exists(u) => account[u] \in 1..MaxPassword
  /\ \A s \in Session : Live(s) => session[s].user \in User /\ session[s].password \in 1..MaxPassword
  /\ assigned \subseteq User \X Project

(* "A reset that leaves stolen sessions alive isn't a reset"                  *)
(* (bootstrap.rs:126): whatever changed a password, every session of the      *)
(* account belongs to a login with the password in force or to the change     *)
(* that set it, once the command line has finished; and a link sets at most   *)
(* one password, however many requests carry it at once (handlers/auth.rs).    *)
SessionsFollowPassword ==
  /\ \A s \in Session : Live(s) =>
       /\ Exists(session[s].user)
       /\ session[s].password = account[session[s].user] \/ shell = session[s].user
  /\ \A l \in Link : lastSet[l] <= 1
=============================================================================
