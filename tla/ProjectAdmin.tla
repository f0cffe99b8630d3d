----------------------------- MODULE ProjectAdmin -----------------------------
(* A project's row, edited by whoever has it on the screen (admin/projects.rs) *)
(* and its tokens, which admins make and revoke (admin/tokens.rs) and with     *)
(* which SDKs and agents enter (ingest-token).  The row and its audit change   *)
(* in one transaction; around a token the access check, the statement and the  *)
(* audit are three.                                                            *)
EXTENDS Naturals
CONSTANTS
  Editor,       \* consoles in which a superadmin edits the project
  Name,         \* what an edit may write
  Token,
  Request,      \* requests of admins about tokens
  Caller,       \* requests that carry a token
  MaxVersion,   \* bound
  None

VARIABLES
  project,   \* the row, or None
  screen,    \* Editor -> the row that its console shows, or None
  token,     \* Token -> its row, or None
  request,   \* Request -> how far it is, or None
  caller,    \* Caller -> how far it is, or None
  assigned,  \* is the admin of the requests assigned to the project
  audit      \* what the audit log says
vars == <<project, screen, token, request, caller, assigned, audit>>

Scope == {"ingest", "api"}
Exists == project # None
Said(entry) == audit' = audit \cup {entry}

Init ==
  /\ project = None
  /\ screen = [e \in Editor |-> None]
  /\ token = [t \in Token |-> None]
  /\ request = [r \in Request |-> None]
  /\ caller = [c \in Caller |-> None]
  /\ assigned = TRUE
  /\ audit = {}

-----------------------------------------------------------------------------
(* create: an id is never made again.                                         *)
Create(n) ==
  /\ audit = {} /\ ~Exists
  /\ project' = [version |-> 1, name |-> n]
  /\ Said([what |-> "project.create", version |-> 1])
  /\ UNCHANGED <<screen, token, request, caller, assigned>>

(* get: what the console shows and will send back as expectedVersion.         *)
Show(e) ==
  /\ Exists
  /\ screen' = [screen EXCEPT ![e] = project]
  /\ UNCHANGED <<project, token, request, caller, assigned, audit>>

(* An old client omits the version; a new one always sends it.                *)
Expected(e, sends) == sends => screen[e].version = project.version

(* update: the row and its audit, or project_changed and neither.             *)
Update(e, n, sends) ==
  /\ Exists /\ screen[e] # None /\ Expected(e, sends)
  /\ project.version < MaxVersion
  /\ project' = [version |-> project.version + 1, name |-> n]
  /\ Said([what |-> "project.update", version |-> project.version + 1])
  /\ screen' = [screen EXCEPT ![e] = None]
  /\ UNCHANGED <<token, request, caller, assigned>>

(* delete takes the tokens along.                                             *)
Delete(e, sends) ==
  /\ Exists /\ screen[e] # None /\ Expected(e, sends)
  /\ project' = None
  /\ token' = [t \in Token |-> None]
  /\ Said([what |-> "project.delete", version |-> project.version])
  /\ screen' = [screen EXCEPT ![e] = None]
  /\ UNCHANGED <<request, caller, assigned>>

Edit == \E e \in Editor, n \in Name, sends \in BOOLEAN :
  Create(n) \/ Show(e) \/ Update(e, n, sends) \/ Delete(e, sends)

-----------------------------------------------------------------------------
(* lookup_by_plaintext, and the row by its id.                                *)
Found(t) == token[t] # None
(* ensure_project_access; revoke reads the token's project before it. No two  *)
(* tokens are alike.                                                          *)
Check(r, what, t) ==
  /\ request[r] = None /\ assigned
  /\ request' = [request EXCEPT ![r] = [what |-> what, token |-> t, at |-> "checked"]]
  /\ UNCHANGED <<project, screen, token, caller, assigned, audit>>

AskCreate(r, t) ==
  /\ \A s \in Request : request[s] # None => request[s].token # t
  /\ Check(r, "create", t)
AskRevoke(r, t) == Found(t) /\ Check(r, "revoke", t)

(* TokenStore::create, for a project that is there.                           *)
Mint(r, scope) ==
  /\ request[r] # None /\ request[r].what = "create" /\ request[r].at = "checked"
  /\ Exists /\ token[request[r].token] = None
  /\ token' = [token EXCEPT ![request[r].token] = [scope |-> scope, revoked |-> FALSE]]
  /\ request' = [request EXCEPT ![r].at = "done"]
  /\ UNCHANGED <<project, screen, caller, assigned, audit>>

(* TokenStore::revoke: nothing to do for a token that is gone, or revoked.    *)
Revoke(r) ==
  /\ request[r] # None /\ request[r].what = "revoke" /\ request[r].at = "checked"
  /\ LET t == request[r].token IN
     token' = IF Found(t) THEN [token EXCEPT ![t].revoked = TRUE] ELSE token
  /\ request' = [request EXCEPT ![r].at = "done"]
  /\ UNCHANGED <<project, screen, caller, assigned, audit>>

(* audit::record, whose failure is only logged; then the answer.              *)
Answer(r, written) ==
  /\ request[r] # None /\ request[r].at = "done"
  /\ IF written THEN Said([what |-> request[r].what, token |-> request[r].token])
     ELSE UNCHANGED audit
  /\ request' = [request EXCEPT ![r].at = "answered"]
  /\ UNCHANGED <<project, screen, token, caller, assigned>>

(* The owner assigns the admin, or no longer does.                            *)
Assign ==
  /\ assigned' = ~assigned
  /\ UNCHANGED <<project, screen, token, request, caller, audit>>

Manage == \E r \in Request :
  \/ \E t \in Token : AskCreate(r, t) \/ AskRevoke(r, t)
  \/ \E scope \in Scope : Mint(r, scope)
  \/ Revoke(r)
  \/ \E written \in BOOLEAN : Answer(r, written)

-----------------------------------------------------------------------------
(* A request arrives with a token, for a route that needs a scope or not.     *)
(* [dead] is whether a revocation of it had been answered by then.            *)
Answered(t) == \E r \in Request :
  request[r] # None /\ request[r].at = "answered" /\ request[r].what = "revoke"
  /\ request[r].token = t
Arrive(c, t, needs) ==
  /\ caller[c] = None
  /\ caller' = [caller EXCEPT ![c] =
       [token |-> t, needs |-> needs, dead |-> Answered(t), at |-> "arrived", scope |-> None]]
  /\ UNCHANGED <<project, screen, token, request, assigned, audit>>

(* resolve_token: one read of the row, and whether it is active.              *)
Active(t) == Found(t) /\ ~token[t].revoked
Resolve(c) ==
  /\ caller[c] # None /\ caller[c].at = "arrived"
  /\ LET t == caller[c].token IN
     caller' = [caller EXCEPT ![c] =
       IF Active(t) THEN [@ EXCEPT !.at = "known", !.scope = token[t].scope]
       ELSE [@ EXCEPT !.at = "refused"]]
  /\ UNCHANGED <<project, screen, token, request, assigned, audit>>

(* require_api_scope, require_admin_token: by the scope that was read.        *)
Allowed(c) == caller[c].needs = "api" => caller[c].scope = "api"
Enter(c) ==
  /\ caller[c] # None /\ caller[c].at = "known"
  /\ caller' = [caller EXCEPT ![c].at = IF Allowed(c) THEN "inside" ELSE "refused"]
  /\ UNCHANGED <<project, screen, token, request, assigned, audit>>

Use == \E c \in Caller :
  (\E t \in Token, needs \in {"any", "api"} : Arrive(c, t, needs)) \/ Resolve(c) \/ Enter(c)

Next == Edit \/ Manage \/ Assign \/ Use
Spec == Init /\ [][Next]_vars

-----------------------------------------------------------------------------
Row == [version : Nat, name : Name]
TypeOK ==
  /\ project \in Row \cup {None}
  /\ screen \in [Editor -> Row \cup {None}]
  /\ token \in [Token -> [scope : Scope, revoked : BOOLEAN] \cup {None}]
  /\ request \in [Request -> {None} \cup
       [what : {"create", "revoke"}, token : Token, at : {"checked", "done", "answered"}]]
  /\ caller \in [Caller -> {None} \cup
       [token : Token, needs : {"any", "api"}, dead : BOOLEAN, scope : Scope \cup {None},
        at : {"arrived", "known", "inside", "refused"}]]
  /\ assigned \in BOOLEAN

(* The log tells every version of the row, and its end (audit.rs:4: "an audit *)
(* failure then rolls back both records").                                    *)
AuditTellsAll ==
  LET told(v) == [what |-> "project.update", version |-> v] \in audit IN
  /\ Exists => /\ \A v \in 2 .. project.version : told(v)
               /\ \A v \in project.version + 1 .. MaxVersion : ~told(v)
  /\ ~Exists /\ audit # {} => \E v \in 1 .. MaxVersion :
       [what |-> "project.delete", version |-> v] \in audit

(* The log says of no token that it was revoked while it still lets in.       *)
AuditIsTrue == \A t \in Token : [what |-> "revoke", token |-> t] \in audit => ~Active(t)

(* Nobody is inside with a token whose revocation had been answered before    *)
(* the request arrived, nor on an agents' route with a token out of an app    *)
(* (ingest-token/src/model.rs: "anyone who has the app has the token").       *)
RevokedStaysOut == \A c \in Caller :
  caller[c] # None /\ caller[c].at = "inside" =>
    /\ ~caller[c].dead
    /\ LET t == caller[c].token IN
       caller[c].needs = "api" /\ token[t] # None => token[t].scope = "api"

(* One version names one row: an editor that sends the version on its screen  *)
(* replaces what the screen shows, although old clients write without one     *)
(* (projects.rs:236).                                                         *)
VersionNamesRow == \A e \in Editor :
  Exists /\ screen[e] # None /\ screen[e].version = project.version => screen[e] = project
=============================================================================
