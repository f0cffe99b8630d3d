---------------------------- MODULE CloudIdentity ----------------------------
(* Who may come in, in the cloud edition.  A control service knows the subject *)
(* and raises its access epoch when it takes access away; the server keeps a   *)
(* user, sessions and project assignments of its own, and asks the service     *)
(* about the session's grant for each request.  Network calls are outside of   *)
(* the transactions: identities arrive late and out of order.                  *)
(*                                                                             *)
(* One subject; subjects do not share rows.  An epoch is the number of the     *)
(* control service's change.                                                   *)
EXTENDS Naturals

CONSTANTS Session,     \* auth_sessions, never used twice
          Request,     \* logins and requests, each once
          None, Gone,
          MaxEpoch     \* bound: access epochs

VARIABLES remote,      \* control service: the epoch in force
          local,       \* cloud_user_identities: the epoch last reconciled
          session,     \* auth_sessions: the epoch each was opened in
          assigned,    \* project_assignments: the epoch in which a project was assigned
          ask,         \* requests between two of their steps
          admitted     \* history: what was true of a request when it was let in

vars == <<remote, local, session, assigned, ask, admitted>>

Present(s) == session[s] \notin {None, Gone}
At(r, step) == ask[r] \notin {None, Gone} /\ ask[r].step = step

Init ==
  /\ remote = 1 /\ local = None /\ session = [s \in Session |-> None] /\ assigned = None
  /\ ask = [r \in Request |-> None] /\ admitted = {}

Revoke ==
  /\ remote < MaxEpoch /\ remote' = remote + 1
  /\ UNCHANGED <<local, session, assigned, ask, admitted>>

-----------------------------------------------------------------------------
(* complete: a ticket is exchanged for an identity and a grant; the user is   *)
(* reconciled with that identity, and the session stored, in a transaction.   *)
Exchange(r) ==
  /\ ask[r] = None
  /\ ask' = [ask EXCEPT ![r] = [step |-> "login", epoch |-> remote, id |-> None]]
  /\ UNCHANGED <<remote, local, session, assigned, admitted>>
Changed(epoch) == local # None /\ local # epoch
Reconcile(r, s) ==
  /\ At(r, "login") /\ session[s] = None
  /\ LET epoch == ask[r].epoch IN
       /\ session' = [x \in Session |-> IF x = s THEN epoch
                      ELSE IF Changed(epoch) /\ Present(x) THEN Gone ELSE session[x]]
       /\ assigned' = IF Changed(epoch) THEN None ELSE assigned
       /\ local' = epoch
  /\ ask' = [ask EXCEPT ![r] = Gone]
  /\ UNCHANGED <<remote, admitted>>

(* resolve: the session is read, the service asked, the session looked for    *)
(* again.                                                                     *)
Lookup(r, s) ==
  /\ ask[r] = None /\ Present(s)
  /\ ask' = [ask EXCEPT ![r] = [step |-> "found", epoch |-> local, id |-> s]]
  /\ UNCHANGED <<remote, local, session, assigned, admitted>>
Agrees(r) == remote = ask[r].epoch
Introspect(r) ==
  /\ At(r, "found")
  /\ ask' = [ask EXCEPT ![r] = IF Agrees(r) THEN [@ EXCEPT !.step = "known"] ELSE Gone]
  /\ UNCHANGED <<remote, local, session, assigned, admitted>>
\* Mutant: a session that went during the round trip is not missed.
NotMissed(r) == TRUE
StillPresent(r) == Present(ask[r].id)
Admit(r) ==
  /\ At(r, "known")
  /\ ask' = [ask EXCEPT ![r] = Gone]
  /\ admitted' = IF StillPresent(r)
                 THEN admitted \cup {[epoch |-> ask[r].epoch, session |-> session[ask[r].id],
                                      project |-> assigned]}
                 ELSE admitted
  /\ UNCHANGED <<remote, local, session, assigned>>
Fail(r) ==
  /\ ask[r] \notin {None, Gone} /\ ask' = [ask EXCEPT ![r] = Gone]
  /\ UNCHANGED <<remote, local, session, assigned, admitted>>

(* logout, or a session that is too old; what the owner assigns.              *)
Logout(s) ==
  /\ Present(s) /\ session' = [session EXCEPT ![s] = Gone]
  /\ UNCHANGED <<remote, local, assigned, ask, admitted>>
Assign ==
  /\ local # None /\ assigned = None /\ assigned' = local
  /\ UNCHANGED <<remote, local, session, ask, admitted>>
Unassign ==
  /\ assigned # None /\ assigned' = None
  /\ UNCHANGED <<remote, local, session, ask, admitted>>

Next ==
  \/ Revoke \/ Assign \/ Unassign
  \/ \E r \in Request : Exchange(r) \/ Introspect(r) \/ Admit(r) \/ Fail(r)
  \/ \E r \in Request, s \in Session : Reconcile(r, s) \/ Lookup(r, s)
  \/ \E s \in Session : Logout(s)
Spec == Init /\ [][Next]_vars

-----------------------------------------------------------------------------
TypeOK ==
  /\ remote \in 1..MaxEpoch /\ local \in 1..MaxEpoch \cup {None}
  /\ \A s \in Session : session[s] \in 1..MaxEpoch \cup {None, Gone}
  /\ assigned \in 1..MaxEpoch \cup {None}

(* Whatever logins and revocations cross a request on its way, and in         *)
(* whatever order identities arrive, a request that is let in holds a session *)
(* that was opened in the epoch the service has just confirmed, and finds no  *)
(* project that was assigned in another one (cloud.rs:485-579).               *)
AdmittedIsCurrent ==
  \A a \in admitted : a.session = a.epoch /\ a.project \in {None, a.epoch}
=============================================================================
