----------------------------- MODULE DeliveryLog -----------------------------
(* The log of the notifier crate (notifier/src/service.rs): one row for each  *)
(* message that was dispatched, retried by whoever found it failed or pending. *)
(* Callers run side by side; a call finds, writes, sends and marks in four    *)
(* steps, and may end between any two.                                        *)
EXTENDS Naturals, FiniteSets
CONSTANTS
  Row,        \* ids of rows
  Key,        \* dedup keys
  Caller,     \* calls of dispatch and retry_one
  MaxRetries, \* bound
  None

VARIABLES
  log,     \* Row -> what it says, or None
  call,    \* Caller -> how far it is, or None
  asked,   \* Row -> how often the transport was called for it
  took     \* Row -> how often it accepted
vars == <<log, call, asked, took>>

Idle == [c \in Caller |-> None]
Init ==
  /\ log = [r \in Row |-> None]
  /\ call = Idle
  /\ asked = [r \in Row |-> 0]
  /\ took = [r \in Row |-> 0]

Exists(r) == log[r] # None
At(c, step) == call[c] # None /\ call[c].at = step
Moves(c, r, step) == call' = [call EXCEPT ![c] = [row |-> r, at |-> step]]

-----------------------------------------------------------------------------
(* dispatch: the row, pending, unless its key has one: then that one answers. *)
Taken(key) == key # None /\ \E r \in Row : Exists(r) /\ log[r].key = key
Insert(c, r, key) ==
  /\ call[c] = None /\ ~Exists(r) /\ ~Taken(key)
  /\ log' = [log EXCEPT ![r] = [key |-> key, status |-> "pending", retries |-> 0]]
  /\ Moves(c, r, "written")
  /\ UNCHANGED <<asked, took>>
Deduplicated(c, key) ==
  /\ call[c] = None /\ Taken(key)
  /\ \E r \in Row : Exists(r) /\ log[r].key = key /\ Moves(c, r, "deduplicated")
  /\ UNCHANGED <<log, asked, took>>

(* retry_one: a row that was delivered is answered from the log.              *)
Find(c, r) ==
  /\ call[c] = None /\ Exists(r)
  /\ Moves(c, r, IF log[r].status = "delivered" THEN "delivered" ELSE "found")
  /\ UNCHANGED <<log, asked, took>>
Bump(c) ==
  /\ At(c, "found")
  /\ LET r == call[c].row IN
     /\ log[r].retries < MaxRetries
     /\ log' = [log EXCEPT ![r].retries = @ + 1, ![r].status = "pending"]
     /\ Moves(c, r, "written")
  /\ UNCHANGED <<asked, took>>

(* transport.send, and what it says.                                          *)
Send(c, accepted) ==
  /\ At(c, "written")
  /\ LET r == call[c].row IN
     /\ asked' = [asked EXCEPT ![r] = @ + 1]
     /\ took' = IF accepted THEN [took EXCEPT ![r] = @ + 1] ELSE took
     /\ Moves(c, r, IF accepted THEN "accepted" ELSE "rejected")
  /\ UNCHANGED log

(* mark_delivered, mark_failed: by id, whatever the row says by now.          *)
Mark(c) ==
  /\ At(c, "accepted") \/ At(c, "rejected")
  /\ LET status == IF At(c, "accepted") THEN "delivered" ELSE "failed" IN
     /\ log' = [log EXCEPT ![call[c].row].status = status]
     /\ Moves(c, call[c].row, status)
  /\ UNCHANGED <<asked, took>>

(* The process ends, a statement fails: the row stays as it was left.         *)
Ends == {"delivered", "failed", "deduplicated"}
Crash(c) ==
  /\ call[c] # None /\ call[c].at \notin Ends
  /\ Moves(c, call[c].row, "failed")
  /\ UNCHANGED <<log, asked, took>>

Next == \E c \in Caller :
  \/ \E key \in Key \cup {None} : Deduplicated(c, key) \/ \E r \in Row : Insert(c, r, key)
  \/ \E r \in Row : Find(c, r)
  \/ \E accepted \in BOOLEAN : Send(c, accepted)
  \/ Bump(c) \/ Mark(c) \/ Crash(c)
Spec == Init /\ [][Next]_vars

-----------------------------------------------------------------------------
Statuses == {"pending", "delivered", "failed"}
TypeOK ==
  /\ log \in [Row -> {None} \cup
       [key : Key \cup {None}, status : Statuses, retries : 0 .. MaxRetries]]
  /\ call \in [Caller -> {None} \cup
       [row : Row, at : {"written", "found", "accepted", "rejected"} \cup Ends]]
  /\ asked \in [Row -> Nat] /\ took \in [Row -> Nat]

(* A key has one row, so that its message is dispatched once (service.rs:79). *)
OneRowPerKey == \A r, s \in Row :
  Exists(r) /\ Exists(s) /\ log[r].key # None /\ log[r].key = log[s].key => r = s

(* The transport is called once for the dispatch and once for each retry that *)
(* the row counts, also when retries race one another and the dispatch.       *)
SendsAreCounted == \A r \in Row :
  asked[r] <= IF Exists(r) THEN log[r].retries + 1 ELSE 0

(* What the log or a caller calls delivered was accepted by the transport.    *)
DeliveredWasTaken ==
  /\ \A r \in Row : Exists(r) /\ log[r].status = "delivered" => took[r] > 0
  /\ \A c \in Caller : At(c, "delivered") => took[call[c].row] > 0
=============================================================================
