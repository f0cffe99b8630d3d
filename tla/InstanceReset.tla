--------------------------- MODULE InstanceReset ---------------------------
(* The offline reset of an instance (snapshot/src/reset.rs): a permit of the   *)
(* owner, a verified archive and a journal outside of the instance, one        *)
(* transaction that clears the rows and fences the instance, and the removal   *)
(* of the blobs before the fence is lifted.  Servers and the operator's tools  *)
(* exclude each other by an advisory lock that lives as long as a connection:  *)
(* a process whose connection died goes on for a while without the lock.       *)
EXTENDS Naturals, FiniteSets
CONSTANTS
  Item,          \* uploads: a row and the blob of that content
  Server, Tool,  \* processes of the server, of sentori-operator
  MaxAttempts, MaxPassword,  \* bounds: resets that are begun, passwords
  None

VARIABLES
  generation, pending,   \* instance_settings
  rows, password, session, permit,
  cleared, completed,    \* audit_logs: generations, attempts
  blobs, archive, journal, receipt,    \* files of the instance, of the operator
  server, tool,
  attempts, acked, torn  \* ghosts: what clients were told is stored, and what
                         \* a tool without its lock removed
vars == <<generation, pending, rows, password, session, permit, cleared, completed,
          blobs, archive, journal, receipt, server, tool, attempts, acked, torn>>
database == <<generation, pending, rows, password, session, permit, cleared, completed>>
files == <<blobs, archive, journal, receipt>>
ghosts == <<attempts, acked, torn>>

Attempt == 1..MaxAttempts
Off == [state |-> "off", generation |-> 0, item |-> None]
Idle == [at |-> "off", attempt |-> 0, holds |-> FALSE, left |-> {}]
Init ==
  /\ generation = 1 /\ pending = None /\ rows = {}
  /\ password = 1 /\ session = FALSE /\ permit = None
  /\ cleared = {} /\ completed = {}
  /\ blobs = {} /\ archive = [a \in Attempt |-> None] /\ journal = {} /\ receipt = {}
  /\ server = [s \in Server |-> Off] /\ tool = [t \in Tool |-> Idle]
  /\ attempts = [a \in Attempt |-> 0] /\ acked = {} /\ torn = {}

-----------------------------------------------------------------------------
(* The lock INSTANCE_SERVER_LOCK and the locks of the reset's transaction.    *)
Shared == \E s \in Server : server[s].state \in {"guarded", "running"}
Exclusive == \E t \in Tool : tool[t].holds
InReset(t) == tool[t].holds /\ tool[t].at \in {"locked", "captured", "journaled"}
TablesLocked == \E t \in Tool : InReset(t)
Writing == \E s \in Server : server[s].item # None

(* main: shared_guard, then ensure_available.                                 *)
Guard(s) ==
  /\ server[s].state = "off" /\ ~Exclusive
  /\ server' = [server EXCEPT ![s].state = "guarded"]
  /\ UNCHANGED <<database, files, tool, ghosts>>
Available == pending = None
Boot(s) ==
  /\ server[s].state = "guarded"
  /\ IF Available
     THEN server' = [server EXCEPT ![s].state = "running", ![s].generation = generation]
     ELSE server' = [server EXCEPT ![s] = Off]
  /\ UNCHANGED <<database, files, tool, ghosts>>
(* main looks at its connection every ten seconds: until then a server        *)
(* without the lock serves.                                                   *)
LoseGuard(s) ==
  /\ server[s].state = "running" /\ server' = [server EXCEPT ![s].state = "lost"]
  /\ UNCHANGED <<database, files, tool, ghosts>>
StopServer(s) ==
  /\ server[s].state # "off" /\ server' = [server EXCEPT ![s] = Off]
  /\ UNCHANGED <<database, files, tool, ghosts>>

Serving(s) == server[s].state \in {"running", "lost"}
(* An upload: the blob, then the row, in one transaction.  The transaction    *)
(* waits for the locks of a reset, and its row refers to a project.           *)
WriteBlob(s, i) ==
  /\ Serving(s) /\ server[s].item = None /\ ~TablesLocked
  /\ server' = [server EXCEPT ![s].item = i] /\ blobs' = blobs \cup {i}
  /\ UNCHANGED <<database, archive, journal, receipt, tool, ghosts>>
CommitRow(s) ==
  /\ Serving(s) /\ server[s].item # None /\ server[s].generation = generation
  /\ rows' = rows \cup {server[s].item}
  /\ acked' = acked \cup {<<generation, server[s].item>>}
  /\ server' = [server EXCEPT ![s].item = None]
  /\ UNCHANGED <<generation, pending, password, session, permit, cleared, completed, files,
                 tool, attempts, torn>>
NoProject(s) ==
  /\ Serving(s) /\ server[s].item # None /\ server[s].generation # generation
  /\ server' = [server EXCEPT ![s].item = None]
  /\ UNCHANGED <<database, files, tool, ghosts>>

-----------------------------------------------------------------------------
(* The owner: signs in, changes the password (which ends the session), and    *)
(* prepares a reset.  A reset deletes the account; the next server makes it   *)
(* again.                                                                     *)
Answers == \E s \in Server : Serving(s) /\ ~TablesLocked
SignIn ==
  /\ Answers /\ ~session /\ session' = TRUE
  /\ UNCHANGED <<generation, pending, rows, password, permit, cleared, completed, files,
                 server, tool, ghosts>>
SetPassword ==
  /\ Answers /\ password < MaxPassword /\ password' = password + 1
  /\ session' = FALSE /\ permit' = None
  /\ UNCHANGED <<generation, pending, rows, cleared, completed, files, server, tool, ghosts>>
Prepare ==
  /\ Answers /\ session /\ pending = None
  /\ permit' = [generation |-> generation, password |-> password]
  /\ UNCHANGED <<generation, pending, rows, password, session, cleared, completed, files,
                 server, tool, ghosts>>
PermitExpires ==
  /\ permit # None /\ permit' = None
  /\ UNCHANGED <<generation, pending, rows, password, session, cleared, completed, files,
                 server, tool, ghosts>>

-----------------------------------------------------------------------------
(* reset.                                                                     *)
At(t, at) == tool[t].at = at
Go(t, at) == tool' = [tool EXCEPT ![t].at = at]
Permitted ==
  /\ permit # None /\ session
  /\ permit.generation = generation /\ permit.password = password
OfflineGuard(t) == At(t, "off") /\ ~Shared /\ ~Exclusive
BeginReset(t) ==
  /\ OfflineGuard(t) /\ Available /\ Permitted
  /\ \E a \in Attempt :
       /\ attempts[a] = 0 /\ \A b \in Attempt : b < a => attempts[b] # 0
       /\ attempts' = [attempts EXCEPT ![a] = generation]
       /\ tool' = [tool EXCEPT ![t] = [at |-> "begun", attempt |-> a, holds |-> TRUE, left |-> {}]]
  /\ UNCHANGED <<database, files, server, acked, torn>>
NoWait == TRUE       \* a bug: the tables are not locked before the backup
NobodyWrites == ~Writing
LockTables(t) ==
  /\ At(t, "begun") /\ tool[t].holds /\ NobodyWrites /\ Go(t, "locked")
  /\ UNCHANGED <<database, files, server, ghosts>>
(* capture_for_reset: every referenced blob is read, and the archive verified. *)
Capture(t) ==
  /\ At(t, "locked") /\ rows \subseteq blobs
  /\ archive' = [archive EXCEPT ![tool[t].attempt] = rows] /\ Go(t, "captured")
  /\ UNCHANGED <<database, blobs, journal, receipt, server, ghosts>>
PersistJournal(t) ==
  /\ At(t, "captured") /\ journal' = journal \cup {tool[t].attempt} /\ Go(t, "journaled")
  /\ UNCHANGED <<database, blobs, archive, receipt, server, ghosts>>
(* The clearing transaction; it looks at the permit again, but for its time.  *)
Unchanged == pending = None /\ Permitted
Clear(t) ==
  /\ At(t, "journaled") /\ tool[t].holds /\ Unchanged
  /\ generation' = generation + 1 /\ pending' = tool[t].attempt /\ rows' = {}
  /\ session' = FALSE /\ permit' = None /\ password' = 1
  /\ cleared' = cleared \cup {generation}
  /\ \/ Go(t, "pending")
     \/ tool' = [tool EXCEPT ![t] = Idle]    \* the outcome is unknown to the tool
  /\ UNCHANGED <<completed, files, server, ghosts>>

-----------------------------------------------------------------------------
(* finish_locked, from reset or from finish-reset with a journal.             *)
Finish(t, a) ==
  /\ OfflineGuard(t) /\ a \in journal
  /\ tool' = [tool EXCEPT ![t] = [at |-> "pending", attempt |-> a, holds |-> TRUE, left |-> {}]]
  /\ UNCHANGED <<database, files, server, ghosts>>
IsPending(t) ==
  /\ pending = tool[t].attempt /\ generation = attempts[tool[t].attempt] + 1
  /\ archive[tool[t].attempt] # None
ListBlobs(t) ==
  /\ At(t, "pending") /\ tool[t].holds /\ IsPending(t)
  /\ tool' = [tool EXCEPT ![t].at = "remove", ![t].left = blobs]
  /\ UNCHANGED <<database, files, server, ghosts>>
RemoveBlob(t, i) ==
  /\ At(t, "remove") /\ i \in tool[t].left
  /\ IF i \in blobs
     THEN tool' = [tool EXCEPT ![t].left = @ \ {i}]
     ELSE tool' = [tool EXCEPT ![t] = Idle]
  /\ blobs' = blobs \ {i} /\ torn' = torn \cup (IF tool[t].holds THEN {} ELSE {i})
  /\ UNCHANGED <<database, archive, journal, receipt, server, attempts, acked>>
Removed(t) == At(t, "remove") /\ tool[t].left = {}
PersistReceipt(t) ==
  /\ Removed(t) /\ blobs = {}
  /\ receipt' = receipt \cup {tool[t].attempt} /\ Go(t, "receipt")
  /\ UNCHANGED <<database, blobs, archive, journal, server, ghosts>>
LiftFence(t) ==
  /\ At(t, "receipt") /\ tool[t].holds /\ pending = tool[t].attempt
  /\ pending' = None /\ completed' = completed \cup {tool[t].attempt}
  /\ tool' = [tool EXCEPT ![t] = Idle]
  /\ UNCHANGED <<generation, rows, password, session, permit, cleared, files, server, ghosts>>

(* Every failed check ends the tool, and so may a crash at any step; when its *)
(* connection dies it learns of it by its next statement.                     *)
Fail(t) ==
  /\ ~At(t, "off") /\ tool' = [tool EXCEPT ![t] = Idle]
  /\ UNCHANGED <<database, files, server, ghosts>>
LoseConnection(t) ==
  /\ tool[t].holds /\ tool' = [tool EXCEPT ![t].holds = FALSE]
  /\ UNCHANGED <<database, files, server, ghosts>>

Next ==
  \/ \E s \in Server :
       \/ Guard(s) \/ Boot(s) \/ LoseGuard(s) \/ StopServer(s)
       \/ (\E i \in Item : WriteBlob(s, i)) \/ CommitRow(s) \/ NoProject(s)
  \/ SignIn \/ SetPassword \/ Prepare \/ PermitExpires
  \/ \E t \in Tool :
       \/ BeginReset(t) \/ LockTables(t) \/ Capture(t) \/ PersistJournal(t) \/ Clear(t)
       \/ (\E a \in Attempt : Finish(t, a)) \/ ListBlobs(t) \/ (\E i \in Item : RemoveBlob(t, i))
       \/ PersistReceipt(t) \/ LiftFence(t) \/ Fail(t) \/ LoseConnection(t)
Spec == Init /\ [][Next]_vars

-----------------------------------------------------------------------------
TypeOK ==
  /\ generation \in 1..(MaxAttempts + 1) /\ pending \in Attempt \cup {None}
  /\ rows \cup blobs \cup torn \subseteq Item /\ password \in 1..MaxPassword
  /\ session \in BOOLEAN
  /\ permit \in [generation : Nat, password : Nat] \cup {None}
  /\ journal \cup receipt \cup completed \subseteq Attempt
  /\ \A a \in Attempt : archive[a] = None \/ archive[a] \subseteq Item
  /\ \A s \in Server : server[s].state \in {"off", "guarded", "running", "lost"}
  /\ \A t \in Tool : tool[t].left \subseteq Item

(* What a client was told is stored is in the instance, blob and row, or, if   *)
(* its generation was cleared, in an archive that a journal outside of the     *)
(* instance names: whatever servers without the lock write, wherever the tool  *)
(* dies and whoever runs it again (reset.rs:212, :254).  The exception is what *)
(* a tool whose connection died removes after somebody else finished.          *)
Kept(i) == i \in rows /\ i \in blobs \cup torn
Archived(g, i) ==
  \E a \in journal : attempts[a] = g /\ archive[a] # None /\ i \in archive[a]
NothingLost ==
  \A w \in acked : IF w[1] = generation THEN Kept(w[2]) ELSE Archived(w[1], w[2])

(* "Only durable blob cleanup and an external receipt can remove that fence"   *)
(* (reset.rs:1): nobody serves with the lock while an instance is cleared or   *)
(* fenced, and each reset that ended has its receipt and its archive.          *)
FencedWhileDirty ==
  /\ Shared => ~Exclusive
  /\ \A s \in Server : server[s].state = "running" => pending = None
  /\ \A a \in completed : a \in receipt /\ archive[a] # None
  /\ Cardinality(cleared) = Cardinality(completed) + IF pending = None THEN 0 ELSE 1
=============================================================================
