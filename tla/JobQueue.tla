------------------------------ MODULE JobQueue ------------------------------
(***************************************************************************)
(* The durable command queue of the server (server/src/jobs.rs): jobs that *)
(* re-read the stored crashes of a release once an artifact explains them. *)
(* Workers are separate processes; the database row of a job carries its   *)
(* lease and its checkpoint.  A batch reads and resolves a page of events  *)
(* outside any transaction and commits payloads and checkpoint in one.     *)
(*                                                                         *)
(* Time is abstract: `live' says that lease_until is in the future, `due'  *)
(* that next_attempt_at is in the past.  A claim's fresh lease_owner UUID  *)
(* is the number of the attempt it starts.  Events are numbered in the     *)
(* order the page query returns them (newest first).                       *)
(***************************************************************************)
EXTENDS Integers, FiniteSets

CONSTANTS
    Worker,        \* background workers, one per server process
    Project, Release, Key, Artifact,
    ProjectOf,     \* [Release -> Project]
    MaxJobs,       \* bound: jobs ever created
    NumEvents,     \* events stored for all the releases
    ReleaseOf,     \* [Event -> Release]
    PageSize,      \* 25 in the code
    ScanLimit,     \* 20000 in the code
    QueueLimit,    \* 256 in the code
    MaxAttempts,   \* jobs.max_attempts, 5 by default
    MaxGeneration  \* bound: generations of the instance

Job == 1..MaxJobs
Event == 1..NumEvents

ASSUME QueueAssumption ==
    /\ MaxJobs \in Nat /\ NumEvents \in Nat /\ MaxGeneration \in Nat \ {0}
    /\ PageSize \in Nat \ {0} /\ ScanLimit \in Nat \ {0}
    /\ QueueLimit \in Nat /\ MaxAttempts \in Nat \ {0}
    /\ Release # {} /\ ProjectOf \in [Release -> Project]
    /\ ReleaseOf \in [Event -> Release]

VARIABLES
    generation,  \* instance_settings.generation
    \* Columns of table jobs
    state, command,       \* command: the release, generation and created_at cut of the job
    attempt, due, owner, live, cancel, scanned, cursor,
    seen,        \* history: the events each job's committed batches scanned
    \* Other tables
    requests,    \* idempotency_requests: <<project, subject and key>> |-> job, 0 if none
    stored,      \* events that have a row
    frames,      \* the artifacts the frames of an event's payload are resolved with
    arts,        \* release_artifacts
    \* Memory of the processes
    pc, claim, fresh, page,  \* each worker: its place in the loop, job and token, page in hand
    cli          \* the rewrite the operator's `resymbolicate' command is about to issue

jobVars == <<state, command, attempt, due, owner, live, cancel, scanned, cursor, seen>>
dataVars == <<requests, stored, frames, arts, cli>>
workerVars == <<pc, claim, fresh, page>>
vars == <<generation, jobVars, dataVars, workerVars>>

Active == {"queued", "running", "retry_wait"}
Terminal == {"succeeded", "failed", "cancelled"}

Nothing == [job |-> 0, token |-> 0]
NoPage == [rows |-> {}, orig |-> [e \in Event |-> {}], new |-> [e \in Event |-> {}]]
NoRewrite == [ev |-> 0, new |-> {}]

Init ==
    /\ generation = 1
    /\ state = [j \in Job |-> "absent"]
    /\ command = [j \in Job |-> [release |-> CHOOSE r \in Release : TRUE, gen |-> 0, scope |-> {}]]
    /\ attempt = [j \in Job |-> 0] /\ owner = [j \in Job |-> 0]
    /\ scanned = [j \in Job |-> 0] /\ cursor = [j \in Job |-> 0]
    /\ due = [j \in Job |-> TRUE] /\ live = [j \in Job |-> FALSE]
    /\ cancel = [j \in Job |-> FALSE] /\ seen = [j \in Job |-> {}]
    /\ requests = [x \in Project \X Key |-> 0]
    /\ stored = Event
    /\ frames = [e \in Event |-> {}]
    /\ arts = [r \in Release |-> {}]
    /\ pc = [w \in Worker |-> "idle"] /\ claim = [w \in Worker |-> Nothing]
    /\ fresh = [w \in Worker |-> FALSE] /\ page = [w \in Worker |-> NoPage]
    /\ cli = NoRewrite

ProjectOfJob(j) == ProjectOf[command[j].release]
ActiveIn(p) == {j \in Job : state[j] \in Active /\ ProjectOfJob(j) = p}

-----------------------------------------------------------------------------
(* Plausible bugs.  Each is a definition of the next sections with         *)
(* something forgotten, and the property that notices it in its place.     *)

FailedStillRunning(j) ==        \* FailedState, a retry keeps its state: TypeOK
    IF cancel[j] THEN "cancelled" ELSE IF attempt[j] >= MaxAttempts THEN "failed" ELSE "running"
HoldsAnyOwner(w) ==             \* Holds, without lease_owner: CheckpointExact
    state[claim[w].job] = "running"
DoneFullPage(w) ==              \* Done, <= for <: SuccessCoversScope
    LET n == Cardinality(page[w].rows)
    IN n <= PageSize \/ scanned[claim[w].job] + n >= ScanLimit
StoppedByReset(j) ==            \* Stopped, without the flag: CancelIsFinal
    command[j].gen # generation
ConflictUnchecked(w) == FALSE   \* Conflict, the payload is not compared: NeverUndoes
DoomedUncounted(j) ==           \* Doomed, without the attempts: EveryJobEnds
    /\ state[j] \in Active /\ (state[j] = "running" => ~live[j])
    /\ command[j].gen # generation \/ cancel[j]
ClaimableBesideExpired(j) ==    \* Claimable, expired leases are ignored: OneRunningPerProject
    /\ command[j].gen = generation /\ attempt[j] < MaxAttempts /\ ~cancel[j]
    /\ \/ state[j] \in {"queued", "retry_wait"} /\ due[j]
       \/ state[j] = "running" /\ ~live[j]
    /\ \A k \in Job \ {j} :
          state[k] = "running" /\ live[k] => ProjectOfJob(k) # ProjectOfJob(j)

-----------------------------------------------------------------------------
(* Commands: enqueue, cancel, upload.  The project row lock makes each     *)
(* enqueue of a project atomic with respect to the others.                 *)

\* enqueue's INSERT: j is the next fresh identifier and the project's queue has
\* room.  The scope is what received_at <= created_at will let the job read.
Insert(j, r) ==
    /\ state[j] = "absent" /\ \A k \in Job : k < j => state[k] # "absent"
    /\ Cardinality(ActiveIn(ProjectOf[r])) < QueueLimit
    /\ state' = [state EXCEPT ![j] = "queued"]
    /\ command' = [command EXCEPT ![j] =
                     [release |-> r, gen |-> generation,
                      scope |-> {e \in stored : ReleaseOf[e] = r}]]
    /\ UNCHANGED <<attempt, due, owner, live, cancel, scanned, cursor, seen>>

\* POST .../resymbolicate with an idempotency key.  A known key returns its job,
\* or a conflict when its digest differs: either way nothing is written.
CreateJob(r, k, j) ==
    /\ requests[<<ProjectOf[r], k>>] = 0
    /\ Insert(j, r)
    /\ requests' = [requests EXCEPT ![<<ProjectOf[r], k>>] = j]
    /\ UNCHANGED <<generation, stored, frames, arts, cli, workerVars>>

\* An artifact upload stores the artifact's row and its job in one transaction,
\* under a key nobody else uses.
Upload(r, a, j) ==
    /\ Insert(j, r)
    /\ arts' = [arts EXCEPT ![r] = @ \cup {a}]
    /\ UNCHANGED <<generation, requests, stored, frames, cli, workerVars>>

\* A running job is only flagged; its worker or the next claim ends it.
Cancel(j) ==
    /\ state[j] \in Active /\ ~cancel[j]
    /\ cancel' = [cancel EXCEPT ![j] = TRUE]
    /\ state' = [state EXCEPT ![j] = IF @ = "running" THEN @ ELSE "cancelled"]
    /\ UNCHANGED <<generation, command, attempt, due, owner, live, scanned, cursor, seen,
                   dataVars, workerVars>>

-----------------------------------------------------------------------------
(* The worker loop.                                                        *)

Take(w, place, c) ==
    /\ pc' = [pc EXCEPT ![w] = place]
    /\ claim' = [claim EXCEPT ![w] = c]
    /\ fresh' = [fresh EXCEPT ![w] = FALSE]
    /\ page' = [page EXCEPT ![w] = NoPage]
Leave(w) == Take(w, "idle", Nothing)
Keep(w, place) == Take(w, place, claim[w])

\* The sweep at the head of claim closes the jobs no worker may run any more.
Doomed(j) ==
    /\ state[j] \in Active
    /\ state[j] = "running" => ~live[j]
    /\ command[j].gen # generation \/ cancel[j] \/ attempt[j] >= MaxAttempts
SweptState(j) ==
    IF ~Doomed(j) THEN state[j] ELSE IF cancel[j] THEN "cancelled" ELSE "failed"

Claimable(j) ==
    /\ command[j].gen = generation /\ attempt[j] < MaxAttempts /\ ~cancel[j]
    /\ \/ state[j] \in {"queued", "retry_wait"} /\ due[j]
       \/ state[j] = "running" /\ ~live[j]
    /\ \A k \in Job \ {j} : SweptState(k) = "running" => ProjectOfJob(k) # ProjectOfJob(j)

\* Any claimable job may be the first in (next_attempt_at, created_at) order.
Claim(w, j) ==
    /\ pc[w] = "idle"
    /\ Claimable(j)
    /\ state' = [k \in Job |-> IF k = j THEN "running" ELSE SweptState(k)]
    /\ attempt' = [attempt EXCEPT ![j] = @ + 1]
    /\ owner' = [k \in Job |-> IF k = j THEN attempt[j] + 1
                               ELSE IF Doomed(k) THEN 0 ELSE owner[k]]
    /\ live' = [live EXCEPT ![j] = TRUE]
    /\ Take(w, "batch", [job |-> j, token |-> attempt[j] + 1])
    /\ UNCHANGED <<generation, command, due, cancel, scanned, cursor, seen, dataVars>>

\* Nothing to claim: the sweep commits all the same.
ClaimNothing(w) ==
    /\ pc[w] = "idle"
    /\ \A j \in Job : ~Claimable(j)
    /\ state' = [k \in Job |-> SweptState(k)]
    /\ owner' = [k \in Job |-> IF Doomed(k) THEN 0 ELSE owner[k]]
    /\ UNCHANGED <<generation, command, attempt, due, live, cancel, scanned, cursor, seen,
                   dataVars, workerVars>>

\* lease_owner=$2 AND state='running'
Holds(w) == state[claim[w].job] = "running" /\ owner[claim[w].job] = claim[w].token

\* What a page query of at most n rows may return: the first ones in scan order.
IsPage(rows, beyond, n) ==
    /\ rows \subseteq beyond /\ Cardinality(rows) <= n
    /\ \A e \in rows, f \in beyond : f < e => f \in rows
    /\ Cardinality(rows) < n => rows = beyond
Beyond(j) == {e \in command[j].scope \cap stored : e > cursor[j]}
Limit(j) == IF ScanLimit - scanned[j] < PageSize THEN ScanLimit - scanned[j] ELSE PageSize

\* The job row is read without a lock; the claim may already be lost.
LoseJob(w) ==
    /\ pc[w] = "batch"
    /\ ~(Holds(w) /\ live[claim[w].job])
    /\ Leave(w)
    /\ UNCHANGED <<generation, jobVars, dataVars>>

\* Read a page and resolve it, outside any transaction.  A job seen as cancelled
\* reads nothing.
ReadBatch(w) ==
    LET j == claim[w].job IN
    /\ pc[w] = "batch" /\ Holds(w) /\ live[j]
    /\ \E rows \in SUBSET Beyond(j) :
         /\ IF cancel[j] THEN rows = {} ELSE IsPage(rows, Beyond(j), Limit(j))
         /\ page' = [page EXCEPT ![w] =
              [rows |-> rows,
               orig |-> [e \in Event |-> IF e \in rows THEN frames[e] ELSE {}],
               new |-> [e \in Event |-> IF e \in rows
                                       THEN frames[e] \cup arts[command[j].release] ELSE {}]]]
    /\ pc' = [pc EXCEPT ![w] = "resolved"]
    /\ UNCHANGED <<generation, jobVars, dataVars, claim, fresh>>

\* now() is the start of the transaction: the lease is judged by this moment,
\* however long the row lock or the commit takes.
BeginCommit(w) ==
    /\ pc[w] = "resolved"
    /\ pc' = [pc EXCEPT ![w] = "tx"]
    /\ fresh' = [fresh EXCEPT ![w] = Holds(w) /\ live[claim[w].job]]
    /\ UNCHANGED <<generation, jobVars, dataVars, claim, page>>

\* The claim was lost between the read and the transaction: no write at all.
CommitLost(w) ==
    /\ pc[w] = "tx" /\ ~(Holds(w) /\ fresh[w])
    /\ Leave(w)
    /\ UNCHANGED <<generation, jobVars, dataVars>>

Fenced(w) == pc[w] = "tx" /\ Holds(w) /\ fresh[w]
Stopped(j) == cancel[j] \/ command[j].gen # generation

\* Cancellation (or another generation) is observed under the row lock.
CommitStopped(w) ==
    LET j == claim[w].job IN
    /\ Fenced(w) /\ Stopped(j)
    /\ state' = [state EXCEPT ![j] =
                   IF command[j].gen # generation THEN "failed" ELSE "cancelled"]
    /\ owner' = [owner EXCEPT ![j] = 0]
    /\ Leave(w)
    /\ UNCHANGED <<generation, command, attempt, due, live, cancel, scanned, cursor, seen,
                   dataVars>>

\* Rows a batch would rewrite: deleted rows are skipped, and one changed by
\* somebody else since it was read aborts the whole batch.
Changes(w) == {e \in page[w].rows \cap stored : page[w].new[e] # page[w].orig[e]}
Conflict(w) == \E e \in Changes(w) : frames[e] # page[w].orig[e]

Done(w) ==
    LET n == Cardinality(page[w].rows)
    IN n < PageSize \/ scanned[claim[w].job] + n >= ScanLimit

\* Payloads and checkpoint commit together.  The worker may not learn of it: the
\* 45 s timeout can fire while the commit is on its way.
CommitBatch(w) ==
    LET j == claim[w].job
        rows == page[w].rows
    IN
    /\ Fenced(w) /\ ~Stopped(j) /\ ~Conflict(w)
    /\ frames' = [e \in Event |-> IF e \in Changes(w) THEN page[w].new[e] ELSE frames[e]]
    /\ \E last \in IF rows = {} THEN {cursor[j]} ELSE {e \in rows : \A f \in rows : f <= e} :
         cursor' = [cursor EXCEPT ![j] = last]
    /\ scanned' = [scanned EXCEPT ![j] = @ + Cardinality(rows)]
    /\ seen' = [seen EXCEPT ![j] = @ \cup rows]
    /\ state' = [state EXCEPT ![j] = IF Done(w) THEN "succeeded" ELSE @]
    /\ owner' = [owner EXCEPT ![j] = IF Done(w) THEN 0 ELSE @]
    /\ live' = [live EXCEPT ![j] = TRUE]
    /\ \/ IF Done(w) THEN Leave(w) ELSE Keep(w, "batch")
       \/ Keep(w, "failing")
    /\ UNCHANGED <<generation, command, attempt, due, cancel, requests, stored, arts, cli>>

CommitConflict(w) ==
    /\ Fenced(w) /\ ~Stopped(claim[w].job) /\ Conflict(w)
    /\ Keep(w, "failing")
    /\ UNCHANGED <<generation, jobVars, dataVars>>

\* A database or storage error, or the batch timeout; an open transaction rolls back.
BatchError(w) ==
    /\ pc[w] \in {"batch", "resolved", "tx"}
    /\ Keep(w, "failing")
    /\ UNCHANGED <<generation, jobVars, dataVars>>

FailedState(j) ==
    IF cancel[j] THEN "cancelled" ELSE IF attempt[j] >= MaxAttempts THEN "failed" ELSE "retry_wait"

\* One statement, fenced by a valid lease.
Fail(w) ==
    LET j == claim[w].job IN
    /\ pc[w] = "failing" /\ Holds(w) /\ live[j]
    /\ state' = [state EXCEPT ![j] = FailedState(j)]
    /\ owner' = [owner EXCEPT ![j] = 0]
    /\ due' = [due EXCEPT ![j] = FALSE]
    /\ Leave(w)
    /\ UNCHANGED <<generation, command, attempt, live, cancel, scanned, cursor, seen, dataVars>>

\* Without the lease it changes nothing: the lease's expiry recovers the job.
FailLost(w) ==
    /\ pc[w] = "failing" /\ ~(Holds(w) /\ live[claim[w].job])
    /\ Leave(w)
    /\ UNCHANGED <<generation, jobVars, dataVars>>

-----------------------------------------------------------------------------
(* The environment: crashes, the clock, and other writers of the tables.   *)

Crash(w) ==
    /\ pc[w] # "idle"
    /\ Leave(w)
    /\ UNCHANGED <<generation, jobVars, dataVars>>

LeaseExpires(j) ==
    /\ state[j] = "running" /\ live[j]
    /\ live' = [live EXCEPT ![j] = FALSE]
    /\ UNCHANGED <<generation, state, command, attempt, due, owner, cancel, scanned, cursor, seen,
                   dataVars, workerVars>>

BackoffElapses(j) ==
    /\ state[j] = "retry_wait" /\ ~due[j]
    /\ due' = [due EXCEPT ![j] = TRUE]
    /\ UNCHANGED <<generation, state, command, attempt, owner, live, cancel, scanned, cursor, seen,
                   dataVars, workerVars>>

\* The operator's command resolves a payload it has read, then updates the row by
\* its identifier alone.
OperatorResolve(e) ==
    /\ cli = NoRewrite /\ e \in stored
    /\ ~(arts[ReleaseOf[e]] \subseteq frames[e])
    /\ cli' = [ev |-> e, new |-> frames[e] \cup arts[ReleaseOf[e]]]
    /\ UNCHANGED <<generation, jobVars, requests, stored, frames, arts, workerVars>>

OperatorWrite ==
    /\ cli # NoRewrite
    /\ frames' = [e \in Event |-> IF e = cli.ev /\ e \in stored THEN cli.new ELSE frames[e]]
    /\ cli' = NoRewrite
    /\ UNCHANGED <<generation, jobVars, requests, stored, arts, workerVars>>

\* Retention, or the deletion of an issue.
DeleteEvent(e) ==
    /\ e \in stored
    /\ stored' = stored \ {e}
    /\ UNCHANGED <<generation, jobVars, requests, frames, arts, cli, workerVars>>

\* An offline reset clears every table and starts a new generation.  A server
\* whose guard connection just died may survive it by some seconds; a batch
\* transaction cannot, it holds a lock the reset waits for.
Reset ==
    /\ generation < MaxGeneration
    /\ \A w \in Worker : pc[w] # "tx"
    /\ generation' = generation + 1
    /\ state' = [j \in Job |-> IF state[j] = "absent" THEN "absent" ELSE "gone"]
    /\ owner' = [j \in Job |-> 0]
    /\ requests' = [x \in Project \X Key |-> 0]
    /\ stored' = {}
    /\ arts' = [r \in Release |-> {}]
    /\ UNCHANGED <<command, attempt, due, live, cancel, scanned, cursor, seen, frames, cli,
                   workerVars>>

-----------------------------------------------------------------------------
WorkerStep(w) ==
    \/ LoseJob(w) \/ ReadBatch(w) \/ BeginCommit(w)
    \/ CommitLost(w) \/ CommitStopped(w) \/ CommitBatch(w) \/ CommitConflict(w)
    \/ Fail(w) \/ FailLost(w)

Command ==
    \E j \in Job :
        \/ Cancel(j)
        \/ \E r \in Release : \/ \E k \in Key : CreateJob(r, k, j)
                              \/ \E a \in Artifact : Upload(r, a, j)

Next ==
    \/ Command
    \/ \E w \in Worker : \/ \E j \in Job : Claim(w, j)
                         \/ ClaimNothing(w) \/ WorkerStep(w)
                         \/ BatchError(w) \/ Crash(w)
    \/ \E j \in Job : LeaseExpires(j) \/ BackoffElapses(j)
    \/ \E e \in Event : OperatorResolve(e) \/ DeleteEvent(e)
    \/ OperatorWrite \/ Reset

Spec == Init /\ [][Next]_vars

\* Every process keeps taking its steps, and time passes: a backoff elapses, and
\* so does a lease that no live worker can renew.
Held(j) == \E w \in Worker : claim[w].job = j /\ Holds(w)
Fairness ==
    /\ \A w \in Worker : WF_vars(WorkerStep(w))
    /\ WF_vars(\E w \in Worker : ClaimNothing(w) \/ \E j \in Job : Claim(w, j))
    /\ \A j \in Job : WF_vars(BackoffElapses(j)) /\ WF_vars(~Held(j) /\ LeaseExpires(j))
FairSpec == Spec /\ Fairness

-----------------------------------------------------------------------------
JobsOK ==
    /\ state \in [Job -> Active \cup Terminal \cup {"absent", "gone"}]
    /\ command \in [Job -> [release : Release, gen : 0..MaxGeneration, scope : SUBSET Event]]
    /\ attempt \in [Job -> 0..MaxAttempts] /\ owner \in [Job -> 0..MaxAttempts]
    /\ due \in [Job -> BOOLEAN] /\ live \in [Job -> BOOLEAN] /\ cancel \in [Job -> BOOLEAN]
    /\ scanned \in [Job -> Nat] /\ cursor \in [Job -> Nat] /\ seen \in [Job -> SUBSET Event]
    /\ \A j \in Job : state[j] = "running" <=> owner[j] # 0
DataOK ==
    /\ requests \in [Project \X Key -> {0} \cup Job]
    /\ stored \in SUBSET Event
    /\ frames \in [Event -> SUBSET Artifact]
    /\ arts \in [Release -> SUBSET Artifact]
    /\ cli \in [ev : {0} \cup Event, new : SUBSET Artifact]
WorkersOK ==
    /\ pc \in [Worker -> {"idle", "batch", "resolved", "tx", "failing"}]
    /\ claim \in [Worker -> [job : {0} \cup Job, token : 0..MaxAttempts]]
    /\ \A w \in Worker : pc[w] # "idle" => claim[w].job \in Job
    /\ fresh \in [Worker -> BOOLEAN]
    /\ page \in [Worker -> [rows : SUBSET Event, orig : [Event -> SUBSET Artifact],
                            new : [Event -> SUBSET Artifact]]]
\* Columns and process memory stay in their domains; a job carries a lease owner
\* exactly while it runs, as the CHECK of table jobs demands.
TypeOK == generation \in 1..MaxGeneration /\ JobsOK /\ DataOK /\ WorkersOK

\* Project work is serialized across processes, expired leases included: a project
\* never has two running jobs.
OneRunningPerProject ==
    \A j, k \in Job :
        state[j] = "running" /\ state[k] = "running" /\ ProjectOfJob(j) = ProjectOfJob(k) => j = k

\* The checkpoint counts every event once, whatever crashed, timed out, lost a
\* reply or kept working after its lease: `scanned' is the number of events the
\* job's committed batches went through, all of them at or before the cursor.
CheckpointExact ==
    \A j \in Job :
        /\ scanned[j] = Cardinality(seen[j])
        /\ \A e \in seen[j] : e <= cursor[j]

\* A job that reports success went through every event it was created for that is
\* still stored, unless it reached the scan limit.
SuccessCoversScope ==
    \A j \in Job : state[j] = "succeeded" =>
        command[j].scope \cap stored \subseteq seen[j] \/ scanned[j] >= ScanLimit

\* A batch never takes away what somebody else resolved in an event since the batch
\* read it (the optimistic payload condition).
NeverUndoes ==
    [][\A w \in Worker : CommitBatch(w) => \A e \in Event : frames[e] \subseteq frames'[e]]_vars

\* Once cancellation is requested the job never advances, never retries and never
\* succeeds, although a worker may be in the middle of a batch.
CancelIsFinal ==
    [][\A j \in Job : cancel[j] =>
         /\ cancel'[j]
         /\ state'[j] \in {state[j], "cancelled", "gone"}
         /\ scanned'[j] = scanned[j]]_vars

\* Every accepted job ends, even if every worker that takes it crashes: attempts are
\* bounded and the sweep closes what nobody may claim.
EveryJobEnds == \A j \in Job : state[j] \in Active ~> state[j] \notin Active
=============================================================================
