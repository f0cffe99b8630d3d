--------------------------- MODULE JobQueueProofs ---------------------------
(***************************************************************************)
(* Types, serialization, cancellation and the checkpoint of JobQueue,      *)
(* proved for any workers, jobs, events, limits and attempts.              *)
(* That the checkpoint is exact and that a successful job has gone through *)
(* its scope are not inductive: both rest on claims being told apart by    *)
(* their tokens, so that the page of the one valid claim is still the next *)
(* page. IInv, halfway down, adds these.                                   *)
(***************************************************************************)
EXTENDS JobQueue, FiniteSetTheorems, TLAPS

\* An accepted job belongs to the generation that runs it.
ActiveIsCurrent == \A j \in Job : state[j] \in Active => command[j].gen = generation

\* A row that was never inserted carries nothing.
AbsentIsBlank ==
    \A j \in Job : state[j] = "absent" => ~cancel[j] /\ seen[j] = {} /\ cursor[j] = 0

-----------------------------------------------------------------------------
USE QueueAssumption DEF Job, Event

\* Sets of events are finite, so that counting them makes sense.
LEMMA EventsFinite ==
  /\ \A S \in SUBSET Event : IsFiniteSet(S) /\ Cardinality(S) \in Nat
<1>1. IsFiniteSet(Event)
  BY FS_Interval
<1> QED
  BY <1>1, FS_Subset, FS_CardinalityType

\* The two values an owner column is set to are in its domain.
LEMMA Attempts == 0 \in 0..MaxAttempts /\ 1..MaxAttempts \subseteq 0..MaxAttempts
  OBVIOUS

\* An empty database and idle workers are well typed.
LEMMA TypeInit == Init => TypeOK
  BY DEF Init, TypeOK, JobsOK, DataOK, WorkersOK, Nothing, NoPage, NoRewrite

\* What the actions of a worker do to its own memory.
LEMMA TakeType ==
  ASSUME WorkersOK, NEW w \in Worker,
         NEW place \in {"idle", "batch", "failing"},
         NEW c \in [job : {0} \cup Job, token : 0..MaxAttempts],
         place # "idle" => c.job \in Job,
         Take(w, place, c)
  PROVE  WorkersOK'
  BY DEF WorkersOK, Take, NoPage

\* A worker that gives up its job keeps a well-typed memory.
LEMMA LeaveType ==
  ASSUME WorkersOK, NEW w \in Worker, Leave(w)
  PROVE  WorkersOK'
<1>1. Nothing \in [job : {0} \cup Job, token : 0..MaxAttempts]
  BY DEF Nothing
<1> QED
  BY <1>1, TakeType DEF Leave

\* So does one that goes on with the same job.
LEMMA KeepType ==
  ASSUME WorkersOK, NEW w \in Worker, pc[w] # "idle",
         NEW place \in {"batch", "failing"}, Keep(w, place)
  PROVE  WorkersOK'
<1>1. claim[w] \in [job : {0} \cup Job, token : 0..MaxAttempts]
  BY DEF WorkersOK
<1>2. claim[w].job \in Job
  BY DEF WorkersOK
<1>3. place \in {"idle", "batch", "failing"}
  OBVIOUS
<1> QED
  BY <1>1, <1>2, <1>3, TakeType DEF Keep

\* Steps that leave a group of variables alone keep its part of the invariant.
LEMMA SameJobs ==
  ASSUME JobsOK, UNCHANGED jobVars PROVE JobsOK'
  BY DEF JobsOK, jobVars
\* The same for the other tables.
LEMMA SameData ==
  ASSUME DataOK, UNCHANGED dataVars PROVE DataOK'
  BY DEF DataOK, dataVars
\* The same for the memory of the workers.
LEMMA SameWorkers ==
  ASSUME WorkersOK, UNCHANGED workerVars PROVE WorkersOK'
  BY DEF WorkersOK, workerVars

\* The sweep closes exactly the doomed jobs.
LEMMA SweptType ==
  ASSUME JobsOK, NEW k \in Job
  PROVE  /\ SweptState(k) \in Active \cup Terminal \cup {"absent", "gone"}
         /\ SweptState(k) = "running" <=> state[k] = "running" /\ ~Doomed(k)
         /\ Doomed(k) => SweptState(k) \in Terminal
  BY DEF SweptState, JobsOK, Terminal

\* One step per action, and under it one per part of TypeOK it can disturb.
LEMMA TypeStep == TypeOK /\ [Next]_vars => TypeOK'
<1> SUFFICES ASSUME generation \in 1..MaxGeneration, JobsOK, DataOK, WorkersOK, [Next]_vars
             PROVE TypeOK'
  BY DEF TypeOK
<1>1. ASSUME NEW r \in Release, NEW j \in Job, Insert(j, r)
      PROVE  JobsOK'
  <2>1. [release |-> r, gen |-> generation, scope |-> {e \in stored : ReleaseOf[e] = r}]
          \in [release : Release, gen : 0..MaxGeneration, scope : SUBSET Event]
    <3>1. {e \in stored : ReleaseOf[e] = r} \in SUBSET Event
      BY DEF DataOK
    <3> QED
      BY <3>1
  <2>2. "queued" \in Active
    BY DEF Active
  <2> QED
    BY <1>1, <2>1, <2>2 DEF Insert, JobsOK
<1>2. ASSUME NEW r \in Release, NEW k \in Key, NEW j \in Job, CreateJob(r, k, j) PROVE TypeOK'
  <2>1. DataOK'
    BY <1>2 DEF CreateJob, DataOK
  <2> QED
    BY <1>1, <1>2, <2>1, SameWorkers DEF CreateJob, TypeOK
<1>3. ASSUME NEW r \in Release, NEW a \in Artifact, NEW j \in Job, Upload(r, a, j) PROVE TypeOK'
  <2>1. DataOK'
    BY <1>3 DEF Upload, DataOK
  <2> QED
    BY <1>1, <1>3, <2>1, SameWorkers DEF Upload, TypeOK
<1>4. ASSUME NEW j \in Job, Cancel(j) PROVE TypeOK'
  <2>1. JobsOK'
    BY <1>4 DEF Cancel, JobsOK, Active, Terminal
  <2> QED
    BY <1>4, <2>1, SameData, SameWorkers DEF Cancel, TypeOK
<1>5. ASSUME NEW w \in Worker, NEW j \in Job, Claim(w, j) PROVE TypeOK'
  <2>1. attempt[j] + 1 \in 1..MaxAttempts
    <3>1. attempt[j] < MaxAttempts
      BY <1>5 DEF Claim, Claimable
    <3>2. attempt[j] \in 0..MaxAttempts
      BY DEF JobsOK
    <3> HIDE DEF Job, Event
    <3>3. MaxAttempts \in Nat
      BY QueueAssumption
    <3> QED
      BY <3>1, <3>2, <3>3
  <2>2. WorkersOK'
    <3>1. [job |-> j, token |-> attempt[j] + 1] \in [job : {0} \cup Job, token : 0..MaxAttempts]
      BY <2>1
    <3> QED
      BY <1>5, <3>1, TakeType DEF Claim
  <2>3. JobsOK'
    <3>1. \A k \in Job : state'[k] \in Active \cup Terminal \cup {"absent", "gone"}
      BY <1>5, SweptType DEF Claim, Active
    <3>2. attempt' \in [Job -> 0..MaxAttempts]
      BY <1>5, <2>1, Attempts DEF Claim, JobsOK
    <3>3. ASSUME NEW k \in Job
          PROVE  owner'[k] \in 0..MaxAttempts /\ (state'[k] = "running" <=> owner'[k] # 0)
      <4>1. CASE k = j
        BY <1>5, <2>1, <4>1, Attempts DEF Claim
      <4>2. CASE k # j /\ Doomed(k)
        BY <1>5, <4>2, SweptType, Attempts DEF Claim
      <4>3. CASE k # j /\ ~Doomed(k)
        BY <1>5, <4>3, SweptType DEF Claim, JobsOK
      <4> QED
        BY <4>1, <4>2, <4>3
    <3> QED
      BY <1>5, <3>1, <3>2, <3>3 DEF Claim, JobsOK
  <2> QED
    BY <1>5, <2>2, <2>3, SameData DEF Claim, TypeOK
<1>6. ASSUME NEW w \in Worker, ClaimNothing(w) PROVE TypeOK'
  <2>1. JobsOK'
    <3>1. \A k \in Job : state'[k] \in Active \cup Terminal \cup {"absent", "gone"}
      BY <1>6, SweptType DEF ClaimNothing
    <3>2. \A k \in Job : state'[k] = "running" <=> owner'[k] # 0
      BY <1>6, SweptType DEF ClaimNothing, JobsOK
    <3>3. state' \in [Job -> Active \cup Terminal \cup {"absent", "gone"}]
      BY <1>6, <3>1 DEF ClaimNothing
    <3>4. owner' \in [Job -> 0 .. MaxAttempts]
      BY <1>6 DEF ClaimNothing, JobsOK
    <3>5. UNCHANGED <<command, attempt, due, live, cancel, scanned, cursor, seen>>
      BY <1>6 DEF ClaimNothing
    <3> QED
      BY <3>2, <3>3, <3>4, <3>5 DEF JobsOK
  <2> QED
    BY <1>6, <2>1, SameData, SameWorkers DEF ClaimNothing, TypeOK
<1>7. ASSUME NEW w \in Worker, LoseJob(w) \/ CommitLost(w) \/ FailLost(w) \/ Crash(w) PROVE TypeOK'
  BY <1>7, LeaveType, SameJobs, SameData DEF LoseJob, CommitLost, FailLost, Crash, TypeOK
<1>8. ASSUME NEW w \in Worker, ReadBatch(w) PROVE TypeOK'
  <2>1. page'[w] \in [rows : SUBSET Event, orig : [Event -> SUBSET Artifact],
                      new : [Event -> SUBSET Artifact]]
    <3>1. claim[w].job \in Job
      BY <1>8 DEF ReadBatch, WorkersOK
    <3>2. PICK rows \in SUBSET Beyond(claim[w].job) :
            page' = [page EXCEPT ![w] =
              [rows |-> rows,
               orig |-> [e \in Event |-> IF e \in rows THEN frames[e] ELSE {}],
               new |-> [e \in Event |-> IF e \in rows
                         THEN frames[e] \cup arts[command[claim[w].job].release] ELSE {}]]]
      BY <1>8 DEF ReadBatch
    <3>3. arts[command[claim[w].job].release] \in SUBSET Artifact
      BY <3>1 DEF JobsOK, DataOK
    <3>4. rows \in SUBSET Event
      BY <3>2 DEF Beyond, DataOK
    <3>5. [e \in Event |-> IF e \in rows THEN frames[e] ELSE {}] \in [Event -> SUBSET Artifact]
      BY DEF DataOK
    <3>6. [e \in Event |-> IF e \in rows
             THEN frames[e] \cup arts[command[claim[w].job].release] ELSE {}]
            \in [Event -> SUBSET Artifact]
      BY <3>3 DEF DataOK
    <3> QED
      BY <3>2, <3>4, <3>5, <3>6 DEF WorkersOK
  <2>2. WorkersOK'
    BY <1>8, <2>1 DEF ReadBatch, WorkersOK
  <2> QED
    BY <1>8, <2>2, SameJobs, SameData DEF ReadBatch, TypeOK
<1>9. ASSUME NEW w \in Worker, BeginCommit(w) PROVE TypeOK'
  <2>1. WorkersOK'
    BY <1>9 DEF BeginCommit, WorkersOK, Holds
  <2> QED
    BY <1>9, <2>1, SameJobs, SameData DEF BeginCommit, TypeOK
<1>10. ASSUME NEW w \in Worker, CommitStopped(w) PROVE TypeOK'
  <2>1. claim[w].job \in Job
    BY <1>10 DEF CommitStopped, Fenced, WorkersOK
  <2>2. JobsOK'
    <3>1. state' = [state EXCEPT ![claim[w].job] = state'[claim[w].job]]
          /\ state'[claim[w].job] \in {"failed", "cancelled"}
      BY <1>10, <2>1 DEF CommitStopped, JobsOK
    <3>2. owner' \in [Job -> 0..MaxAttempts]
      BY <1>10, Attempts DEF CommitStopped, JobsOK
    <3>3. \A k \in Job : state'[k] = "running" <=> owner'[k] # 0
      BY <1>10, <2>1, <3>1 DEF CommitStopped, JobsOK
    <3>4. state' \in [Job -> Active \cup Terminal \cup {"absent", "gone"}]
      BY <3>1 DEF JobsOK, Terminal
    <3> QED
      BY <1>10, <3>2, <3>3, <3>4 DEF CommitStopped, JobsOK
  <2> QED
    BY <1>10, <2>2, LeaveType, SameData DEF CommitStopped, TypeOK
<1>11. ASSUME NEW w \in Worker, CommitBatch(w) PROVE TypeOK'
  <2> DEFINE j == claim[w].job
  <2>1. j \in Job /\ page[w].rows \in SUBSET Event /\ pc[w] # "idle"
    BY <1>11 DEF CommitBatch, Fenced, WorkersOK
  <2>2. Cardinality(page[w].rows) \in Nat
    BY <2>1, EventsFinite
  <2>3. JobsOK'
    <3>1. state' \in [Job -> Active \cup Terminal \cup {"absent", "gone"}]
      BY <1>11 DEF CommitBatch, JobsOK, Terminal
    <3>2. owner' \in [Job -> 0..MaxAttempts] /\ live' \in [Job -> BOOLEAN]
      BY <1>11, Attempts DEF CommitBatch, JobsOK
    <3>3. cursor' \in [Job -> Nat]
      <4>1. PICK last \in IF page[w].rows = {} THEN {cursor[j]}
                           ELSE {e \in page[w].rows : \A f \in page[w].rows : f <= e} :
              cursor' = [cursor EXCEPT ![j] = last]
        BY <1>11 DEF CommitBatch
      <4>2. last \in Nat
        <5>1. cursor[j] \in Nat /\ Event \subseteq Nat
          BY <2>1 DEF JobsOK
        <5>2. CASE page[w].rows = {}
          BY <4>1, <5>1, <5>2
        <5>3. CASE page[w].rows # {}
          BY <2>1, <4>1, <5>1, <5>3
        <5> QED
          BY <5>2, <5>3
      <4> QED
        BY <4>1, <4>2 DEF JobsOK
    <3>4. scanned' \in [Job -> Nat]
      <4>0. scanned[j] \in Nat
        BY <2>1 DEF JobsOK
      <4>1. scanned[j] + Cardinality(page[w].rows) \in Nat
        BY <4>0, <2>2
      <4> QED
        BY <1>11, <4>1 DEF CommitBatch, JobsOK
    <3>6. seen' \in [Job -> SUBSET Event]
      BY <1>11, <2>1 DEF CommitBatch, JobsOK
    <3>5. \A k \in Job : state'[k] = "running" <=> owner'[k] # 0
      BY <1>11, <2>1 DEF CommitBatch, JobsOK
    <3> QED
      BY <1>11, <3>1, <3>2, <3>3, <3>4, <3>5, <3>6 DEF CommitBatch, JobsOK
  <2>4. DataOK'
    <3>1. page[w].new \in [Event -> SUBSET Artifact]
      BY DEF WorkersOK
    <3>2. frames' \in [Event -> SUBSET Artifact]
      BY <1>11, <3>1 DEF CommitBatch, DataOK
    <3> QED
      BY <1>11, <3>2 DEF CommitBatch, DataOK
  <2>5. WorkersOK'
    BY <1>11, <2>1, LeaveType, KeepType DEF CommitBatch
  <2> QED
    BY <1>11, <2>3, <2>4, <2>5 DEF CommitBatch, TypeOK
<1>12. ASSUME NEW w \in Worker, CommitConflict(w) \/ BatchError(w) PROVE TypeOK'
  <2>1. pc[w] # "idle"
    BY <1>12 DEF CommitConflict, BatchError, Fenced
  <2> QED
    BY <1>12, <2>1, KeepType, SameJobs, SameData DEF CommitConflict, BatchError, TypeOK
<1>13. ASSUME NEW w \in Worker, Fail(w) PROVE TypeOK'
  <2>1. claim[w].job \in Job
    BY <1>13 DEF Fail, WorkersOK
  <2>2. FailedState(claim[w].job) \in (Active \cup Terminal) \ {"running"}
    BY DEF FailedState, Active, Terminal
  <2>3. JobsOK'
    <3>1. state' \in [Job -> Active \cup Terminal \cup {"absent", "gone"}]
      BY <1>13, <2>2 DEF Fail, JobsOK
    <3>2. owner' \in [Job -> 0..MaxAttempts]
      BY <1>13, Attempts DEF Fail, JobsOK
    <3>3. \A k \in Job : state'[k] = "running" <=> owner'[k] # 0
      BY <1>13, <2>1, <2>2 DEF Fail, JobsOK
    <3> QED
      BY <1>13, <3>1, <3>2, <3>3 DEF Fail, JobsOK
  <2> QED
    BY <1>13, <2>3, LeaveType, SameData DEF Fail, TypeOK
<1>14. ASSUME NEW j \in Job, LeaseExpires(j) \/ BackoffElapses(j) PROVE TypeOK'
  <2>1. JobsOK'
    BY <1>14 DEF LeaseExpires, BackoffElapses, JobsOK
  <2> QED
    BY <1>14, <2>1, SameData, SameWorkers DEF LeaseExpires, BackoffElapses, TypeOK
<1>15. ASSUME NEW e \in Event, OperatorResolve(e) \/ DeleteEvent(e) PROVE TypeOK'
  <2>1. DataOK'
    <3>1. CASE OperatorResolve(e)
      <4>1. frames[e] \cup arts[ReleaseOf[e]] \in SUBSET Artifact
        BY DEF DataOK
      <4>2. cli' \in [ev : {0} \cup Event, new : SUBSET Artifact]
        BY <3>1, <4>1 DEF OperatorResolve
      <4> QED
        BY <3>1, <4>2 DEF OperatorResolve, DataOK
    <3>2. CASE DeleteEvent(e)
      BY <3>2 DEF DeleteEvent, DataOK
    <3> QED
      BY <1>15, <3>1, <3>2
  <2> QED
    BY <1>15, <2>1, SameJobs, SameWorkers DEF OperatorResolve, DeleteEvent, TypeOK
<1>16. CASE OperatorWrite
  <2>1. DataOK'
    <3>1. NoRewrite \in [ev : {0} \cup Event, new : SUBSET Artifact]
      BY DEF NoRewrite
    <3>2. frames' \in [Event -> SUBSET Artifact]
      BY <1>16 DEF OperatorWrite, DataOK
    <3> QED
      BY <1>16, <3>1, <3>2 DEF OperatorWrite, DataOK
  <2> QED
    BY <1>16, <2>1, SameJobs, SameWorkers DEF OperatorWrite, TypeOK
<1>17. CASE Reset
  <2>1. JobsOK'
    BY <1>17, SMTT(30) DEF Reset, JobsOK
  <2>2. DataOK'
    BY <1>17 DEF Reset, DataOK
  <2> QED
    BY <1>17, <2>1, <2>2, SameWorkers DEF Reset, TypeOK
<1>18. CASE UNCHANGED vars
  BY <1>18, SameJobs, SameData, SameWorkers DEF TypeOK, vars
<1> QED
  BY <1>2, <1>3, <1>4, <1>5, <1>6, <1>7, <1>8, <1>9, <1>10, <1>11, <1>12, <1>13, <1>14, <1>15,
     <1>16, <1>17, <1>18 DEF Next, Command, WorkerStep

\* Every column of table jobs, and every worker's memory, stays in its domain.
THEOREM TypeCorrect == Spec => []TypeOK
<1> QED
  BY TypeInit, TypeStep, PTL DEF Spec

-----------------------------------------------------------------------------
\* Only a claim makes a job run; no other action moves a running job to another
\* release.  Actions that leave the jobs table alone are grouped as quiet.
Quiet(w) == LoseJob(w) \/ ReadBatch(w) \/ BeginCommit(w) \/ CommitLost(w)
            \/ CommitConflict(w) \/ FailLost(w) \/ BatchError(w) \/ Crash(w)

\* Quiet steps write nothing to the database.
LEMMA QuietJobs ==
  ASSUME NEW w \in Worker, Quiet(w)
  PROVE  UNCHANGED <<generation, jobVars, dataVars>>
  BY DEF Quiet, LoseJob, ReadBatch, BeginCommit, CommitLost, CommitConflict, FailLost, BatchError,
         Crash

\* The case split every step proof below uses.
LEMMA StepCases ==
  ASSUME [Next]_vars
  PROVE  \/ \E j \in Job, r \in Release : Insert(j, r) /\ UNCHANGED <<generation, stored, frames, workerVars>>
         \/ \E j \in Job : Cancel(j)
         \/ \E w \in Worker, j \in Job : Claim(w, j)
         \/ \E w \in Worker : ClaimNothing(w) \/ Quiet(w)
         \/ \E w \in Worker : CommitStopped(w) \/ CommitBatch(w) \/ Fail(w)
         \/ \E j \in Job : LeaseExpires(j) \/ BackoffElapses(j)
         \/ (\E e \in Event : DeleteEvent(e)) \/ Reset
         \/ UNCHANGED <<generation, jobVars, stored, workerVars>>
<1>1. ASSUME NEW r \in Release, NEW j \in Job, NEW k \in Key, CreateJob(r, k, j)
      PROVE  Insert(j, r) /\ UNCHANGED <<generation, stored, frames, workerVars>>
  BY <1>1 DEF CreateJob
<1>2. ASSUME NEW r \in Release, NEW j \in Job, NEW a \in Artifact, Upload(r, a, j)
      PROVE  Insert(j, r) /\ UNCHANGED <<generation, stored, frames, workerVars>>
  BY <1>2 DEF Upload
<1>3. ASSUME NEW e \in Event, OperatorResolve(e)
      PROVE  UNCHANGED <<generation, jobVars, stored, workerVars>>
  BY <1>3 DEF OperatorResolve
<1>4. OperatorWrite => UNCHANGED <<generation, jobVars, stored, workerVars>>
  BY DEF OperatorWrite
<1>5. UNCHANGED vars => UNCHANGED <<generation, jobVars, stored, workerVars>>
  BY DEF vars, dataVars
<1> QED
  BY <1>1, <1>2, <1>3, <1>4, <1>5 DEF Next, Command, WorkerStep, Quiet

\* A job that runs was running before, for the same release, or has just been claimed.
LEMMA RunningByClaim ==
  ASSUME TypeOK, [Next]_vars, NEW k \in Job, state'[k] = "running"
  PROVE  \/ \E w \in Worker : Claim(w, k)
         \/ state[k] = "running" /\ command'[k] = command[k]
<1> USE DEF TypeOK, JobsOK
<1>1. ASSUME NEW j \in Job, NEW r \in Release, Insert(j, r)
      PROVE  state[k] = "running" /\ command'[k] = command[k]
  BY <1>1 DEF Insert
<1>2. ASSUME NEW j \in Job, Cancel(j)
      PROVE  state[k] = "running" /\ command'[k] = command[k]
  BY <1>2 DEF Cancel
<1>3. ASSUME NEW w \in Worker, NEW j \in Job, Claim(w, j), j # k
      PROVE  state[k] = "running" /\ command'[k] = command[k]
  BY <1>3, SweptType DEF Claim
<1>4. ASSUME NEW w \in Worker, ClaimNothing(w) \/ Quiet(w)
      PROVE  state[k] = "running" /\ command'[k] = command[k]
  BY <1>4, SweptType, QuietJobs DEF ClaimNothing, jobVars
<1>5. ASSUME NEW w \in Worker, CommitStopped(w) \/ CommitBatch(w) \/ Fail(w)
      PROVE  state[k] = "running" /\ command'[k] = command[k]
  <2>1. CASE CommitStopped(w)
    BY <2>1 DEF CommitStopped
  <2>2. CASE CommitBatch(w)
    BY <2>2 DEF CommitBatch
  <2>3. CASE Fail(w)
    BY <2>3 DEF Fail, FailedState
  <2> QED
    BY <1>5, <2>1, <2>2, <2>3
<1>6. ASSUME NEW j \in Job, LeaseExpires(j) \/ BackoffElapses(j)
      PROVE  state[k] = "running" /\ command'[k] = command[k]
  BY <1>6 DEF LeaseExpires, BackoffElapses
<1>7. ASSUME (\E e \in Event : DeleteEvent(e)) \/ Reset \/ UNCHANGED <<generation, jobVars, stored, workerVars>>
      PROVE  state[k] = "running" /\ command'[k] = command[k]
  BY <1>7 DEF DeleteEvent, Reset, jobVars
<1>8. ASSUME NEW w \in Worker, NEW j \in Job, Claim(w, j)
      PROVE  (\E v \in Worker : Claim(v, k)) \/ (state[k] = "running" /\ command'[k] = command[k])
  <2>1. CASE j = k
    BY <1>8, <2>1
  <2>2. CASE j # k
    BY <1>3, <1>8, <2>2
  <2> QED
    BY <2>1, <2>2
<1> HIDE DEF TypeOK, JobsOK
<1> QED
  BY <1>1, <1>2, <1>4, <1>5, <1>6, <1>7, <1>8, StepCases

\* A claim looks at every other job of the project after the sweep, so two jobs of a
\* project never run together, expired leases included.
LEMMA OneRunningStep == TypeOK /\ OneRunningPerProject /\ [Next]_vars => OneRunningPerProject'
<1> SUFFICES ASSUME TypeOK, OneRunningPerProject, [Next]_vars,
                    NEW j \in Job, NEW k \in Job,
                    state'[j] = "running", state'[k] = "running",
                    ProjectOfJob(j)' = ProjectOfJob(k)'
             PROVE  j = k
  BY DEF OneRunningPerProject
<1>1. ASSUME NEW w \in Worker, NEW a \in Job, NEW b \in Job, Claim(w, a), state'[b] = "running",
             ProjectOfJob(a)' = ProjectOfJob(b)'
      PROVE  a = b
  <2>1. b # a => SweptState(b) = "running"
    BY <1>1 DEF Claim
  <2>2. ProjectOfJob(a) = ProjectOfJob(b)
    BY <1>1 DEF Claim, ProjectOfJob
  <2> QED
    BY <1>1, <2>1, <2>2 DEF Claim, Claimable
<1>2. CASE \E w \in Worker : Claim(w, j)
  BY <1>1, <1>2
<1>3. CASE \E w \in Worker : Claim(w, k)
  BY <1>1, <1>3
<1>4. CASE /\ state[j] = "running" /\ command'[j] = command[j]
           /\ state[k] = "running" /\ command'[k] = command[k]
  BY <1>4 DEF OneRunningPerProject, ProjectOfJob
<1> QED
  BY <1>2, <1>3, <1>4, RunningByClaim

\* Project work is serialized: two jobs of one project never run at the same time.
THEOREM ProjectSerialized == Spec => []OneRunningPerProject
<1>1. Init => OneRunningPerProject
  BY DEF Init, OneRunningPerProject
<1> QED
  BY <1>1, TypeCorrect, OneRunningStep, PTL DEF Spec

-----------------------------------------------------------------------------
\* What a step may do, seen from one job's row.
SameRow(k) ==
    /\ state'[k] = state[k] /\ attempt'[k] = attempt[k] /\ owner'[k] = owner[k]
SameRest(k) ==
    /\ command'[k] = command[k] /\ cancel'[k] = cancel[k] /\ scanned'[k] = scanned[k]
    /\ cursor'[k] = cursor[k] /\ seen'[k] = seen[k]
Closes(k) ==
    /\ SameRest(k) /\ attempt'[k] = attempt[k] /\ owner'[k] = 0
    /\ state[k] \in Active /\ state'[k] \in {"failed", "cancelled", "retry_wait"}
    /\ state'[k] = "retry_wait" => ~cancel[k]
    /\ state'[k] = "failed" => ~cancel[k] \/ command[k].gen # generation

\* The same case split, seen from one job: the steps of other jobs are summed up.
LEMMA JobSteps ==
  ASSUME TypeOK, [Next]_vars, NEW k \in Job
  PROVE  \/ SameRow(k) /\ SameRest(k) /\ generation' = generation
         \/ (\E r \in Release : Insert(k, r)) /\ generation' = generation
         \/ Cancel(k)
         \/ \E w \in Worker : Claim(w, k)
         \/ Closes(k) /\ generation' = generation
         \/ \E w \in Worker : CommitBatch(w) /\ claim[w].job = k
         \/ Reset
<1> DEFINE Goal == \/ SameRow(k) /\ SameRest(k) /\ generation' = generation
                   \/ (\E r \in Release : Insert(k, r)) /\ generation' = generation
                   \/ Cancel(k)
                   \/ \E w \in Worker : Claim(w, k)
                   \/ Closes(k) /\ generation' = generation
                   \/ \E w \in Worker : CommitBatch(w) /\ claim[w].job = k
                   \/ Reset
<1>t. JobsOK
  BY DEF TypeOK
<1>1. ASSUME NEW j \in Job, NEW r \in Release, Insert(j, r), UNCHANGED generation PROVE Goal
  <2>1. CASE j # k
    BY <1>1, <1>t, <2>1 DEF Insert, SameRow, SameRest, JobsOK
  <2> QED
    BY <1>1, <2>1
<1>2. ASSUME NEW j \in Job, Cancel(j) PROVE Goal
  <2>1. CASE j # k
    BY <1>2, <1>t, <2>1 DEF Cancel, SameRow, SameRest, JobsOK
  <2> QED
    BY <1>2, <2>1
<1>s. ASSUME Doomed(k), SameRest(k), attempt'[k] = attempt[k], owner'[k] = 0,
             state'[k] = SweptState(k)
      PROVE  Closes(k)
  BY <1>s DEF Doomed, SweptState, Closes
<1>3. ASSUME NEW w \in Worker, NEW j \in Job, Claim(w, j) PROVE Goal
  <2>1. CASE j # k /\ ~Doomed(k)
    BY <1>3, <1>t, <2>1 DEF Claim, SweptState, SameRow, SameRest, JobsOK
  <2>2. CASE j # k /\ Doomed(k)
    <3>1. SameRest(k) /\ generation' = generation
      BY <1>3 DEF Claim, SameRest
    <3>2. attempt'[k] = attempt[k] /\ owner'[k] = 0 /\ state'[k] = SweptState(k)
      BY <1>3, <1>t, <2>2 DEF Claim, JobsOK
    <3> QED
      BY <1>s, <2>2, <3>1, <3>2
  <2>3. CASE j = k
    BY <1>3, <2>3
  <2> QED
    BY <2>1, <2>2, <2>3
<1>4. ASSUME NEW w \in Worker, ClaimNothing(w) PROVE Goal
  <2>1. CASE ~Doomed(k)
    BY <1>4, <2>1 DEF ClaimNothing, SweptState, SameRow, SameRest
  <2>2. CASE Doomed(k)
    <3>1. SameRest(k) /\ generation' = generation
      BY <1>4 DEF ClaimNothing, SameRest
    <3>2. attempt'[k] = attempt[k] /\ owner'[k] = 0 /\ state'[k] = SweptState(k)
      BY <1>4, <2>2 DEF ClaimNothing
    <3> QED
      BY <1>s, <2>2, <3>1, <3>2
  <2> QED
    BY <2>1, <2>2
<1>5. ASSUME NEW w \in Worker, Quiet(w) PROVE Goal
  BY <1>5, QuietJobs DEF jobVars, SameRow, SameRest
<1>6. ASSUME NEW w \in Worker, CommitStopped(w) PROVE Goal
  <2>1. CASE claim[w].job # k
    BY <1>6, <1>t, <2>1 DEF CommitStopped, SameRow, SameRest, JobsOK
  <2>2. CASE claim[w].job = k
    <3>1. SameRest(k) /\ generation' = generation /\ attempt'[k] = attempt[k]
      BY <1>6 DEF CommitStopped, SameRest
    <3>2. owner'[k] = 0
      BY <1>6, <1>t, <2>2 DEF CommitStopped, JobsOK
    <3>3. state[k] = "running"
      BY <1>6, <2>2 DEF CommitStopped, Fenced, Holds
    <3>4. state'[k] = IF command[k].gen # generation THEN "failed" ELSE "cancelled"
      BY <1>6, <1>t, <2>2 DEF CommitStopped, JobsOK
    <3> QED
      BY <3>1, <3>2, <3>3, <3>4 DEF Closes, Active
  <2> QED
    BY <2>1, <2>2
<1>7. ASSUME NEW w \in Worker, CommitBatch(w) PROVE Goal
  <2>1. CASE claim[w].job # k
    BY <1>7, <1>t, <2>1 DEF CommitBatch, SameRow, SameRest, JobsOK
  <2> QED
    BY <1>7, <2>1
<1>8. ASSUME NEW w \in Worker, Fail(w) PROVE Goal
  <2>1. CASE claim[w].job # k
    BY <1>8, <1>t, <2>1 DEF Fail, SameRow, SameRest, JobsOK
  <2>2. CASE claim[w].job = k
    <3>1. SameRest(k) /\ generation' = generation /\ attempt'[k] = attempt[k]
      BY <1>8 DEF Fail, SameRest
    <3>2. owner'[k] = 0
      BY <1>8, <1>t, <2>2 DEF Fail, JobsOK
    <3>3. state[k] = "running"
      BY <1>8, <2>2 DEF Fail, Holds
    <3>4. state'[k] = FailedState(k)
      BY <1>8, <1>t, <2>2 DEF Fail, JobsOK
    <3> QED
      BY <3>1, <3>2, <3>3, <3>4 DEF Closes, Active, FailedState
  <2> QED
    BY <2>1, <2>2
<1>9. ASSUME NEW j \in Job, LeaseExpires(j) \/ BackoffElapses(j) PROVE Goal
  BY <1>9 DEF LeaseExpires, BackoffElapses, SameRow, SameRest
<1>10. ASSUME NEW e \in Event, DeleteEvent(e) PROVE Goal
  BY <1>10 DEF DeleteEvent, jobVars, SameRow, SameRest
<1>11. ASSUME UNCHANGED <<generation, jobVars, stored, workerVars>> PROVE Goal
  BY <1>11 DEF jobVars, SameRow, SameRest
<1>12. ASSUME Reset PROVE Goal
  BY <1>12
<1> HIDE DEF Goal
<1>13. Goal
  BY <1>1, <1>2, <1>3, <1>4, <1>5, <1>6, <1>7, <1>8, <1>9, <1>10, <1>11, <1>12, StepCases
<1> QED
  BY <1>13 DEF Goal

\* What the interesting steps do to the row of their own job.
LEMMA InsertRow ==
  ASSUME JobsOK, NEW k \in Job, NEW r \in Release, Insert(k, r)
  PROVE  /\ state[k] = "absent" /\ state'[k] = "queued"
         /\ command'[k] = [release |-> r, gen |-> generation,
                           scope |-> {e \in stored : ReleaseOf[e] = r}]
         /\ cancel'[k] = cancel[k] /\ attempt'[k] = attempt[k] /\ owner'[k] = owner[k]
         /\ scanned'[k] = scanned[k] /\ cursor'[k] = cursor[k] /\ seen'[k] = seen[k]
  BY DEF Insert, JobsOK

\* The row of a job whose cancellation is accepted.
LEMMA CancelRow ==
  ASSUME JobsOK, NEW k \in Job, Cancel(k)
  PROVE  /\ state[k] \in Active /\ ~cancel[k] /\ cancel'[k]
         /\ state'[k] \in {state[k], "cancelled"}
         /\ attempt'[k] = attempt[k] /\ owner'[k] = owner[k] /\ command'[k] = command[k]
         /\ scanned'[k] = scanned[k] /\ cursor'[k] = cursor[k] /\ seen'[k] = seen[k]
         /\ generation' = generation
  BY DEF Cancel, JobsOK

\* The row of the job a worker claims.
LEMMA ClaimRow ==
  ASSUME JobsOK, NEW k \in Job, NEW w \in Worker, Claim(w, k)
  PROVE  /\ state[k] \in Active /\ state'[k] = "running" /\ ~cancel[k]
         /\ command[k].gen = generation
         /\ attempt'[k] = attempt[k] + 1 /\ owner'[k] = attempt[k] + 1 /\ SameRest(k)
         /\ generation' = generation
  BY DEF Claim, Claimable, JobsOK, SameRest, Active

\* The row of the job a batch commits to.
LEMMA CommitRow ==
  ASSUME TypeOK, NEW k \in Job, NEW w \in Worker, CommitBatch(w), claim[w].job = k
  PROVE  /\ state[k] = "running" /\ state'[k] = (IF Done(w) THEN "succeeded" ELSE "running")
         /\ owner[k] = claim[w].token /\ owner'[k] = (IF Done(w) THEN 0 ELSE owner[k])
         /\ ~cancel[k] /\ cancel'[k] = cancel[k] /\ command[k].gen = generation
         /\ command'[k] = command[k] /\ attempt'[k] = attempt[k]
         /\ scanned'[k] = scanned[k] + Cardinality(page[w].rows)
         /\ seen'[k] = seen[k] \cup page[w].rows
         /\ generation' = generation /\ stored' = stored
         /\ pc[w] = "tx"
<1>1. state[k] = "running" /\ owner[k] = claim[w].token /\ pc[w] = "tx"
  BY DEF CommitBatch, Fenced, Holds
<1>2. ~cancel[k] /\ command[k].gen = generation
  BY DEF CommitBatch, Stopped
<1>3. /\ scanned'[k] = scanned[k] + Cardinality(page[w].rows)
      /\ seen'[k] = seen[k] \cup page[w].rows
      /\ owner'[k] = (IF Done(w) THEN 0 ELSE owner[k])
  BY DEF CommitBatch, TypeOK, JobsOK
<1>4. state'[k] = (IF Done(w) THEN "succeeded" ELSE "running")
  BY <1>1 DEF CommitBatch, TypeOK, JobsOK
<1> QED
  BY <1>1, <1>2, <1>3, <1>4 DEF CommitBatch

\* The cursor moves to the last row of the page, if there is one.
LEMMA CommitCursor ==
  ASSUME TypeOK, NEW k \in Job, NEW w \in Worker, CommitBatch(w), claim[w].job = k
  PROVE  /\ page[w].rows = {} => cursor'[k] = cursor[k]
         /\ page[w].rows # {} => /\ cursor'[k] \in page[w].rows
                                /\ \A f \in page[w].rows : f <= cursor'[k]
<1>1. PICK last \in IF page[w].rows = {} THEN {cursor[k]}
                     ELSE {e \in page[w].rows : \A f \in page[w].rows : f <= e} :
        cursor' = [cursor EXCEPT ![k] = last]
  BY DEF CommitBatch
<1>2. cursor'[k] = last
  BY <1>1 DEF TypeOK, JobsOK
<1> QED
  BY <1>1, <1>2

\* A reset leaves nothing to run.
LEMMA ResetRow ==
  ASSUME NEW k \in Job, Reset
  PROVE  /\ state'[k] = (IF state[k] = "absent" THEN "absent" ELSE "gone")
         /\ SameRest(k) /\ attempt'[k] = attempt[k] /\ owner'[k] = 0
         /\ stored' = {}
  BY DEF Reset, SameRest

-----------------------------------------------------------------------------
\* Only jobs of the current generation are active: enqueue stamps them, reset removes them.
LEMMA CurrentStep == TypeOK /\ ActiveIsCurrent /\ [Next]_vars => ActiveIsCurrent'
<1> SUFFICES ASSUME TypeOK, ActiveIsCurrent, [Next]_vars, NEW k \in Job, state'[k] \in Active
             PROVE  command'[k].gen = generation'
  BY DEF ActiveIsCurrent
<1>1. state[k] \in Active => command[k].gen = generation
  BY DEF ActiveIsCurrent
<1>2. JobsOK
  BY DEF TypeOK
<1>3. CASE SameRow(k) /\ SameRest(k) /\ generation' = generation
  BY <1>1, <1>3 DEF SameRow, SameRest
<1>4. CASE (\E r \in Release : Insert(k, r)) /\ generation' = generation
  <2>1. PICK r \in Release : Insert(k, r)
    BY <1>4
  <2>2. command'[k] = [release |-> r, gen |-> generation,
                       scope |-> {e \in stored : ReleaseOf[e] = r}]
    BY <1>2, <2>1, InsertRow
  <2> QED
    BY <1>4, <2>2
<1>5. CASE Cancel(k)
  BY <1>1, <1>2, <1>5, CancelRow
<1>6. CASE \E w \in Worker : Claim(w, k)
  BY <1>2, <1>6, ClaimRow DEF SameRest
<1>7. CASE Closes(k) /\ generation' = generation
  BY <1>1, <1>7 DEF Closes, SameRest
<1>8. CASE \E w \in Worker : CommitBatch(w) /\ claim[w].job = k
  BY <1>8, CommitRow
<1>9. CASE Reset
  BY <1>9, ResetRow DEF Active
<1> QED
  BY <1>3, <1>4, <1>5, <1>6, <1>7, <1>8, <1>9, JobSteps

\* Nothing is ever written to an identifier nobody has inserted.
LEMMA BlankStep == TypeOK /\ AbsentIsBlank /\ [Next]_vars => AbsentIsBlank'
<1> SUFFICES ASSUME TypeOK, AbsentIsBlank, [Next]_vars, NEW k \in Job, state'[k] = "absent"
             PROVE  ~cancel'[k] /\ seen'[k] = {} /\ cursor'[k] = 0
  BY DEF AbsentIsBlank
<1>1. state[k] = "absent" => ~cancel[k] /\ seen[k] = {} /\ cursor[k] = 0
  BY DEF AbsentIsBlank
<1>2. JobsOK
  BY DEF TypeOK
<1>3. CASE SameRow(k) /\ SameRest(k) /\ generation' = generation
  BY <1>1, <1>3 DEF SameRow, SameRest
<1>4. CASE (\E r \in Release : Insert(k, r)) /\ generation' = generation
  BY <1>2, <1>4, InsertRow
<1>5. CASE Cancel(k)
  BY <1>2, <1>5, CancelRow DEF Active
<1>6. CASE \E w \in Worker : Claim(w, k)
  BY <1>2, <1>6, ClaimRow
<1>7. CASE Closes(k) /\ generation' = generation
  BY <1>7 DEF Closes
<1>8. CASE \E w \in Worker : CommitBatch(w) /\ claim[w].job = k
  BY <1>8, CommitRow
<1>9. CASE Reset
  BY <1>1, <1>9, ResetRow DEF SameRest
<1> QED
  BY <1>3, <1>4, <1>5, <1>6, <1>7, <1>8, <1>9, JobSteps

\* Once a job is asked to stop it makes no further progress, and only ends as cancelled
\* (or vanishes with its instance's data).
LEMMA CancelStep ==
  ASSUME TypeOK, ActiveIsCurrent, AbsentIsBlank, [Next]_vars, NEW k \in Job, cancel[k]
  PROVE  cancel'[k] /\ state'[k] \in {state[k], "cancelled", "gone"} /\ scanned'[k] = scanned[k]
<1>2. JobsOK
  BY DEF TypeOK
<1>3. CASE SameRow(k) /\ SameRest(k) /\ generation' = generation
  BY <1>3 DEF SameRow, SameRest
<1>4. CASE (\E r \in Release : Insert(k, r)) /\ generation' = generation
  BY <1>2, <1>4, InsertRow DEF AbsentIsBlank
<1>5. CASE Cancel(k)
  BY <1>2, <1>5, CancelRow
<1>6. CASE \E w \in Worker : Claim(w, k)
  BY <1>2, <1>6, ClaimRow
<1>7. CASE Closes(k) /\ generation' = generation
  BY <1>7 DEF Closes, SameRest, ActiveIsCurrent
<1>8. CASE \E w \in Worker : CommitBatch(w) /\ claim[w].job = k
  BY <1>8, CommitRow
<1>9. CASE Reset
  BY <1>9, ResetRow DEF SameRest, AbsentIsBlank
<1> QED
  BY <1>3, <1>4, <1>5, <1>6, <1>7, <1>8, <1>9, JobSteps

\* Once cancellation is requested a job never advances, retries or succeeds, although a
\* worker may be in the middle of a batch: CommitBatch sees the flag under the row lock.
THEOREM CancellationIsFinal == Spec => CancelIsFinal
<1> DEFINE I == TypeOK /\ ActiveIsCurrent /\ AbsentIsBlank
           A == \A j \in Job : cancel[j] =>
                  /\ cancel'[j]
                  /\ state'[j] \in {state[j], "cancelled", "gone"}
                  /\ scanned'[j] = scanned[j]
<1>1. Init => I
  BY TypeInit DEF Init, ActiveIsCurrent, AbsentIsBlank, Active
<1>2. I /\ [Next]_vars => I'
  BY TypeStep, CurrentStep, BlankStep
<1>3. I /\ [Next]_vars => [A]_vars
  BY CancelStep
<1> QED
  BY <1>1, <1>2, <1>3, PTL DEF Spec, CancelIsFinal

-----------------------------------------------------------------------------
\* What a batch would write has at least what the batch read.
PageGrows == \A w \in Worker : \A e \in Event : page[w].orig[e] \subseteq page[w].new[e]

\* Only ReadBatch fills a page, and resolving only adds.
LEMMA GrowsStep == TypeOK /\ PageGrows /\ [Next]_vars => PageGrows'
<1> SUFFICES ASSUME TypeOK, PageGrows, [Next]_vars PROVE PageGrows'
  OBVIOUS
<1>t. WorkersOK
  BY DEF TypeOK
<1>1. ASSUME NEW v \in Worker, NEW place, NEW c, Take(v, place, c) PROVE PageGrows'
  BY <1>1, <1>t DEF Take, WorkersOK, PageGrows, NoPage
<1>2. ASSUME page' = page PROVE PageGrows'
  BY <1>2 DEF PageGrows
<1>3. ASSUME NEW v \in Worker, ReadBatch(v) PROVE PageGrows'
  <2>1. PICK rows : page' = [page EXCEPT ![v] =
              [rows |-> rows,
               orig |-> [e \in Event |-> IF e \in rows THEN frames[e] ELSE {}],
               new |-> [e \in Event |-> IF e \in rows
                         THEN frames[e] \cup arts[command[claim[v].job].release] ELSE {}]]]
    BY <1>3 DEF ReadBatch
  <2>2. ASSUME NEW w \in Worker, NEW e \in Event
        PROVE  page'[w].orig[e] \subseteq page'[w].new[e]
    <3>1. CASE w = v
      BY <1>t, <2>1, <3>1 DEF WorkersOK
    <3>2. CASE w # v
      BY <1>t, <2>1, <3>2 DEF WorkersOK, PageGrows
    <3> QED
      BY <3>1, <3>2
  <2> QED
    BY <2>2 DEF PageGrows
<1>4. ASSUME NEW v \in Worker, Quiet(v) PROVE PageGrows'
  BY <1>1, <1>2, <1>3, <1>4 DEF Quiet, LoseJob, BeginCommit, CommitLost, FailLost, Crash, Leave,
     CommitConflict, BatchError, Keep
<1>5. ASSUME NEW v \in Worker, CommitStopped(v) \/ CommitBatch(v) \/ Fail(v) PROVE PageGrows'
  BY <1>1, <1>5 DEF CommitStopped, CommitBatch, Fail, Leave, Keep
<1>6. ASSUME NEW v \in Worker, NEW j \in Job, Claim(v, j) PROVE PageGrows'
  BY <1>1, <1>6 DEF Claim
<1>7. ASSUME NEW j \in Job, Cancel(j) \/ LeaseExpires(j) \/ BackoffElapses(j) PROVE page' = page
  BY <1>7 DEF Cancel, LeaseExpires, BackoffElapses, workerVars
<1>8. ASSUME (\E e \in Event : DeleteEvent(e)) \/ Reset \/ (\E v \in Worker : ClaimNothing(v))
      PROVE  page' = page
  BY <1>8 DEF DeleteEvent, Reset, ClaimNothing, workerVars
<1>9. UNCHANGED workerVars => page' = page
  BY DEF workerVars
<1> QED
  BY <1>2, <1>4, <1>5, <1>6, <1>7, <1>8, <1>9, StepCases

\* A batch never takes away what another writer resolved in an event since the batch read
\* it: the row must still hold what was read, and what is written holds at least that.
THEOREM BatchNeverUndoes == Spec => NeverUndoes
<1> DEFINE I == TypeOK /\ PageGrows
           A == \A w \in Worker : CommitBatch(w) => \A e \in Event : frames[e] \subseteq frames'[e]
<1>1. Init => I
  BY TypeInit DEF Init, PageGrows, NoPage
<1>2. I /\ [Next]_vars => I'
  BY TypeStep, GrowsStep
<1>3. I /\ [Next]_vars => [A]_vars
  <2>1. ASSUME I, NEW w \in Worker, CommitBatch(w), NEW e \in Event
        PROVE  frames[e] \subseteq frames'[e]
    <3>1. frames' = [d \in Event |-> IF d \in Changes(w) THEN page[w].new[d] ELSE frames[d]]
      BY <2>1 DEF CommitBatch
    <3>2. e \in Changes(w) => frames[e] = page[w].orig[e]
      BY <2>1 DEF CommitBatch, Conflict
    <3> QED
      BY <2>1, <3>1, <3>2 DEF PageGrows
  <2> QED
    BY <2>1
<1> QED
  BY <1>1, <1>2, <1>3, PTL DEF Spec, NeverUndoes
-----------------------------------------------------------------------------
(* The checkpoint of a job is exact and a successful job is complete. *)

\* A claim is told apart from every earlier one: the tokens workers remember are
\* attempts already counted, and no two workers remember the same one.
Live(w) == pc[w] # "idle" /\ state[claim[w].job] # "gone"
ClaimsDistinct ==
    \A w \in Worker : Live(w) =>
        /\ state[claim[w].job] # "absent"
        /\ claim[w].token <= attempt[claim[w].job]
        /\ \A v \in Worker : Live(v) /\ claim[v] = claim[w] => v = w

\* Everything at or before the cursor that is still stored has been scanned.
CursorCovers ==
    \A j \in Job : \A e \in command[j].scope \cap stored : e <= cursor[j] => e \in seen[j]

\* The page a worker holds is still the next page of its job as long as its claim
\* stands: nobody else moves the cursor.
PageIsNext(w) ==
    LET j == claim[w].job
        rows == page[w].rows
    IN  /\ \A e \in rows : e > cursor[j]
        /\ Cardinality(rows) <= Limit(j)
        /\ \A e \in rows, f \in Beyond(j) : f < e => f \in rows
        /\ Cardinality(rows) < Limit(j) => Beyond(j) \subseteq rows
Prepared(w) == pc[w] \in {"resolved", "tx"} /\ Holds(w) /\ ~cancel[claim[w].job]
PageSound == \A w \in Worker : Prepared(w) => PageIsNext(w)

IInv ==
    /\ TypeOK /\ ActiveIsCurrent /\ AbsentIsBlank /\ ClaimsDistinct
    /\ CursorCovers /\ PageSound /\ CheckpointExact /\ SuccessCoversScope


\* Nothing is stored anew for a job: deletions only shrink its scope.
LEMMA StoredShrinks == ASSUME [Next]_vars PROVE stored' \subseteq stored
<1>1. ASSUME NEW w \in Worker, CommitStopped(w) \/ CommitBatch(w) \/ Fail(w) \/ ClaimNothing(w)
      PROVE  stored' = stored
  BY <1>1 DEF CommitStopped, CommitBatch, Fail, ClaimNothing, dataVars
<1>2. ASSUME NEW w \in Worker, Quiet(w) PROVE stored' = stored
  BY <1>2, QuietJobs DEF dataVars
<1>3. ASSUME NEW w \in Worker, NEW j \in Job, Claim(w, j) PROVE stored' = stored
  BY <1>3 DEF Claim, dataVars
<1>4. ASSUME NEW j \in Job, Cancel(j) \/ LeaseExpires(j) \/ BackoffElapses(j)
      PROVE  stored' = stored
  BY <1>4 DEF Cancel, LeaseExpires, BackoffElapses, dataVars
<1>5. ASSUME (\E e \in Event : DeleteEvent(e)) \/ Reset PROVE stored' \subseteq stored
  BY <1>5 DEF DeleteEvent, Reset
<1> QED
  BY <1>1, <1>2, <1>3, <1>4, <1>5, StepCases

\* The memory of one worker: it becomes idle, or keeps its claim, or starts one.
LEMMA MemorySteps ==
  ASSUME TypeOK, [Next]_vars, NEW w \in Worker, pc'[w] # "idle"
  PROVE  \/ pc[w] # "idle" /\ claim'[w] = claim[w]
         \/ \E j \in Job : /\ Claim(w, j) /\ pc[w] = "idle"
                           /\ claim'[w] = [job |-> j, token |-> attempt[j] + 1]
<1> DEFINE Goal == \/ pc[w] # "idle" /\ claim'[w] = claim[w]
                   \/ \E j \in Job : /\ Claim(w, j) /\ pc[w] = "idle"
                                     /\ claim'[w] = [job |-> j, token |-> attempt[j] + 1]
<1>t. WorkersOK
  BY DEF TypeOK
<1>1. UNCHANGED workerVars => Goal
  BY DEF workerVars
<1>2. ASSUME NEW v \in Worker, NEW j \in Job, Claim(v, j) PROVE Goal
  <2>1. CASE v = w
    BY <1>2, <1>t, <2>1 DEF Claim, Take, WorkersOK
  <2>2. CASE v # w
    BY <1>2, <1>t, <2>2 DEF Claim, Take, WorkersOK
  <2> QED
    BY <2>1, <2>2
<1>3. ASSUME NEW v \in Worker, Leave(v) PROVE Goal
  BY <1>3, <1>t DEF Leave, Take, WorkersOK
<1>4. ASSUME NEW v \in Worker, pc[v] # "idle", Keep(v, "batch") \/ Keep(v, "failing") PROVE Goal
  BY <1>4, <1>t DEF Keep, Take, WorkersOK
<1>5. ASSUME NEW v \in Worker, ReadBatch(v) \/ BeginCommit(v) PROVE Goal
  BY <1>5, <1>t DEF ReadBatch, BeginCommit, WorkersOK
<1>6. ASSUME NEW v \in Worker, Quiet(v) PROVE Goal
  <2>1. CASE LoseJob(v) \/ CommitLost(v) \/ FailLost(v) \/ Crash(v)
    BY <1>3, <2>1 DEF LoseJob, CommitLost, FailLost, Crash
  <2>2. CASE CommitConflict(v) \/ BatchError(v)
    BY <1>4, <2>2 DEF CommitConflict, BatchError, Fenced
  <2> QED
    BY <1>5, <1>6, <2>1, <2>2 DEF Quiet
<1>7. ASSUME NEW v \in Worker, CommitStopped(v) \/ CommitBatch(v) \/ Fail(v) PROVE Goal
  <2>1. CASE CommitBatch(v)
    <3>1. pc[v] # "idle"
      BY <2>1 DEF CommitBatch, Fenced
    <3> QED
      BY <1>3, <1>4, <2>1, <3>1 DEF CommitBatch
  <2> QED
    BY <1>3, <1>7, <2>1 DEF CommitStopped, Fail
<1>8. ASSUME NEW j \in Job, Cancel(j) \/ LeaseExpires(j) \/ BackoffElapses(j)
      PROVE  UNCHANGED workerVars
  BY <1>8 DEF Cancel, LeaseExpires, BackoffElapses
<1>9. ASSUME (\E e \in Event : DeleteEvent(e)) \/ Reset \/ (\E v \in Worker : ClaimNothing(v))
      PROVE  UNCHANGED workerVars
  BY <1>9 DEF DeleteEvent, Reset, ClaimNothing
<1> HIDE DEF Goal
<1>10. Goal
  BY <1>1, <1>2, <1>6, <1>7, <1>8, <1>9, StepCases
<1> QED
  BY <1>10 DEF Goal

\* Which steps leave a worker with a page in hand.
LEMMA PageSteps ==
  ASSUME TypeOK, [Next]_vars, NEW w \in Worker, pc'[w] \in {"resolved", "tx"}
  PROVE  \/ /\ pc[w] \in {"resolved", "tx"}
            /\ claim'[w] = claim[w] /\ page'[w] = page[w] /\ ~CommitBatch(w)
         \/ ReadBatch(w)
<1> DEFINE Goal == \/ /\ pc[w] \in {"resolved", "tx"}
                      /\ claim'[w] = claim[w] /\ page'[w] = page[w] /\ ~CommitBatch(w)
                   \/ ReadBatch(w)
<1>t. WorkersOK
  BY DEF TypeOK
<1>c. CommitBatch(w) => pc'[w] \in {"idle", "batch", "failing"}
  BY <1>t DEF CommitBatch, Leave, Keep, Take, WorkersOK
<1>1. UNCHANGED workerVars => Goal
  BY <1>c DEF workerVars
<1>2. ASSUME NEW v \in Worker, NEW place \in {"idle", "batch", "failing"}, NEW c,
             Take(v, place, c)
      PROVE  Goal
  BY <1>2, <1>c, <1>t DEF Take, WorkersOK
<1>3. ASSUME NEW v \in Worker, ReadBatch(v) PROVE Goal
  BY <1>3, <1>c, <1>t DEF ReadBatch, WorkersOK
<1>4. ASSUME NEW v \in Worker, BeginCommit(v) PROVE Goal
  BY <1>4, <1>c, <1>t DEF BeginCommit, WorkersOK
<1>l. ASSUME NEW v \in Worker, Leave(v) \/ Keep(v, "batch") \/ Keep(v, "failing") PROVE Goal
  BY <1>2, <1>l DEF Leave, Keep
<1>6. ASSUME NEW v \in Worker, Quiet(v) PROVE Goal
  BY <1>3, <1>4, <1>6, <1>l DEF Quiet, LoseJob, CommitLost, FailLost, Crash, CommitConflict,
     BatchError
<1>7. ASSUME NEW v \in Worker, CommitStopped(v) \/ CommitBatch(v) \/ Fail(v) PROVE Goal
  BY <1>7, <1>l DEF CommitStopped, CommitBatch, Fail
<1>5. ASSUME NEW v \in Worker, NEW j \in Job, Claim(v, j) PROVE Goal
  BY <1>2, <1>5 DEF Claim
<1>8. ASSUME NEW j \in Job, Cancel(j) \/ LeaseExpires(j) \/ BackoffElapses(j)
      PROVE  UNCHANGED workerVars
  BY <1>8 DEF Cancel, LeaseExpires, BackoffElapses
<1>9. ASSUME (\E e \in Event : DeleteEvent(e)) \/ Reset \/ (\E v \in Worker : ClaimNothing(v))
      PROVE  UNCHANGED workerVars
  BY <1>9 DEF DeleteEvent, Reset, ClaimNothing
<1> HIDE DEF Goal
<1>10. Goal
  BY <1>1, <1>5, <1>6, <1>7, <1>8, <1>9, StepCases
<1> QED
  BY <1>10 DEF Goal

\* Attempts only grow, and a row that vanished stays so.
LEMMA AttemptsGrow ==
  ASSUME TypeOK, [Next]_vars, NEW k \in Job, state'[k] # "gone"
  PROVE  /\ state[k] # "gone" /\ attempt[k] <= attempt'[k]
         /\ state'[k] = "absent" => state[k] = "absent"
         /\ attempt[k] \in Nat /\ attempt'[k] \in Nat
<1>1. JobsOK /\ JobsOK'
  BY TypeStep DEF TypeOK
<1>2. attempt[k] \in Nat /\ attempt'[k] \in Nat
  BY <1>1 DEF JobsOK
<1>3. CASE SameRow(k)
  BY <1>2, <1>3 DEF SameRow
<1>4. ASSUME NEW r \in Release, Insert(k, r)
      PROVE  state[k] = "absent" /\ attempt'[k] = attempt[k]
  BY <1>1, <1>4, InsertRow
<1>5. ASSUME Cancel(k)
      PROVE  /\ state[k] \in Active /\ state'[k] \in {state[k], "cancelled"}
             /\ attempt'[k] = attempt[k]
  BY <1>1, <1>5, CancelRow
<1>6. ASSUME NEW w \in Worker, Claim(w, k)
      PROVE  state[k] \in Active /\ state'[k] = "running" /\ attempt'[k] = attempt[k] + 1
  BY <1>1, <1>6, ClaimRow
<1>7. CASE Closes(k)
  BY <1>2, <1>7 DEF Closes, Active
<1>8. CASE \E w \in Worker : CommitBatch(w) /\ claim[w].job = k
  BY <1>2, <1>8, CommitRow
<1>9. CASE Reset
  BY <1>2, <1>9, ResetRow
<1> QED
  BY <1>2, <1>3, <1>4, <1>5, <1>6, <1>7, <1>8, <1>9, JobSteps DEF Active

\* Every claim starts a new attempt, so no two live workers remember the same one.
LEMMA DistinctStep ==
  ASSUME TypeOK, ClaimsDistinct, [Next]_vars PROVE ClaimsDistinct'
<1>t. WorkersOK /\ WorkersOK'
  BY TypeStep DEF TypeOK
<1>0. ASSUME NEW v \in Worker, Live(v)'
      PROVE  /\ claim'[v].job \in Job /\ state'[claim'[v].job] # "gone" /\ pc'[v] # "idle"
             /\ claim'[v].token \in Nat
  BY <1>0, <1>t DEF Live, WorkersOK
\* A worker that keeps its claim; one that has just made it.
<1>1. ASSUME NEW v \in Worker, Live(v)', pc[v] # "idle", claim'[v] = claim[v]
      PROVE  /\ Live(v) /\ claim[v].job \in Job
             /\ state'[claim[v].job] # "absent"
             /\ claim[v].token <= attempt[claim[v].job]
             /\ claim[v].token <= attempt'[claim[v].job]
  <2>1. /\ state[claim[v].job] # "gone"
        /\ attempt[claim[v].job] <= attempt'[claim[v].job]
        /\ state'[claim[v].job] = "absent" => state[claim[v].job] = "absent"
        /\ attempt[claim[v].job] \in Nat /\ attempt'[claim[v].job] \in Nat
        /\ claim[v].token \in Nat
    BY <1>0, <1>1, AttemptsGrow
  <2>2. Live(v)
    BY <1>1, <2>1 DEF Live
  <2>3. claim[v].token <= attempt[claim[v].job] /\ state[claim[v].job] # "absent"
    BY <2>2 DEF ClaimsDistinct
  <2> QED
    BY <1>0, <1>1, <2>1, <2>2, <2>3
<1>2. ASSUME NEW v \in Worker, NEW j \in Job, Claim(v, j)
      PROVE  /\ attempt[j] \in Nat /\ attempt'[j] = attempt[j] + 1 /\ state'[j] = "running"
             /\ \A u \in Worker \ {v} : pc'[u] = pc[u] /\ claim'[u] = claim[u]
  <2>1. attempt[j] \in Nat /\ attempt'[j] = attempt[j] + 1 /\ state'[j] = "running"
    <3>1. JobsOK
      BY DEF TypeOK
    <3>2. attempt'[j] = attempt[j] + 1 /\ state'[j] = "running"
      BY <1>2, <3>1, ClaimRow
    <3> QED
      BY <3>1, <3>2 DEF JobsOK
  <2>2. \A u \in Worker \ {v} : pc'[u] = pc[u] /\ claim'[u] = claim[u]
    BY <1>2, <1>t DEF Claim, Take, WorkersOK
  <2> QED
    BY <2>1, <2>2
<1>3. ASSUME NEW w \in Worker, Live(w)'
      PROVE  /\ state'[claim'[w].job] # "absent"
             /\ claim'[w].token <= attempt'[claim'[w].job]
  <2>1. CASE pc[w] # "idle" /\ claim'[w] = claim[w]
    BY <1>1, <1>3, <2>1
  <2>2. ASSUME NEW j \in Job, Claim(w, j), claim'[w] = [job |-> j, token |-> attempt[j] + 1]
        PROVE  /\ state'[claim'[w].job] # "absent"
               /\ claim'[w].token <= attempt'[claim'[w].job]
    BY <1>2, <2>2
  <2> QED
    BY <1>0, <1>3, <2>1, <2>2, MemorySteps
<1>4. ASSUME NEW w \in Worker, NEW v \in Worker, NEW j \in Job, v # w,
             Live(v)', claim'[v] = claim'[w],
             Claim(w, j), claim'[w] = [job |-> j, token |-> attempt[j] + 1]
      PROVE  FALSE
  <2>1. pc[v] # "idle" /\ claim'[v] = claim[v]
    BY <1>0, <1>2, <1>4
  <2>2. claim[v].token <= attempt[j]
    BY <1>1, <1>4, <2>1
  <2> QED
    BY <1>2, <1>4, <2>1, <2>2
<1>5. ASSUME NEW w \in Worker, NEW v \in Worker, Live(w)', Live(v)', claim'[v] = claim'[w]
      PROVE  v = w
  <2>1. CASE /\ pc[w] # "idle" /\ claim'[w] = claim[w]
             /\ pc[v] # "idle" /\ claim'[v] = claim[v]
    <3>1. Live(w) /\ Live(v)
      BY <1>1, <1>5, <2>1
    <3> QED
      BY <1>5, <2>1, <3>1 DEF ClaimsDistinct
  <2>2. CASE \E j \in Job : Claim(w, j) /\ claim'[w] = [job |-> j, token |-> attempt[j] + 1]
    BY <1>4, <1>5, <2>2
  <2>3. CASE \E j \in Job : Claim(v, j) /\ claim'[v] = [job |-> j, token |-> attempt[j] + 1]
    BY <1>4, <1>5, <2>3
  <2> QED
    BY <1>0, <1>5, <2>1, <2>2, <2>3, MemorySteps
<1> QED
  BY <1>3, <1>5 DEF ClaimsDistinct

-----------------------------------------------------------------------------
\* The commit of a valid claim, whose page is the next one of its job.
LEMMA CommitPage ==
  ASSUME TypeOK, PageSound, NEW w \in Worker, CommitBatch(w)
  PROVE  /\ PageIsNext(w) /\ claim[w].job \in Job
         /\ page[w].rows \in SUBSET Event
         /\ IsFiniteSet(page[w].rows) /\ Cardinality(page[w].rows) \in Nat
<1>1. Prepared(w)
  BY DEF CommitBatch, Fenced, Stopped, Prepared
<1>2. claim[w].job \in Job /\ page[w].rows \in SUBSET Event
  BY DEF CommitBatch, Fenced, TypeOK, WorkersOK
<1> QED
  BY <1>1, <1>2, EventsFinite DEF PageSound

\* The page a batch commits lies behind the cursor, so none of it was counted before.
LEMMA ExactStep ==
  ASSUME TypeOK, AbsentIsBlank, PageSound, CheckpointExact, [Next]_vars PROVE CheckpointExact'
<1> SUFFICES ASSUME NEW k \in Job
             PROVE  scanned'[k] = Cardinality(seen'[k]) /\ \A e \in seen'[k] : e <= cursor'[k]
  BY DEF CheckpointExact
<1>1. scanned[k] = Cardinality(seen[k]) /\ \A e \in seen[k] : e <= cursor[k]
  BY DEF CheckpointExact
<1>2. JobsOK
  BY DEF TypeOK
<1>3. CASE /\ scanned'[k] = scanned[k] /\ cursor'[k] = cursor[k] /\ seen'[k] = seen[k]
  BY <1>1, <1>3
<1>4. ASSUME NEW r \in Release, Insert(k, r)
      PROVE  scanned'[k] = scanned[k] /\ cursor'[k] = cursor[k] /\ seen'[k] = seen[k]
  BY <1>2, <1>4, InsertRow
<1>5. ASSUME Cancel(k)
      PROVE  scanned'[k] = scanned[k] /\ cursor'[k] = cursor[k] /\ seen'[k] = seen[k]
  BY <1>2, <1>5, CancelRow
<1>6. ASSUME NEW w \in Worker, Claim(w, k) PROVE SameRest(k)
  BY <1>2, <1>6, ClaimRow
<1>7. Closes(k) \/ Reset => SameRest(k)
  BY ResetRow DEF Closes
<1>8. ASSUME NEW w \in Worker, CommitBatch(w), claim[w].job = k
      PROVE  scanned'[k] = Cardinality(seen'[k]) /\ \A e \in seen'[k] : e <= cursor'[k]
  <2> DEFINE rows == page[w].rows
  <2>1. /\ scanned'[k] = scanned[k] + Cardinality(rows) /\ seen'[k] = seen[k] \cup rows
    BY <1>8, CommitRow
  <2>2. /\ \A e \in rows : e > cursor[k]
        /\ rows \in SUBSET Event /\ IsFiniteSet(rows) /\ Cardinality(rows) \in Nat
    BY <1>8, CommitPage DEF PageIsNext
  <2>3. /\ seen[k] \in SUBSET Event /\ cursor[k] \in Nat /\ scanned[k] \in Nat
        /\ IsFiniteSet(seen[k]) /\ Cardinality(seen[k]) \in Nat
    BY <1>2, EventsFinite DEF JobsOK
  <2>4. seen[k] \cap rows = {}
    BY <1>1, <2>2, <2>3
  <2>5. Cardinality(seen'[k]) = Cardinality(seen[k]) + Cardinality(rows)
    <3>1. Cardinality(seen[k] \cup rows)
            = Cardinality(seen[k]) + Cardinality(rows) - Cardinality(seen[k] \cap rows)
      BY <2>2, <2>3, FS_Union
    <3>2. Cardinality(seen[k] \cap rows) = 0
      BY <2>4, FS_EmptySet
    <3> QED
      BY <2>1, <2>2, <2>3, <3>1, <3>2
  <2>6. \A e \in seen'[k] : e <= cursor'[k]
    <3>1. CASE rows = {}
      BY <1>1, <1>8, <2>1, <3>1, CommitCursor
    <3>2. CASE rows # {}
      <4>1. cursor'[k] \in rows /\ \A f \in rows : f <= cursor'[k]
        BY <1>8, <3>2, CommitCursor
      <4>2. \A e \in seen[k] : e <= cursor'[k]
        BY <1>1, <2>2, <2>3, <4>1
      <4> QED
        BY <2>1, <4>1, <4>2
    <3> QED
      BY <3>1, <3>2
  <2> QED
    BY <1>1, <2>1, <2>5, <2>6
<1> QED
  BY <1>3, <1>4, <1>5, <1>6, <1>7, <1>8, JobSteps DEF SameRest

\* The new cursor is the last row of the page, and pages leave no gaps.
LEMMA CoversStep ==
  ASSUME TypeOK, AbsentIsBlank, PageSound, CursorCovers, [Next]_vars PROVE CursorCovers'
<1> SUFFICES ASSUME NEW k \in Job, NEW e \in command'[k].scope \cap stored', e <= cursor'[k]
             PROVE  e \in seen'[k]
  BY DEF CursorCovers
<1>1. e \in command[k].scope /\ e <= cursor[k] => e \in seen[k]
  BY StoredShrinks DEF CursorCovers
<1>2. JobsOK /\ stored' \subseteq stored /\ e \in Event /\ e \in stored
  BY StoredShrinks DEF TypeOK, DataOK
<1>3. ASSUME SameRest(k) PROVE e \in seen'[k]
  BY <1>1, <1>3 DEF SameRest
<1>4. ASSUME NEW r \in Release, Insert(k, r) PROVE FALSE
  <2>1. cursor'[k] = 0
    BY <1>2, <1>4, InsertRow DEF AbsentIsBlank
  <2> QED
    BY <1>2, <2>1
<1>5. ASSUME Cancel(k) PROVE e \in seen'[k]
  BY <1>1, <1>2, <1>5, CancelRow
<1>6. ASSUME NEW w \in Worker, Claim(w, k) PROVE SameRest(k)
  BY <1>2, <1>6, ClaimRow
<1>7. Closes(k) \/ Reset => SameRest(k)
  BY ResetRow DEF Closes
<1>8. ASSUME NEW w \in Worker, CommitBatch(w), claim[w].job = k PROVE e \in seen'[k]
  <2>1. seen'[k] = seen[k] \cup page[w].rows /\ command'[k] = command[k]
    BY <1>8, CommitRow
  <2>2. CASE e <= cursor[k]
    BY <1>1, <2>1, <2>2
  <2>3. CASE ~(e <= cursor[k])
    <3>1. e \in Beyond(k)
      BY <1>2, <2>1, <2>3 DEF Beyond, JobsOK
    <3>2. page[w].rows # {} /\ cursor'[k] \in page[w].rows
      BY <1>8, <2>3, CommitCursor
    <3>3. \A d \in page[w].rows, f \in Beyond(k) : f < d => f \in page[w].rows
      BY <1>8, CommitPage DEF PageIsNext
    <3>4. page[w].rows \subseteq Nat
      BY <1>8, CommitPage
    <3>5. e < cursor'[k] \/ e = cursor'[k]
      BY <1>2, <3>2, <3>4
    <3> QED
      BY <2>1, <3>1, <3>2, <3>3, <3>5
  <2> QED
    BY <2>2, <2>3
<1> QED
  BY <1>3, <1>4, <1>5, <1>6, <1>7, <1>8, JobSteps

\* A short page, within the scan limit, is the end of the scope.
LEMMA SuccessStep ==
  ASSUME TypeOK, PageSound, CursorCovers, SuccessCoversScope, [Next]_vars
  PROVE  SuccessCoversScope'
<1> SUFFICES ASSUME NEW k \in Job, state'[k] = "succeeded"
             PROVE  command'[k].scope \cap stored' \subseteq seen'[k] \/ scanned'[k] >= ScanLimit
  BY DEF SuccessCoversScope
<1> DEFINE Goal == command'[k].scope \cap stored' \subseteq seen'[k] \/ scanned'[k] >= ScanLimit
<1>1. state[k] = "succeeded" =>
        command[k].scope \cap stored \subseteq seen[k] \/ scanned[k] >= ScanLimit
  BY DEF SuccessCoversScope
<1>2. JobsOK /\ stored' \subseteq stored
  BY StoredShrinks DEF TypeOK
<1>3. ASSUME SameRow(k), SameRest(k) PROVE Goal
  BY <1>1, <1>2, <1>3 DEF SameRow, SameRest
<1>4. ASSUME NEW r \in Release, Insert(k, r) PROVE FALSE
  BY <1>2, <1>4, InsertRow
<1>5. ASSUME Cancel(k) PROVE FALSE
  BY <1>2, <1>5, CancelRow DEF Active
<1>6. ASSUME NEW w \in Worker, Claim(w, k) PROVE FALSE
  BY <1>2, <1>6, ClaimRow
<1>7. Closes(k) \/ Reset => FALSE
  BY ResetRow DEF Closes
<1>8. ASSUME NEW w \in Worker, CommitBatch(w), claim[w].job = k PROVE Goal
  <2> DEFINE rows == page[w].rows
             n == Cardinality(page[w].rows)
  <2>1. /\ Done(w) /\ seen'[k] = seen[k] \cup rows /\ scanned'[k] = scanned[k] + n
        /\ command'[k] = command[k] /\ stored' = stored
    BY <1>8, CommitRow
  <2>2. /\ n <= Limit(k) /\ n \in Nat /\ scanned[k] \in Nat
        /\ n < Limit(k) => Beyond(k) \subseteq rows
    BY <1>2, <1>8, CommitPage DEF PageIsNext, JobsOK
  <2>3. n < PageSize \/ scanned[k] + n >= ScanLimit
    BY <1>8, <2>1 DEF Done
  <2>4. CASE n < Limit(k)
    <3>1. Beyond(k) \subseteq rows
      BY <2>2, <2>4
    <3>2. ASSUME NEW e \in command[k].scope \cap stored PROVE e \in seen[k] \cup rows
      <4>1. e \in Nat /\ cursor[k] \in Nat
        BY <1>2 DEF TypeOK, DataOK, JobsOK
      <4>2. e <= cursor[k] => e \in seen[k]
        BY DEF CursorCovers
      <4>3. ~(e <= cursor[k]) => e \in Beyond(k)
        BY <4>1 DEF Beyond
      <4> QED
        BY <3>1, <4>2, <4>3
    <3> QED
      BY <2>1, <3>2
  <2>5. CASE n = Limit(k)
    BY <2>1, <2>2, <2>3, <2>5 DEF Limit
  <2> QED
    <3>1. Limit(k) \in Int
      BY <2>2 DEF Limit
    <3> QED
      BY <2>2, <2>4, <2>5, <3>1
<1> QED
  BY <1>3, <1>4, <1>5, <1>6, <1>7, <1>8, JobSteps

-----------------------------------------------------------------------------
\* As long as a worker holds its claim and its page, its job's row stands still but for
\* lease and flag: whoever else would move it has lost that claim.
LEMMA HeldRow ==
  ASSUME TypeOK, ClaimsDistinct, [Next]_vars, NEW w \in Worker,
         pc[w] # "idle", claim'[w] = claim[w], Holds(w)', ~CommitBatch(w)
  PROVE  Holds(w) /\ (SameRest(claim[w].job) \/ Cancel(claim[w].job))
<1> DEFINE k == claim[w].job
<1>1. k \in Job /\ JobsOK /\ claim[w].token \in Nat
  BY DEF TypeOK, WorkersOK
<1>2. state'[k] = "running" /\ owner'[k] = claim[w].token
  BY DEF Holds
<1>3. state[k] # "gone"
  BY <1>1, <1>2, AttemptsGrow
<1>4. claim[w].token <= attempt[k] /\ attempt[k] \in Nat /\ Live(w)
  <2>1. Live(w)
    BY <1>3 DEF Live
  <2>2. claim[w].token <= attempt[k]
    BY <2>1 DEF ClaimsDistinct
  <2> QED
    BY <1>1, <2>1, <2>2 DEF JobsOK
<1>5. ASSUME SameRow(k), SameRest(k) PROVE Holds(w)
  BY <1>2, <1>5 DEF SameRow, Holds
<1>6. ASSUME NEW r \in Release, Insert(k, r) PROVE FALSE
  BY <1>1, <1>2, <1>6, InsertRow
<1>7. ASSUME Cancel(k) PROVE Holds(w)
  <2>1. state'[k] \in {state[k], "cancelled"} /\ owner'[k] = owner[k]
    BY <1>1, <1>7, CancelRow
  <2> QED
    BY <1>2, <2>1 DEF Holds
<1>8. ASSUME NEW v \in Worker, Claim(v, k) PROVE FALSE
  <2>1. owner'[k] = attempt[k] + 1
    BY <1>1, <1>8, ClaimRow
  <2> QED
    BY <1>2, <1>4, <2>1
<1>9. Closes(k) \/ Reset => FALSE
  BY <1>1, <1>2, ResetRow DEF Closes
<1>10. ASSUME NEW v \in Worker, CommitBatch(v), claim[v].job = k PROVE FALSE
  <2>1. /\ owner[k] = claim[v].token /\ owner'[k] = (IF Done(v) THEN 0 ELSE owner[k])
        /\ state'[k] = (IF Done(v) THEN "succeeded" ELSE "running") /\ pc[v] = "tx"
        /\ state[k] = "running"
    BY <1>1, <1>10, CommitRow
  <2>2. claim[v].token = claim[w].token
    BY <1>2, <2>1
  <2>3. claim[v] = claim[w]
    <3>1. /\ claim[v] \in [job : {0} \cup Job, token : 0..MaxAttempts]
          /\ claim[w] \in [job : {0} \cup Job, token : 0..MaxAttempts]
      BY DEF TypeOK, WorkersOK
    <3> HIDE DEF Job
    <3> QED
      BY <1>10, <2>2, <3>1
  <2>4. Live(v)
    BY <1>10, <2>1 DEF Live
  <2>5. v = w
    BY <1>4, <2>3, <2>4 DEF ClaimsDistinct
  <2> QED
    BY <1>10, <2>5
<1> QED
  BY <1>1, <1>5, <1>6, <1>7, <1>8, <1>9, <1>10, JobSteps

\* A page stays the next one of its job as long as the claim it was read under stands.
LEMMA PageStep ==
  ASSUME TypeOK, ClaimsDistinct, PageSound, [Next]_vars PROVE PageSound'
<1> SUFFICES ASSUME NEW w \in Worker, Prepared(w)' PROVE PageIsNext(w)'
  BY DEF PageSound
<1>1. pc'[w] \in {"resolved", "tx"} /\ Holds(w)' /\ ~cancel'[claim'[w].job]
  BY DEF Prepared
<1>2. ASSUME pc[w] \in {"resolved", "tx"}, claim'[w] = claim[w], page'[w] = page[w],
             ~CommitBatch(w)
      PROVE  PageIsNext(w)'
  <2> DEFINE k == claim[w].job
  <2>1. k \in Job /\ JobsOK
    BY <1>2 DEF TypeOK, WorkersOK
  <2>2. ~Cancel(k)
    BY <1>1, <1>2, <2>1, CancelRow
  <2>3. Holds(w) /\ SameRest(k)
    BY <1>1, <1>2, <2>2, HeldRow
  <2>4. Prepared(w)
    BY <1>1, <1>2, <2>3 DEF Prepared, SameRest
  <2>5. PageIsNext(w)
    BY <2>4 DEF PageSound
  <2>6. Limit(k)' = Limit(k)
    BY <1>2, <2>3 DEF Limit, SameRest
  <2>7. Beyond(k)' \subseteq Beyond(k)
    BY <1>2, <2>3, StoredShrinks DEF Beyond, SameRest
  <2>8. cursor'[k] = cursor[k]
    BY <2>3 DEF SameRest
  <2> QED
    BY <1>2, <2>5, <2>6, <2>7, <2>8 DEF PageIsNext
<1>3. ASSUME ReadBatch(w) PROVE PageIsNext(w)'
  <2> DEFINE k == claim[w].job
  <2>1. /\ UNCHANGED <<generation, jobVars, dataVars>> /\ claim' = claim /\ k \in Job
    BY <1>3 DEF ReadBatch, TypeOK, WorkersOK
  <2>2. PICK rows \in SUBSET Beyond(k) :
          /\ IF cancel[k] THEN rows = {} ELSE IsPage(rows, Beyond(k), Limit(k))
          /\ page'[w].rows = rows
    BY <1>3 DEF ReadBatch, TypeOK, WorkersOK
  <2>3. IsPage(rows, Beyond(k), Limit(k))
    BY <1>1, <2>1, <2>2 DEF jobVars
  <2>4. Beyond(k)' = Beyond(k) /\ Limit(k)' = Limit(k) /\ cursor'[k] = cursor[k]
    BY <2>1 DEF Beyond, Limit, jobVars, dataVars
  <2>5. \A e \in rows : e > cursor[k]
    BY <2>2 DEF Beyond
  <2> QED
    BY <2>1, <2>2, <2>3, <2>4, <2>5 DEF PageIsNext, IsPage
<1> QED
  BY <1>1, <1>2, <1>3, PageSteps

-----------------------------------------------------------------------------
\* Initially there is no job and no page.
LEMMA InvInit == Init => IInv
<1> SUFFICES ASSUME Init PROVE IInv
  OBVIOUS
<1>1. CheckpointExact
  BY FS_EmptySet DEF Init, CheckpointExact
<1>2. CursorCovers /\ SuccessCoversScope /\ ActiveIsCurrent /\ AbsentIsBlank
  BY DEF Init, CursorCovers, SuccessCoversScope, ActiveIsCurrent, AbsentIsBlank, Active
<1>3. ClaimsDistinct /\ PageSound
  BY DEF Init, ClaimsDistinct, PageSound, Prepared, Live
<1> QED
  BY <1>1, <1>2, <1>3, TypeInit DEF IInv

\* Each part of the inductive invariant, by its own lemma.
LEMMA InvStep == IInv /\ [Next]_vars => IInv'
<1> SUFFICES ASSUME IInv, [Next]_vars PROVE IInv'
  OBVIOUS
<1>1. /\ TypeOK /\ ActiveIsCurrent /\ AbsentIsBlank /\ ClaimsDistinct
      /\ CursorCovers /\ PageSound /\ CheckpointExact /\ SuccessCoversScope
  BY DEF IInv
<1>2. TypeOK' /\ ActiveIsCurrent' /\ AbsentIsBlank'
  BY <1>1, TypeStep, CurrentStep, BlankStep
<1>3. ClaimsDistinct' /\ PageSound'
  BY <1>1, DistinctStep, PageStep
<1>4. CheckpointExact' /\ CursorCovers' /\ SuccessCoversScope'
  BY <1>1, ExactStep, CoversStep, SuccessStep
<1> QED
  BY <1>2, <1>3, <1>4 DEF IInv

\* Batches of lost, timed-out or superseded claims never count: `scanned' is the number
\* of events the committed batches went through, all at or before the cursor.
THEOREM CheckpointIsExact == Spec => []CheckpointExact
<1>1. IInv => CheckpointExact
  BY DEF IInv
<1> QED
  BY <1>1, InvInit, InvStep, PTL DEF Spec

\* A job that succeeded went through its whole stored scope, or reached the scan limit.
THEOREM SuccessIsComplete == Spec => []SuccessCoversScope
<1>1. IInv => SuccessCoversScope
  BY DEF IInv
<1> QED
  BY <1>1, InvInit, InvStep, PTL DEF Spec
=============================================================================
