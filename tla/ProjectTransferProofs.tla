----------------------- MODULE ProjectTransferProofs -----------------------
(***************************************************************************)
(* A transfer is safe for any events, transfers, workers and attempts: the *)
(* fence of the source says which archive is final, and everything else    *)
(* rests on that.                                                          *)
(***************************************************************************)
EXTENDS ProjectTransfer, TLAPS

\* The fence is the transfer whose receipt was sealed; it is never lifted.
FenceIsSealed ==
    \A t \in Transfer : fence = t <=> state["source"][t] \in {"sealed", "observing"}

\* An archive, finished or still in its worker's hands, that is final has the rows of the
\* fenced project.
Final(a) == a.phase = "final" => fence = a.t /\ a.rows = rows
FinalsAreRows ==
    /\ \A a \in archives : Final(a)
    /\ \A w \in Worker : pc[w] = "captured" =>
          /\ Host[w] = "source" /\ snap[w] \in Archive /\ Final(snap[w])
          /\ snap[w].t = work[w].t /\ snap[w].phase = work[w].phase

\* An import works on an archive that was published.
ImportsAreArchives ==
    /\ \A t \in Transfer : Busy("target", t) => job["target"][t].archive \in archives
    /\ \A w \in Worker : pc[w] # "idle" =>
          /\ work[w].t \in Transfer
          /\ Host[w] = "target" => work[w].archive \in archives

\* Beyond copied, the target holds what the source held when it was sealed.
Beyond == {"ready", "active", "observing", "completed"}
TargetHasRows ==
    \A t \in Transfer : state["target"][t] \in Beyond =>
        /\ fence = t /\ rows \subseteq copy[t]
        /\ state["target"][t] = "ready" => copy[t] = rows

OpenIsActive ==
    \A t \in Transfer : staged[t] = "open" <=> state["target"][t] \in Beyond \ {"ready"}

\* What was answered is stored; what was handled before the fence is, too.
AckedIsStored ==
    /\ \A e \in Event : sdk[e] = "handled" /\ fence = NoTransfer => e \in rows
    /\ (\A t \in Transfer : staged[t] # "open") => acked \subseteq rows
    /\ \A t \in Transfer : staged[t] = "open" => acked \subseteq copy[t]

ObservedIsLive ==
    \A t \in Transfer :
        /\ observed[t] # NoEvent => observed[t] \in live[t]
        /\ state["target"][t] \in {"observing", "completed"} => observed[t] # NoEvent

IInv ==
    /\ TypeOK /\ FenceIsSealed /\ FinalsAreRows /\ ImportsAreArchives
    /\ TargetHasRows /\ OpenIsActive /\ AckedIsStored /\ ObservedIsLive

-----------------------------------------------------------------------------
USE TransferAssumption DEF Side

\* The cases of a step, by what they may disturb.
OwnersOf(s, t) ==
    \/ Create(s, t) \/ Cancel(s, t) \/ CancelJob(s, t) \/ Expire(s, t)
OwnerOf(t) ==
    \/ \E phase \in {"copy", "final"} : Export(t, phase) \/ \E a \in archives : Upload(t, phase, a)
    \/ Seal(t) \/ Activate(t) \/ Verify(t) \/ Complete(t) \/ AskProof(t) \/ Configure(t)
    \/ RouteExpires(t)
WorkerStep(w) ==
    \/ \E t \in Transfer : Claim(w, t)
    \/ Capture(w) \/ PublishExport(w) \/ PublishImport(w) \/ Fail(w) \/ Crash(w)
EventStep(e) ==
    \/ Admit(e) \/ Write(e) \/ Acknowledge(e) \/ Resend(e) \/ \E t \in Transfer : Receive(t, e)

LEMMA StepCases ==
  ASSUME [Next]_vars
  PROVE  \/ \E s \in Side, t \in Transfer : OwnersOf(s, t)
         \/ \E t \in Transfer : OwnerOf(t)
         \/ \E w \in Worker : WorkerStep(w)
         \/ \E e \in Event : EventStep(e)
         \/ UNCHANGED vars
  BY DEF Next, OwnerStep, SDKStep, Trouble, Step, OwnersOf, OwnerOf, WorkerStep, EventStep

\* Empty tables and idle workers are well typed.
LEMMA TypeInit == Init => TypeOK
<1> SUFFICES ASSUME Init PROVE TypeOK
  OBVIOUS
<1>1. ProjectsOK
  BY DEF Init, ProjectsOK
<1>2. ReceiptsOK
  BY DEF Init, ReceiptsOK, SourceState, TargetState
<1>3. JobsOK
  <2>1. NoJob \in JobRow
    BY DEF NoJob, JobRow
  <2> QED
    BY <2>1 DEF Init, JobsOK
<1>4. WorkersOK
  <2>1. NoWork \in Work
    BY DEF NoWork, Work
  <2> QED
    BY <2>1 DEF Init, WorkersOK
<1>5. TailOK
  BY DEF Init, TailOK
<1>6. SDKsOK
  BY DEF Init, SDKsOK
<1> QED
  BY <1>1, <1>2, <1>3, <1>4, <1>5, <1>6 DEF TypeOK

\* An empty pair of servers satisfies the invariant.
LEMMA InvInit == Init => IInv
<1> SUFFICES ASSUME Init PROVE IInv
  OBVIOUS
<1>1. TypeOK
  BY TypeInit
<1>2. FenceIsSealed /\ TargetHasRows /\ OpenIsActive /\ AckedIsStored /\ ObservedIsLive
  BY DEF Init, FenceIsSealed, TargetHasRows, OpenIsActive, AckedIsStored, ObservedIsLive, Beyond
<1>3. FinalsAreRows /\ ImportsAreArchives
  BY DEF Init, FinalsAreRows, ImportsAreArchives, Busy, NoJob
<1> QED
  BY <1>1, <1>2, <1>3 DEF IInv

-----------------------------------------------------------------------------
\* What a step leaves alone stays well typed.
LEMMA Frame ==
  ASSUME TypeOK
  PROVE  /\ UNCHANGED projectVars => ProjectsOK'
         /\ UNCHANGED receiptVars => ReceiptsOK'
         /\ UNCHANGED jobVars => JobsOK'
         /\ UNCHANGED workerVars => WorkersOK'
         /\ UNCHANGED tailVars => TailOK'
         /\ UNCHANGED sdkVars => SDKsOK'
  BY DEF TypeOK, ProjectsOK, ReceiptsOK, JobsOK, WorkersOK, TailOK, SDKsOK,
         projectVars, receiptVars, jobVars, workerVars, tailVars, sdkVars

\* A receipt that advances to a state of its side stays well typed.
LEMMA AdvanceType ==
  ASSUME ReceiptsOK, TailOK, NEW s \in Side, NEW t \in Transfer, NEW next,
         next \in (IF s = "source" THEN SourceState ELSE TargetState), Advance(s, t, next)
  PROVE  /\ latest' \in [Side -> [Transfer -> Archive \cup {NoArchive}]]
            /\ observed' \in [Transfer -> Event \cup {NoEvent}] => ReceiptsOK'
         /\ route' \in [Transfer -> BOOLEAN] => TailOK'
         /\ state'[s][t] = next
         /\ \A x \in Side, u \in Transfer : <<x, u>> # <<s, t>> => state'[x][u] = state[x][u]
<1>1. state' \in [Side -> [Transfer -> SourceState \cup TargetState]]
  BY DEF Advance, ReceiptsOK
<1>2. /\ state'[s][t] = next
      /\ \A x \in Side, u \in Transfer : <<x, u>> # <<s, t>> => state'[x][u] = state[x][u]
  BY DEF Advance, ReceiptsOK
<1>3. \A u \in Transfer : state'["source"][u] \in SourceState /\ state'["target"][u] \in TargetState
  BY <1>2 DEF ReceiptsOK
<1>4. proof' \in [Transfer -> Archive \cup {NoArchive}]
  BY DEF Advance, TailOK
<1> QED
  BY <1>1, <1>2, <1>3, <1>4 DEF ReceiptsOK, TailOK

\* The rows that the actions put in the place of a row.
LEMMA Rows ==
  ASSUME NEW j \in JobRow
  PROVE  /\ \A x \in {"cancelled", "running"} :
               [j EXCEPT !.cancel = TRUE, !.state = x] \in JobRow
         /\ [j EXCEPT !.live = FALSE] \in JobRow /\ [j EXCEPT !.state = "ready"] \in JobRow
         /\ [j EXCEPT !.state = "cancelled"] \in JobRow /\ [j EXCEPT !.state = "failed"] \in JobRow
         /\ [j EXCEPT !.state = "running", !.live = TRUE, !.attempt = j.attempt + 1] \in JobRow
         /\ \A phase \in {"copy", "final"}, a \in Archive \cup {NoArchive} :
               [NoJob EXCEPT !.num = j.num + 1, !.state = "queued",
                             !.phase = phase, !.archive = a] \in JobRow
<1>1. j.attempt + 1 \in Nat /\ j.num + 1 \in Nat
  BY DEF JobRow
<1>2. ASSUME NEW n \in Nat
      PROVE  [j EXCEPT !.state = "running", !.live = TRUE, !.attempt = n] \in JobRow
  BY DEF JobRow
<1>3. ASSUME NEW n \in Nat, NEW phase \in {"copy", "final"}, NEW a \in Archive \cup {NoArchive}
      PROVE  [NoJob EXCEPT !.num = n, !.state = "queued", !.phase = phase, !.archive = a] \in JobRow
  BY DEF JobRow, NoJob
<1>4. \A x \in {"cancelled", "running"} : [j EXCEPT !.cancel = TRUE, !.state = x] \in JobRow
  BY DEF JobRow
<1>5. /\ [j EXCEPT !.live = FALSE] \in JobRow /\ [j EXCEPT !.state = "ready"] \in JobRow
      /\ [j EXCEPT !.state = "cancelled"] \in JobRow /\ [j EXCEPT !.state = "failed"] \in JobRow
  BY DEF JobRow
<1> QED
  BY <1>1, <1>2, <1>3, <1>4, <1>5

\* One row of the jobs is replaced by another.
LEMMA JobType ==
  ASSUME JobsOK, NEW s \in Side, NEW t \in Transfer, NEW j \in JobRow,
         job' = [job EXCEPT ![s][t] = j], archives' \in SUBSET Archive
  PROVE  JobsOK'
  BY DEF JobsOK

\* An owner's command and the end of a lease keep the types.
LEMMA OwnersType ==
  ASSUME TypeOK, NEW s \in Side, NEW t \in Transfer, OwnersOf(s, t)
  PROVE  TypeOK'
<1> USE DEF TypeOK
<1> SUFFICES ProjectsOK' /\ ReceiptsOK' /\ JobsOK' /\ WorkersOK' /\ TailOK' /\ SDKsOK'
  OBVIOUS
<1>1. CASE Create(s, t)
  <2>1. "copying" \in (IF s = "source" THEN SourceState ELSE TargetState)
    BY DEF SourceState, TargetState
  <2>2. ReceiptsOK' /\ TailOK'
    BY <1>1, <2>1, AdvanceType DEF Create, ReceiptsOK, TailOK
  <2> QED
    BY <1>1, <2>2, Frame DEF Create
<1>2. CASE Cancel(s, t)
  <2>1. "cancelled" \in (IF s = "source" THEN SourceState ELSE TargetState)
    BY DEF SourceState, TargetState
  <2>2. ReceiptsOK' /\ TailOK'
    BY <1>2, <2>1, AdvanceType, SMTT(30) DEF Cancel, ReceiptsOK, TailOK
  <2>3. ProjectsOK'
    BY <1>2 DEF Cancel, ProjectsOK
  <2> QED
    BY <1>2, <2>2, <2>3, Frame DEF Cancel
<1>3. job[s][t] \in JobRow
  BY DEF JobsOK
<1>4. CASE CancelJob(s, t)
  <2> DEFINE x == IF job[s][t].state = "queued" THEN "cancelled" ELSE "running"
             j == [job[s][t] EXCEPT !.cancel = TRUE, !.state = x]
  <2>1. j \in JobRow
    BY <1>3, Rows
  <2>2. job' = [job EXCEPT ![s][t] = j] /\ archives' = archives
    BY <1>4 DEF CancelJob
  <2>3. JobsOK'
    <3> HIDE DEF j
    <3> QED  BY <2>1, <2>2, JobType DEF JobsOK
  <2> QED
    BY <1>4, <2>3, Frame DEF CancelJob
<1>5. CASE Expire(s, t)
  <2> DEFINE j == [job[s][t] EXCEPT !.live = FALSE]
  <2>1. j \in JobRow
    BY <1>3, Rows
  <2>2. job' = [job EXCEPT ![s][t] = j] /\ archives' = archives
    BY <1>5 DEF Expire
  <2>3. JobsOK'
    <3> HIDE DEF j
    <3> QED  BY <2>1, <2>2, JobType DEF JobsOK
  <2> QED
    BY <1>5, <2>3, Frame, SMTT(30) DEF Expire
<1> QED
  BY <1>1, <1>2, <1>4, <1>5 DEF OwnersOf

\* So do the commands of one side, and the jobs they queue.
LEMMA QueueType ==
  ASSUME TypeOK, NEW s \in Side, NEW t \in Transfer, NEW phase \in {"copy", "final"},
         NEW a \in Archive \cup {NoArchive}, Queue(s, t, phase, a)
  PROVE  TypeOK'
<1> USE DEF TypeOK
<1> DEFINE j == [NoJob EXCEPT !.num = job[s][t].num + 1, !.state = "queued",
                              !.phase = phase, !.archive = a]
<1>1. state[s][t] \in (IF s = "source" THEN SourceState ELSE TargetState)
  BY DEF ReceiptsOK
<1>2. ReceiptsOK' /\ TailOK'
  BY <1>1, AdvanceType, SMTT(30) DEF Queue, ReceiptsOK, TailOK
<1>3. job[s][t] \in JobRow
  BY DEF JobsOK
<1>4. j \in JobRow
  BY <1>3, Rows
<1>5. job' = [job EXCEPT ![s][t] = j] /\ archives' = archives
  BY DEF Queue
<1>6. JobsOK'
  <2> HIDE DEF j
  <2> QED  BY <1>4, <1>5, JobType DEF JobsOK
<1> QED
  BY <1>2, <1>6, Frame DEF Queue

LEMMA OwnerType ==
  ASSUME TypeOK, NEW t \in Transfer, OwnerOf(t)
  PROVE  TypeOK'
<1> USE DEF TypeOK
<1>1. CASE \E phase \in {"copy", "final"} : Export(t, phase) \/ \E a \in archives : Upload(t, phase, a)
  BY <1>1, QueueType DEF Export, Upload, JobsOK
<1>2. CASE Seal(t)
  <2>1. ReceiptsOK' /\ TailOK'
    BY <1>2, AdvanceType DEF Seal, SourceState, ReceiptsOK, TailOK
  <2>2. ProjectsOK'
    BY <1>2 DEF Seal, ProjectsOK
  <2> QED
    BY <1>2, <2>1, <2>2, Frame DEF Seal
<1>3. CASE Activate(t)
  <2>1. ReceiptsOK' /\ TailOK'
    BY <1>3, AdvanceType DEF Activate, TargetState, ReceiptsOK, TailOK
  <2>2. ProjectsOK'
    BY <1>3 DEF Activate, ProjectsOK
  <2> QED
    BY <1>3, <2>1, <2>2, Frame DEF Activate
<1>4. CASE Verify(t)
  <2>1. ReceiptsOK' /\ TailOK'
    BY <1>4, AdvanceType DEF Verify, TargetState, ReceiptsOK, TailOK
  <2> QED
    BY <1>4, <2>1, Frame DEF Verify
<1>5. CASE Complete(t)
  <2>1. ReceiptsOK' /\ TailOK'
    BY <1>5, AdvanceType DEF Complete, TargetState, ReceiptsOK, TailOK
  <2> QED
    BY <1>5, <2>1, Frame DEF Complete
<1>6. CASE AskProof(t)
  <2>1. TailOK'
    BY <1>6 DEF AskProof, TailOK, ReceiptsOK
  <2> QED
    BY <1>6, <2>1, Frame DEF AskProof
<1>7. CASE Configure(t)
  <2>1. route' \in [Transfer -> BOOLEAN]
    BY <1>7 DEF Configure, TailOK
  <2>2. ReceiptsOK' /\ TailOK'
    BY <1>7, <2>1, AdvanceType DEF Configure, SourceState, ReceiptsOK
  <2> QED
    BY <1>7, <2>2, Frame DEF Configure
<1>8. CASE RouteExpires(t)
  <2>1. TailOK'
    BY <1>8 DEF RouteExpires, TailOK
  <2> QED
    BY <1>8, <2>1, Frame DEF RouteExpires
<1> QED
  BY <1>1, <1>2, <1>3, <1>4, <1>5, <1>6, <1>7, <1>8 DEF OwnerOf

LEMMA DoneType ==
  ASSUME WorkersOK, NEW w \in Worker, Done(w)
  PROVE  WorkersOK'
<1>1. NoWork \in Work
  BY DEF NoWork, Work
<1> QED
  BY <1>1 DEF Done, WorkersOK

\* What a worker publishes is typed, if the work in its hands is that of a transfer.
LEMMA PublishType ==
  ASSUME TypeOK, NEW w \in Worker, NEW a \in Archive, work[w].t \in Transfer, Publish(w, a),
         archives' \in SUBSET Archive, ProjectsOK'
  PROVE  TypeOK'
<1> USE DEF TypeOK
<1> DEFINE s == Host[w]
           t == work[w].t
           j == [job[s][t] EXCEPT !.state = "ready"]
<1>1. s \in Side /\ t \in Transfer
  OBVIOUS
<1>2. work[w].phase \in {"copy", "final"}
  BY DEF WorkersOK, Work
<1>3. Published(w) \in (IF s = "source" THEN SourceState ELSE TargetState)
  BY <1>1, <1>2 DEF Published, SourceState, TargetState
<1>4. Advance(s, t, Published(w)) /\ route' = route /\ observed' = observed
      /\ latest' = [latest EXCEPT ![s][t] = a]
  BY DEF Publish
<1>5. ReceiptsOK' /\ TailOK'
  <2>1. /\ latest' \in [Side -> [Transfer -> Archive \cup {NoArchive}]]
        /\ observed' \in [Transfer -> Event \cup {NoEvent}] /\ route' \in [Transfer -> BOOLEAN]
    BY <1>1, <1>4 DEF ReceiptsOK, TailOK
  <2> HIDE DEF s, t
  <2> QED
    BY <1>1, <1>3, <1>4, <2>1, AdvanceType
<1>6. JobsOK'
  <2>1. job[s][t] \in JobRow
    BY <1>1 DEF JobsOK
  <2>2. j \in JobRow
    BY <2>1, Rows
  <2>3. job' = [job EXCEPT ![s][t] = j]
    BY DEF Publish
  <2> HIDE DEF s, t, j
  <2> QED
    BY <1>1, <2>2, <2>3, JobType
<1>7. WorkersOK'
  BY DoneType DEF Publish
<1>8. SDKsOK'
  BY Frame DEF Publish
<1> QED
  BY <1>5, <1>6, <1>7, <1>8

LEMMA WorkerType ==
  ASSUME TypeOK, FinalsAreRows, ImportsAreArchives, NEW w \in Worker, WorkerStep(w)
  PROVE  TypeOK'
<1> USE DEF TypeOK
<1>1. ASSUME NEW t \in Transfer, Claim(w, t)
      PROVE  TypeOK'
  <2> DEFINE s == Host[w]
             j == job[s][t]
             k == [j EXCEPT !.state = "running", !.live = TRUE, !.attempt = j.attempt + 1]
             x == [t |-> t, num |-> j.num, attempt |-> j.attempt + 1,
                   phase |-> j.phase, archive |-> j.archive]
  <2>1. s \in Side /\ j \in JobRow
    BY SMTT(30) DEF JobsOK
  <2>2. k \in JobRow
    BY <2>1, Rows
  <2>3. /\ job' = [job EXCEPT ![s][t] = k] /\ archives' = archives
        /\ work' = [work EXCEPT ![w] = x]
    BY <1>1 DEF Claim
  <2>4. JobsOK'
    <3> HIDE DEF s, k
    <3> QED
      BY <2>1, <2>2, <2>3, JobType DEF JobsOK
  <2>5. x \in Work
    <3>1. j.attempt + 1 \in Nat
      BY <2>1 DEF JobRow
    <3> HIDE DEF s
    <3> QED
      BY <2>1, <3>1 DEF JobRow, Work
  <2>6. WorkersOK'
    <3> HIDE DEF x
    <3> QED
      BY <1>1, <2>3, <2>5 DEF Claim, WorkersOK
  <2> QED
    BY <1>1, <2>4, <2>6, Frame DEF Claim
<1>2. CASE Capture(w)
  <2>1. [t |-> work[w].t, num |-> work[w].num, attempt |-> work[w].attempt,
         phase |-> work[w].phase, rows |-> rows] \in Archive
    BY <1>2 DEF Capture, ImportsAreArchives, WorkersOK, Work, ProjectsOK, Archive
  <2>2. WorkersOK'
    BY <1>2, <2>1 DEF Capture, WorkersOK
  <2> QED
    BY <1>2, <2>2, Frame DEF Capture
<1>3. CASE PublishExport(w)
  <2>1. snap[w] \in Archive /\ work[w].t \in Transfer /\ archives' \in SUBSET Archive
    BY <1>3 DEF PublishExport, FinalsAreRows, ImportsAreArchives, JobsOK
  <2>2. ProjectsOK'
    BY <1>3 DEF PublishExport, Publish, ProjectsOK
  <2> QED
    BY <1>3, <2>1, <2>2, PublishType DEF PublishExport
<1>4. CASE PublishImport(w)
  <2>1. work[w].archive \in Archive /\ work[w].t \in Transfer /\ archives' \in SUBSET Archive
    BY <1>4 DEF PublishImport, ImportsAreArchives, JobsOK
  <2>2. ProjectsOK'
    BY <1>4, <2>1 DEF PublishImport, Publish, ProjectsOK, Archive
  <2> QED
    BY <1>4, <2>1, <2>2, PublishType DEF PublishImport
<1>5. CASE Fail(w)
  <2> DEFINE s == Host[w]
             t == work[w].t
             x == IF job[s][t].cancel THEN "cancelled" ELSE "failed"
             k == [job[s][t] EXCEPT !.state = x]
  <2>1. s \in Side /\ t \in Transfer
    BY <1>5, SMTT(30) DEF Fail, ImportsAreArchives
  <2>2. k \in JobRow
    <3>1. job[s][t] \in JobRow
      BY <2>1 DEF JobsOK
    <3> QED
      BY <3>1, Rows
  <2>3. job' = job \/ job' = [job EXCEPT ![s][t] = k]
    BY <1>5, SMTT(30) DEF Fail
  <2>4. JobsOK'
    <3> HIDE DEF s, t, k
    <3> QED
      BY <1>5, <2>1, <2>2, <2>3, JobType DEF Fail, JobsOK
  <2> QED
    BY <1>5, <2>4, Frame, DoneType DEF Fail
<1>6. CASE Crash(w)
  BY <1>6, Frame, DoneType DEF Crash
<1> QED
  BY <1>1, <1>2, <1>3, <1>4, <1>5, <1>6 DEF WorkerStep

\* Nothing an event meets on its way changes a receipt, a job or a worker.
LEMMA EventType ==
  ASSUME TypeOK, NEW e \in Event, EventStep(e)
  PROVE  TypeOK'
<1> USE DEF TypeOK
<1>1. CASE Admit(e)
  <2>1. SDKsOK'
    BY <1>1 DEF Admit, SDKsOK
  <2> QED
    BY <1>1, <2>1, Frame DEF Admit
<1>2. CASE Write(e)
  <2>1. SDKsOK' /\ ProjectsOK'
    BY <1>2 DEF Write, SDKsOK, ProjectsOK
  <2> QED
    BY <1>2, <2>1, Frame DEF Write
<1>3. CASE Acknowledge(e)
  <2>1. SDKsOK'
    BY <1>3 DEF Acknowledge, SDKsOK
  <2> QED
    BY <1>3, <2>1, Frame DEF Acknowledge
<1>4. CASE Resend(e)
  <2>1. SDKsOK'
    BY <1>4 DEF Resend, SDKsOK
  <2> QED
    BY <1>4, <2>1, Frame DEF Resend
<1>5. ASSUME NEW t \in Transfer, Receive(t, e)
      PROVE  TypeOK'
  <2>1. ProjectsOK'
    BY <1>5 DEF Receive, ProjectsOK
  <2>2. SDKsOK'
    BY <1>5 DEF Receive, SDKsOK
  <2>3. ReceiptsOK'
    BY <1>5 DEF Receive, ReceiptsOK
  <2> QED
    BY <1>5, <2>1, <2>2, <2>3, Frame DEF Receive
<1> QED
  BY <1>1, <1>2, <1>3, <1>4, <1>5 DEF EventStep

LEMMA TypeStep == IInv /\ [Next]_vars => TypeOK'
<1> SUFFICES ASSUME IInv, [Next]_vars
             PROVE  TypeOK'
  OBVIOUS
<1>1. CASE UNCHANGED vars
  BY <1>1, Frame DEF IInv, TypeOK, vars
<1> QED
  BY <1>1, StepCases, OwnersType, OwnerType, WorkerType, EventType DEF IInv

-----------------------------------------------------------------------------
(* How a step moves a receipt, and what that leaves of the invariant.      *)

\* Only these move the fence or a receipt.
Moves ==
    \/ \E s \in Side, t \in Transfer : Create(s, t) \/ Cancel(s, t)
    \/ \E t \in Transfer : Seal(t) \/ Activate(t) \/ Verify(t) \/ Complete(t) \/ Configure(t)
    \/ \E w \in Worker : PublishExport(w) \/ PublishImport(w)

LEMMA StillReceipts ==
  ASSUME TypeOK, [Next]_vars, ~Moves
  PROVE  fence' = fence /\ state' = state /\ staged' = staged
<1>1. \A s \in Side, t \in Transfer : \A next :
         next = state[s][t] /\ Advance(s, t, next) => state' = state
  BY SMTT(30) DEF Advance, TypeOK, ReceiptsOK
<1>2. ASSUME NEW t \in Transfer, OwnerOf(t)
      PROVE  fence' = fence /\ state' = state /\ staged' = staged
  BY <1>1, <1>2 DEF Moves, OwnerOf, Export, Upload, Queue, AskProof, RouteExpires,
                    projectVars, receiptVars
<1>3. ASSUME NEW w \in Worker, WorkerStep(w)
      PROVE  fence' = fence /\ state' = state /\ staged' = staged
  BY <1>3 DEF Moves, WorkerStep, Claim, Capture, Fail, Crash, projectVars, receiptVars
<1>4. ASSUME NEW e \in Event, EventStep(e)
      PROVE  fence' = fence /\ state' = state /\ staged' = staged
  BY <1>4 DEF EventStep, Admit, Write, Acknowledge, Resend, Receive, projectVars, receiptVars
<1>5. ASSUME NEW s \in Side, NEW t \in Transfer, OwnersOf(s, t)
      PROVE  fence' = fence /\ state' = state /\ staged' = staged
  BY <1>5 DEF Moves, OwnersOf, CancelJob, Expire, projectVars, receiptVars
<1>6. CASE UNCHANGED vars
  BY <1>6 DEF vars, projectVars, receiptVars
<1> QED
  BY <1>2, <1>3, <1>4, <1>5, <1>6, StepCases

\* Where a publication takes a receipt.
LEMMA PublishedAt ==
  ASSUME TypeOK, NEW w \in Worker, work[w].t \in Transfer, NEW a, Publish(w, a)
  PROVE  /\ Host[w] = "source" =>
               /\ state' = [state EXCEPT !["source"][work[w].t] =
                               IF work[w].phase = "copy" THEN "copied" ELSE "sealed"]
         /\ Host[w] = "target" =>
               /\ state' = [state EXCEPT !["target"][work[w].t] =
                               IF work[w].phase = "copy" THEN "copied" ELSE "ready"]
         /\ fence' = fence /\ rows' = rows
         /\ \A t \in Transfer : t # work[w].t =>
               state'["source"][t] = state["source"][t] /\ state'["target"][t] = state["target"][t]
  BY DEF Publish, Advance, Published, TypeOK, ReceiptsOK

\* The fence is put on with the seal, and neither is taken back.
LEMMA FenceStep ==
  ASSUME IInv, [Next]_vars
  PROVE  FenceIsSealed' /\ (fence # NoTransfer => fence' = fence)
<1> USE DEF IInv, TypeOK, FenceIsSealed
<1>1. CASE ~Moves
  BY <1>1, StillReceipts
<1>2. ASSUME NEW s \in Side, NEW t \in Transfer, Create(s, t) \/ Cancel(s, t)
      PROVE  FenceIsSealed' /\ fence' = fence
  BY <1>2 DEF Create, Cancel, Advance, ReceiptsOK, projectVars
<1>3. ASSUME NEW t \in Transfer, Seal(t)
      PROVE  FenceIsSealed' /\ fence = NoTransfer
  BY <1>3 DEF Seal, Advance, ReceiptsOK
<1>4. ASSUME NEW t \in Transfer, Activate(t) \/ Verify(t) \/ Complete(t)
      PROVE  FenceIsSealed' /\ fence' = fence
  BY <1>4 DEF Activate, Verify, Complete, Advance, ReceiptsOK, projectVars
<1>5. ASSUME NEW t \in Transfer, Configure(t)
      PROVE  FenceIsSealed' /\ fence' = fence
  BY <1>5 DEF Configure, Advance, ReceiptsOK, projectVars
<1>6. ASSUME NEW w \in Worker, PublishExport(w)
      PROVE  FenceIsSealed' /\ fence' = fence
  <2>1. work[w].t \in Transfer /\ Host[w] = "source"
    BY <1>6 DEF PublishExport, ImportsAreArchives, FinalsAreRows
  <2>2. state' = [state EXCEPT !["source"][work[w].t] =
                     IF work[w].phase = "copy" THEN "copied" ELSE "sealed"]
    BY <1>6, <2>1, PublishedAt DEF PublishExport
  <2>3. fence' = fence
    BY <1>6, <2>1, PublishedAt DEF PublishExport
  <2>4. CASE work[w].phase = "copy"
    BY <1>6, <2>1, <2>2, <2>3, <2>4 DEF PublishExport, ReceiptsOK
  <2>5. CASE work[w].phase = "final"
    BY <1>6, <2>1, <2>2, <2>3, <2>5 DEF PublishExport, ReceiptsOK
  <2> QED
    BY <2>4, <2>5 DEF WorkersOK, Work
<1>7. ASSUME NEW w \in Worker, PublishImport(w)
      PROVE  FenceIsSealed' /\ fence' = fence
  <2>1. work[w].t \in Transfer /\ Host[w] = "target"
    BY <1>7 DEF PublishImport, ImportsAreArchives
  <2> QED
    BY <1>7, <2>1, PublishedAt DEF PublishImport, ReceiptsOK
<1> QED
  BY <1>1, <1>2, <1>3, <1>4, <1>5, <1>6, <1>7 DEF Moves

\* A fenced project is not written.
LEMMA RowsStep ==
  ASSUME IInv, [Next]_vars
  PROVE  rows \subseteq rows' /\ (fence # NoTransfer => rows' = rows)
<1>1. ASSUME NEW s \in Side, NEW t \in Transfer, OwnersOf(s, t)
      PROVE  rows' = rows
  BY <1>1, SMTT(30) DEF OwnersOf, Create, Cancel, CancelJob, Expire, projectVars
<1>2. ASSUME NEW t \in Transfer, OwnerOf(t)
      PROVE  rows' = rows
  BY <1>2, ZenonT(40) DEF OwnerOf, Export, Upload, Queue, Seal, Activate, Verify, Complete,
      AskProof, Configure, RouteExpires, projectVars
<1>3. ASSUME NEW w \in Worker, WorkerStep(w)
      PROVE  rows' = rows
  BY <1>3 DEF WorkerStep, Claim, Capture, PublishExport, PublishImport, Publish, Fail, Crash,
              projectVars
<1>4. ASSUME NEW e \in Event, EventStep(e)
      PROVE  rows \subseteq rows' /\ (fence # NoTransfer => rows' = rows)
  BY <1>4 DEF EventStep, Admit, Write, Writable, Acknowledge, Resend, Receive, projectVars
<1>5. CASE UNCHANGED vars
  BY <1>5 DEF vars, projectVars
<1> QED
  BY <1>1, <1>2, <1>3, <1>4, <1>5, StepCases

\* An archive that is final stays so.
LEMMA FinalStays ==
  ASSUME IInv, [Next]_vars, NEW a, Final(a), a.phase = "final" => a.t \in Transfer
  PROVE  Final(a)'
  BY FenceStep, RowsStep DEF Final

\* What no worker's own step touches.
LEMMA OthersHands ==
  ASSUME TypeOK, [Next]_vars
  PROVE  \/ UNCHANGED <<workerVars, archives>>
         \/ \E w \in Worker : WorkerStep(w)
<1>1. ASSUME NEW s \in Side, NEW t \in Transfer, OwnersOf(s, t)
      PROVE  UNCHANGED <<workerVars, archives>>
  BY <1>1, SMTT(30) DEF OwnersOf, Create, Cancel, CancelJob, Expire, jobVars, workerVars
<1>2. ASSUME NEW t \in Transfer, OwnerOf(t)
      PROVE  UNCHANGED <<workerVars, archives>>
  BY <1>2 DEF OwnerOf, Export, Upload, Queue, Seal, Activate, Verify, Complete, AskProof,
              Configure, RouteExpires, jobVars, workerVars
<1>3. ASSUME NEW e \in Event, EventStep(e)
      PROVE  UNCHANGED <<workerVars, archives>>
  BY <1>3 DEF EventStep, Admit, Write, Acknowledge, Resend, Receive, jobVars, workerVars
<1>4. CASE UNCHANGED vars
  BY <1>4 DEF vars, jobVars, workerVars
<1> QED
  BY <1>1, <1>2, <1>3, <1>4, StepCases

\* A worker has let go of its work.
LEMMA Idle ==
  ASSUME TypeOK, NEW w \in Worker, Done(w)
  PROVE  /\ pc'[w] = "idle"
         /\ \A v \in Worker : v # w =>
               pc'[v] = pc[v] /\ work'[v] = work[v] /\ snap'[v] = snap[v]
  BY DEF Done, TypeOK, WorkersOK

\* Final archives, published or in a worker's hands, have the rows of the fenced project.
LEMMA FinalsStep ==
  ASSUME IInv, [Next]_vars
  PROVE  FinalsAreRows'
<1> USE DEF IInv
<1> DEFINE Hand(w) == pc[w] = "captured" =>
             /\ Host[w] = "source" /\ snap[w] \in Archive /\ Final(snap[w])
             /\ snap[w].t = work[w].t /\ snap[w].phase = work[w].phase
<1>1. \A a \in Archive : Final(a) => Final(a)'
  BY FinalStays DEF Archive
<1>2. \A a \in archives : a \in Archive /\ Final(a) /\ Final(a)'
  BY <1>1 DEF FinalsAreRows, TypeOK, JobsOK
<1>3. \A w \in Worker : Hand(w)
  BY DEF FinalsAreRows
<1>4. \A w \in Worker :
         pc'[w] = pc[w] /\ work'[w] = work[w] /\ snap'[w] = snap[w] => Hand(w)'
  BY <1>1, <1>3 DEF FinalsAreRows
<1>5. SUFFICES (\A a \in archives' : Final(a)') /\ (\A w \in Worker : Hand(w)')
  BY DEF FinalsAreRows
<1> HIDE DEF Hand
<1>6. CASE UNCHANGED <<workerVars, archives>>
  BY <1>2, <1>4, <1>6 DEF workerVars
<1>7. ASSUME NEW w \in Worker, WorkerStep(w)
      PROVE  (\A a \in archives' : Final(a)') /\ (\A v \in Worker : Hand(v)')
  <2>1. ASSUME NEW t \in Transfer, Claim(w, t)
        PROVE  /\ archives' = archives /\ pc'[w] # "captured"
               /\ \A v \in Worker : v # w =>
                     pc'[v] = pc[v] /\ work'[v] = work[v] /\ snap'[v] = snap[v]
    BY <2>1 DEF Claim, TypeOK, WorkersOK
  <2>2. ASSUME Capture(w)
        PROVE  archives' = archives /\ \A v \in Worker : Hand(v)'
    <3>1. /\ pc' = [pc EXCEPT ![w] = "captured"] /\ work' = work /\ archives' = archives
          /\ snap' = [snap EXCEPT ![w] =
                [t |-> work[w].t, num |-> work[w].num, attempt |-> work[w].attempt,
                 phase |-> work[w].phase, rows |-> rows]]
          /\ rows' = rows /\ fence' = fence
      BY <2>2 DEF Capture, jobVars, projectVars
    <3>2. snap'[w] \in Archive
      BY <2>2, <3>1 DEF Capture, ImportsAreArchives, TypeOK, WorkersOK, Work, ProjectsOK, Archive
    <3>3. /\ snap'[w].t = work[w].t /\ snap'[w].phase = work[w].phase /\ snap'[w].rows = rows
          /\ \A v \in Worker : v # w => pc'[v] = pc[v] /\ snap'[v] = snap[v]
      BY <3>1 DEF TypeOK, WorkersOK
    <3>4. Hand(w)'
      BY <2>2, <3>1, <3>2, <3>3 DEF Hand, Capture, Exportable, Final
    <3> QED
      BY <1>4, <3>1, <3>3, <3>4
  <2>3. ASSUME PublishExport(w)
        PROVE  (\A a \in archives' : Final(a)') /\ Done(w)
    <3>1. snap[w] \in Archive /\ Final(snap[w])
      BY <1>3, <2>3 DEF PublishExport, Hand
    <3>2. ASSUME NEW a \in archives'
          PROVE  Final(a)'
      <4>1. a \in archives \/ a = snap[w]
        BY <2>3 DEF PublishExport
      <4> QED
        BY <1>1, <1>2, <3>1, <4>1
    <3> QED
      BY <2>3, <3>2 DEF PublishExport, Publish
  <2>4. ASSUME PublishImport(w) \/ Fail(w) \/ Crash(w)
        PROVE  archives' = archives /\ Done(w)
    BY <2>4 DEF PublishImport, Publish, Fail, Crash, jobVars
  <2>5. ASSUME Done(w)
        PROVE  \A v \in Worker : Hand(v)'
    BY <1>4, <2>5, Idle DEF Hand
  <2>6. ASSUME NEW t \in Transfer, Claim(w, t)
        PROVE  \A v \in Worker : Hand(v)'
    BY <1>4, <2>1, <2>6 DEF Hand
  <2>7. CASE \E t \in Transfer : Claim(w, t)
    BY <1>2, <2>1, <2>6, <2>7
  <2>8. CASE Capture(w)
    BY <1>2, <2>2, <2>8
  <2>9. CASE PublishExport(w)
    BY <2>3, <2>5, <2>9
  <2>10. CASE PublishImport(w) \/ Fail(w) \/ Crash(w)
    BY <1>2, <2>4, <2>5, <2>10
  <2> QED
    BY <1>7, <2>7, <2>8, <2>9, <2>10 DEF WorkerStep
<1> QED
  BY <1>6, <1>7, OthersHands

\* The steps that write a row of the jobs.
LEMMA JobMoves ==
  ASSUME [Next]_vars
  PROVE  \/ UNCHANGED job
         \/ \E s \in Side, t \in Transfer : CancelJob(s, t) \/ Expire(s, t)
         \/ \E t \in Transfer, phase \in {"copy", "final"} :
               Export(t, phase) \/ \E a \in archives : Upload(t, phase, a)
         \/ \E w \in Worker, t \in Transfer : Claim(w, t)
         \/ \E w \in Worker : PublishExport(w) \/ PublishImport(w) \/ Fail(w)
  BY DEF Next, OwnerStep, SDKStep, Trouble, Step, Create, Cancel, Seal, Activate, Verify,
         Complete, AskProof, Configure, RouteExpires, Capture, Crash, Admit, Write, Acknowledge,
         Resend, Receive, jobVars, vars

\* A job of the target always names an archive that was published.
LEMMA ImportsStep ==
  ASSUME IInv, [Next]_vars
  PROVE  ImportsAreArchives'
<1> USE DEF IInv
<1>1. archives \subseteq archives'
  <2>1. ASSUME NEW w \in Worker, WorkerStep(w)
        PROVE  archives \subseteq archives'
    BY <2>1 DEF WorkerStep, Claim, Capture, PublishExport, PublishImport, Fail, Crash, jobVars
  <2> QED
    BY <2>1, OthersHands
<1>2. \A t \in Transfer : Busy("target", t) => job["target"][t].archive \in archives'
  BY <1>1 DEF ImportsAreArchives
<1>3. \A w \in Worker : pc'[w] # "idle" /\ pc[w] # "idle" /\ work'[w] = work[w] =>
         /\ work'[w].t \in Transfer
         /\ Host[w] = "target" => work'[w].archive \in archives'
  BY <1>1 DEF ImportsAreArchives
<1>4. \A w \in Worker : pc'[w] # "idle" =>
         /\ work'[w].t \in Transfer
         /\ Host[w] = "target" => work'[w].archive \in archives'
  <2>1. CASE UNCHANGED <<workerVars, archives>>
    BY <1>3, <2>1 DEF workerVars
  <2>2. ASSUME NEW w \in Worker, Done(w)
        PROVE  \A v \in Worker : pc'[v] # "idle" =>
                  /\ work'[v].t \in Transfer
                  /\ Host[v] = "target" => work'[v].archive \in archives'
    BY <1>3, <2>2, Idle
  <2>3. ASSUME NEW w \in Worker, Capture(w)
        PROVE  \A v \in Worker : pc'[v] # "idle" =>
                  /\ work'[v].t \in Transfer
                  /\ Host[v] = "target" => work'[v].archive \in archives'
    BY <1>3, <2>3 DEF Capture, TypeOK, WorkersOK
  <2>4. ASSUME NEW w \in Worker, NEW t \in Transfer, Claim(w, t)
        PROVE  \A v \in Worker : pc'[v] # "idle" =>
                  /\ work'[v].t \in Transfer
                  /\ Host[v] = "target" => work'[v].archive \in archives'
    <3>1. work'[w].t = t /\ work'[w].archive = job[Host[w]][t].archive /\ Busy(Host[w], t)
      BY <2>4 DEF Claim, Busy, TypeOK, WorkersOK
    <3>2. \A v \in Worker : v # w => pc'[v] = pc[v] /\ work'[v] = work[v]
      BY <2>4 DEF Claim, TypeOK, WorkersOK
    <3> QED
      BY <1>2, <1>3, <3>1, <3>2
  <2> QED
    BY <2>1, <2>2, <2>3, <2>4, OthersHands
       DEF WorkerStep, PublishExport, PublishImport, Publish, Fail, Crash
<1>5. \A t \in Transfer : Busy("target", t)' => job'["target"][t].archive \in archives'
  <2>1. ASSUME UNCHANGED job
        PROVE  \A t \in Transfer : Busy("target", t)' => job'["target"][t].archive \in archives'
    BY <1>2, <2>1 DEF Busy
  <2>2. ASSUME NEW s \in Side, NEW t \in Transfer, NEW j, job' = [job EXCEPT ![s][t] = j],
               s = "target" /\ j.state \in {"queued", "running"} => j.archive \in archives'
        PROVE  \A u \in Transfer : Busy("target", u)' => job'["target"][u].archive \in archives'
    BY <1>2, <2>2 DEF Busy, TypeOK, JobsOK
  <2>3. \A s \in Side, t \in Transfer : job[s][t] \in JobRow
    BY DEF TypeOK, JobsOK
  <2>4. ASSUME NEW s \in Side, NEW t \in Transfer, CancelJob(s, t) \/ Expire(s, t)
        PROVE  \A u \in Transfer : Busy("target", u)' => job'["target"][u].archive \in archives'
    <3>1. \A x : [job[s][t] EXCEPT !.cancel = TRUE, !.state = x].archive = job[s][t].archive
      BY <2>3 DEF JobRow
    <3>2. [job[s][t] EXCEPT !.live = FALSE].archive = job[s][t].archive
      BY <2>3 DEF JobRow
    <3>3. Busy(s, t)
      BY <2>4 DEF CancelJob, Expire, Busy
    <3>4. CASE CancelJob(s, t)
      <4> DEFINE x == IF job[s][t].state = "queued" THEN "cancelled" ELSE "running"
                 j == [job[s][t] EXCEPT !.cancel = TRUE, !.state = x]
      <4>1. job' = [job EXCEPT ![s][t] = j]
        BY <3>4 DEF CancelJob
      <4>2. s = "target" => j.archive \in archives'
        BY <1>2, <3>1, <3>3
      <4> HIDE DEF j
      <4> QED
        BY <2>2, <4>1, <4>2
    <3>5. CASE Expire(s, t)
      <4> DEFINE j == [job[s][t] EXCEPT !.live = FALSE]
      <4>1. job' = [job EXCEPT ![s][t] = j]
        BY <3>5 DEF Expire
      <4>2. s = "target" => j.archive \in archives'
        BY <1>2, <3>2, <3>3
      <4> HIDE DEF j
      <4> QED
        BY <2>2, <4>1, <4>2
    <3> QED
      BY <2>4, <3>4, <3>5
  <2>5. ASSUME NEW t \in Transfer, NEW phase \in {"copy", "final"}, Export(t, phase)
        PROVE  \A u \in Transfer : Busy("target", u)' => job'["target"][u].archive \in archives'
    BY <2>2, <2>5 DEF Export, Queue
  <2>6. ASSUME NEW t \in Transfer, NEW phase \in {"copy", "final"}, NEW a \in archives,
               Upload(t, phase, a)
        PROVE  \A u \in Transfer : Busy("target", u)' => job'["target"][u].archive \in archives'
    BY <1>1, <2>2, <2>6 DEF Upload, Queue, NoJob
  <2>7. ASSUME NEW w \in Worker, NEW t \in Transfer, Claim(w, t)
        PROVE  \A u \in Transfer : Busy("target", u)' => job'["target"][u].archive \in archives'
    <3> DEFINE j == [job[Host[w]][t] EXCEPT !.state = "running", !.live = TRUE,
                                            !.attempt = job[Host[w]][t].attempt + 1]
    <3>1. job' = [job EXCEPT ![Host[w]][t] = j] /\ Busy(Host[w], t) /\ Host[w] \in Side
      BY <2>7 DEF Claim, Busy
    <3>2. j.archive = job[Host[w]][t].archive
      BY <2>3, <3>1 DEF JobRow
    <3> HIDE DEF j
    <3> QED
      BY <1>2, <2>2, <3>1, <3>2
  <2>8. ASSUME NEW w \in Worker, PublishExport(w) \/ PublishImport(w) \/ Fail(w)
        PROVE  \A u \in Transfer : Busy("target", u)' => job'["target"][u].archive \in archives'
    <3> DEFINE s == Host[w]
               t == work[w].t
    <3>1. s \in Side /\ t \in Transfer
      BY <2>8, SMTT(30) DEF PublishExport, PublishImport, Fail, ImportsAreArchives
    <3>2. \/ UNCHANGED job
          \/ \E x \in {"ready", "cancelled", "failed"} :
                job' = [job EXCEPT ![s][t] = [job[s][t] EXCEPT !.state = x]]
      BY <2>8 DEF PublishExport, PublishImport, Publish, Fail
    <3>3. ASSUME NEW x \in {"ready", "cancelled", "failed"}
          PROVE  [job[s][t] EXCEPT !.state = x].state = x
      BY <2>3, <3>1 DEF JobRow
    <3>4. ASSUME NEW x \in {"ready", "cancelled", "failed"},
                 job' = [job EXCEPT ![s][t] = [job[s][t] EXCEPT !.state = x]]
          PROVE  \A u \in Transfer : Busy("target", u)' => job'["target"][u].archive \in archives'
      <4> DEFINE j == [job[s][t] EXCEPT !.state = x]
      <4>1. job' = [job EXCEPT ![s][t] = j] /\ j.state = x
        BY <3>3, <3>4
      <4> HIDE DEF s, t, j
      <4> QED
        BY <2>2, <3>1, <4>1
    <3> HIDE DEF s, t
    <3> QED
      BY <2>1, <3>2, <3>4
  <2> QED
    BY <2>1, <2>4, <2>5, <2>6, <2>7, <2>8, JobMoves
<1> QED
  BY <1>4, <1>5 DEF ImportsAreArchives

\* A copy changes only with its receipt, or where its project is open and receives an event.
Receives(t, e) == staged[t] = "open" /\ copy' = [copy EXCEPT ![t] = @ \cup {e}]
LEMMA CopyStep ==
  ASSUME TypeOK, [Next]_vars
  PROVE  \/ copy' = copy
         \/ \E t \in Transfer, e \in Event : Receives(t, e) /\ ~Moves /\ state' = state
         \/ \E t \in Transfer : Cancel("target", t)
         \/ \E w \in Worker : PublishImport(w)
<1>1. ASSUME NEW s \in Side, NEW t \in Transfer, OwnersOf(s, t)
      PROVE  copy' = copy \/ Cancel("target", t)
  BY <1>1, SMTT(30) DEF OwnersOf, Create, Cancel, CancelJob, Expire, projectVars
<1>2. ASSUME NEW t \in Transfer, OwnerOf(t)
      PROVE  copy' = copy
  BY <1>2 DEF OwnerOf, Export, Upload, Queue, Seal, Activate, Verify, Complete, AskProof,
              Configure, RouteExpires, projectVars
<1>3. ASSUME NEW w \in Worker, WorkerStep(w)
      PROVE  copy' = copy \/ PublishImport(w)
  BY <1>3 DEF WorkerStep, Claim, Capture, PublishExport, Publish, Fail, Crash, projectVars
<1>4. ASSUME NEW e \in Event, EventStep(e)
      PROVE  copy' = copy \/ \E t \in Transfer : Receives(t, e) /\ state' = state
  BY <1>4 DEF EventStep, Admit, Write, Acknowledge, Resend, Receive, Accepts, Receives, projectVars
<1>5. CASE UNCHANGED vars
  BY <1>5 DEF vars, projectVars
<1>6. ASSUME NEW t \in Transfer, NEW e \in Event, Receives(t, e), Moves, copy' # copy
      PROVE  \/ \E u \in Transfer : Cancel("target", u)
             \/ \E w \in Worker : PublishImport(w)
  BY <1>6 DEF Moves, Create, Cancel, Seal, Activate, Verify, Complete, Configure,
              PublishExport, projectVars
<1> QED
  BY <1>1, <1>2, <1>3, <1>4, <1>5, <1>6, StepCases

\* An import that is published as final brings what the source has.
LEMMA ImportedRows ==
  ASSUME IInv, NEW w \in Worker, PublishImport(w)
  PROVE  LET t == work[w].t IN
         /\ t \in Transfer /\ Host[w] = "target" /\ staged[t] # "open"
         /\ state["target"][t] \in {"copying", "copied"} /\ fence' = fence /\ rows' = rows
         /\ \/ state' = [state EXCEPT !["target"][t] = "copied"]
            \/ /\ state' = [state EXCEPT !["target"][t] = "ready"]
               /\ fence = t /\ work[w].archive.rows = rows
         /\ staged' = [staged EXCEPT ![t] = "fenced"]
         /\ copy' = [copy EXCEPT ![t] = work[w].archive.rows]
<1> USE DEF IInv
<1>1. work[w].t \in Transfer /\ Host[w] = "target" /\ work[w].archive \in archives
  BY DEF PublishImport, ImportsAreArchives
<1>2. work[w].phase = "final" => fence = work[w].t /\ work[w].archive.rows = rows
  BY <1>1 DEF PublishImport, Fits, FinalsAreRows, Final
<1>3. work[w].phase \in {"copy", "final"}
  BY DEF TypeOK, WorkersOK, Work
<1>4. /\ state' = [state EXCEPT !["target"][work[w].t] =
                      IF work[w].phase = "copy" THEN "copied" ELSE "ready"]
      /\ fence' = fence /\ rows' = rows
  BY <1>1, PublishedAt DEF PublishImport
<1> QED
  BY <1>1, <1>2, <1>3, <1>4 DEF PublishImport

\* A ready target has the rows of the source, an open one those and more.
LEMMA TargetStep ==
  ASSUME IInv, [Next]_vars
  PROVE  TargetHasRows' /\ OpenIsActive'
<1> USE DEF IInv, Beyond
<1>1. \A t \in Transfer : state["target"][t] \in Beyond =>
         fence' = t /\ rows' = rows /\ rows \subseteq copy[t]
  BY FenceStep, RowsStep DEF TargetHasRows
<1>2. ASSUME NEW t \in Transfer, NEW e \in Event, Receives(t, e), ~Moves
      PROVE  TargetHasRows' /\ OpenIsActive'
  <2>1. state' = state /\ staged' = staged
    BY <1>2, StillReceipts
  <2>2. \A u \in Transfer : copy'[u] = IF u = t THEN copy[t] \cup {e} ELSE copy[u]
    BY <1>2 DEF Receives, TypeOK, ProjectsOK
  <2>3. state["target"][t] # "ready"
    BY <1>2 DEF Receives, OpenIsActive
  <2> QED
    BY <1>1, <2>1, <2>2, <2>3 DEF TargetHasRows, OpenIsActive
<1>3. CASE copy' = copy /\ ~Moves
  <2>1. state' = state /\ staged' = staged
    BY <1>3, StillReceipts
  <2> QED
    BY <1>1, <1>3, <2>1 DEF TargetHasRows, OpenIsActive
<1>4. ASSUME NEW s \in Side, NEW t \in Transfer, Create(s, t)
      PROVE  TargetHasRows' /\ OpenIsActive'
  <2>1. /\ copy' = copy /\ staged' = staged
        /\ state' = [state EXCEPT ![s][t] = "copying"] /\ state[s][t] = "absent"
    BY <1>4 DEF Create, Advance, projectVars
  <2>2. \A u \in Transfer : state'["target"][u] \in {state["target"][u], "copying"}
                            /\ (state'["target"][u] # state["target"][u] =>
                                   state["target"][u] = "absent")
    BY <2>1 DEF TypeOK, ReceiptsOK
  <2> QED
    BY <1>1, <2>1, <2>2 DEF TargetHasRows, OpenIsActive
<1>5. ASSUME NEW s \in Side, NEW t \in Transfer, Cancel(s, t)
      PROVE  TargetHasRows' /\ OpenIsActive'
  <2>1. /\ state' = [state EXCEPT ![s][t] = "cancelled"]
        /\ state[s][t] \in {"copying", "copied"}
    BY <1>5 DEF Cancel, Advance
  <2>2. \A u \in Transfer : u # t \/ s # "target" =>
           /\ staged'[u] = staged[u] /\ copy'[u] = copy[u]
           /\ state'["target"][u] = state["target"][u]
    BY <1>5, <2>1 DEF Cancel, TypeOK, ProjectsOK, ReceiptsOK
  <2>3. s = "target" => state'["target"][t] = "cancelled" /\ staged'[t] # "open"
    BY <1>5, <2>1 DEF Cancel, TypeOK, ProjectsOK, ReceiptsOK, OpenIsActive
  <2> QED
    BY <1>1, <2>2, <2>3 DEF TargetHasRows, OpenIsActive
<1>6. ASSUME NEW t \in Transfer, Seal(t) \/ Configure(t)
      PROVE  TargetHasRows' /\ OpenIsActive'
  <2>1. copy' = copy /\ staged' = staged
    BY <1>6 DEF Seal, Configure, projectVars
  <2>2. \A u \in Transfer : state'["target"][u] = state["target"][u]
    BY <1>6 DEF Seal, Configure, Advance, TypeOK, ReceiptsOK
  <2> QED
    BY <1>1, <2>1, <2>2 DEF TargetHasRows, OpenIsActive
<1>7. ASSUME NEW t \in Transfer, Activate(t)
      PROVE  TargetHasRows' /\ OpenIsActive'
  <2>1. copy' = copy /\ state["target"][t] = "ready"
    BY <1>7 DEF Activate
  <2>2. \A u \in Transfer :
           /\ state'["target"][u] = IF u = t THEN "active" ELSE state["target"][u]
           /\ staged'[u] = IF u = t THEN "open" ELSE staged[u]
    BY <1>7 DEF Activate, Advance, TypeOK, ReceiptsOK, ProjectsOK
  <2> QED
    BY <1>1, <2>1, <2>2 DEF TargetHasRows, OpenIsActive
<1>8. ASSUME NEW t \in Transfer, Verify(t) \/ Complete(t)
      PROVE  TargetHasRows' /\ OpenIsActive'
  <2>1. /\ copy' = copy /\ staged' = staged
        /\ state["target"][t] \in {"active", "observing"}
    BY <1>8 DEF Verify, Complete, projectVars
  <2>2. \A u \in Transfer :
           state'["target"][u] \in IF u = t THEN {"observing", "completed"}
                                   ELSE {state["target"][u]}
    BY <1>8 DEF Verify, Complete, Advance, TypeOK, ReceiptsOK
  <2> QED
    BY <1>1, <2>1, <2>2 DEF TargetHasRows, OpenIsActive
<1>9. ASSUME NEW w \in Worker, PublishExport(w)
      PROVE  TargetHasRows' /\ OpenIsActive'
  <2>1. copy' = copy /\ staged' = staged /\ Host[w] = "source" /\ work[w].t \in Transfer
    BY <1>9 DEF PublishExport, FinalsAreRows, ImportsAreArchives
  <2>2. \A u \in Transfer : state'["target"][u] = state["target"][u]
    BY <1>9, <2>1, PublishedAt DEF PublishExport, TypeOK, ReceiptsOK
  <2> QED
    BY <1>1, <2>1, <2>2 DEF TargetHasRows, OpenIsActive
<1>10. ASSUME NEW w \in Worker, PublishImport(w)
       PROVE  TargetHasRows' /\ OpenIsActive'
  <2> DEFINE t == work[w].t
  <2>1. \A u \in Transfer : u # t =>
           /\ staged'[u] = staged[u] /\ copy'[u] = copy[u]
           /\ state'["target"][u] = state["target"][u]
    BY <1>10, ImportedRows DEF TypeOK, ProjectsOK, ReceiptsOK
  <2>2. /\ staged'[t] = "fenced"
        /\ \/ state'["target"][t] = "copied"
           \/ state'["target"][t] = "ready" /\ fence' = t /\ copy'[t] = rows'
    BY <1>10, ImportedRows DEF TypeOK, ProjectsOK, ReceiptsOK
  <2> QED
    BY <1>1, <2>1, <2>2 DEF TargetHasRows, OpenIsActive
<1> QED
  BY <1>2, <1>3, <1>4, <1>5, <1>6, <1>7, <1>8, <1>9, <1>10, CopyStep DEF Moves

\* An open copy stays open and only grows; one that opens has the rows of the source.
LEMMA OpenGrows ==
  ASSUME IInv, [Next]_vars
  PROVE  \A t \in Transfer :
            /\ staged[t] = "open" => staged'[t] = "open" /\ copy[t] \subseteq copy'[t]
            /\ staged'[t] = "open" =>
                  staged[t] = "open" \/ (fence = t /\ rows \subseteq copy'[t] /\ copy' = copy)
<1> USE DEF IInv
<1>1. \A t \in Transfer, e \in Event : Receives(t, e) => \A u \in Transfer : copy[u] \subseteq copy'[u]
  BY DEF Receives, TypeOK, ProjectsOK
<1>2. CASE ~Moves
  <2>1. staged' = staged
    BY <1>2, StillReceipts
  <2> QED
    BY <1>1, <1>2, <2>1, CopyStep DEF Moves
<1>3. ASSUME NEW s \in Side, NEW t \in Transfer, Cancel(s, t)
      PROVE  \A u \in Transfer :
                /\ staged[u] = "open" => staged'[u] = "open" /\ copy'[u] = copy[u]
                /\ staged'[u] = "open" => staged[u] = "open"
  BY <1>3 DEF Cancel, TypeOK, ProjectsOK
<1>4. ASSUME NEW s \in Side, NEW t \in Transfer, Create(s, t)
      PROVE  copy' = copy /\ staged' = staged
  BY <1>4 DEF Create, projectVars
<1>5. ASSUME NEW t \in Transfer, Seal(t) \/ Configure(t) \/ Verify(t) \/ Complete(t)
      PROVE  copy' = copy /\ staged' = staged
  BY <1>5 DEF Seal, Configure, Verify, Complete, projectVars
<1>6. ASSUME NEW t \in Transfer, Activate(t)
      PROVE  /\ copy' = copy /\ fence = t /\ rows \subseteq copy[t]
             /\ \A u \in Transfer : staged'[u] = IF u = t THEN "open" ELSE staged[u]
  <2>1. state["target"][t] = "ready" /\ copy' = copy
    BY <1>6 DEF Activate
  <2> QED
    BY <1>6, <2>1 DEF Activate, TargetHasRows, Beyond, TypeOK, ProjectsOK
<1>7. ASSUME NEW w \in Worker, PublishExport(w)
      PROVE  copy' = copy /\ staged' = staged
  BY <1>7 DEF PublishExport
<1>8. ASSUME NEW w \in Worker, PublishImport(w)
      PROVE  \A u \in Transfer :
                /\ staged[u] = "open" => staged'[u] = "open" /\ copy'[u] = copy[u]
                /\ staged'[u] = "open" => staged[u] = "open"
  BY <1>8, ImportedRows DEF TypeOK, ProjectsOK
<1> QED
  BY <1>2, <1>3, <1>4, <1>5, <1>6, <1>7, <1>8 DEF Moves

\* An event is called stored only where the project is open.
LEMMA SdkStep ==
  ASSUME TypeOK, [Next]_vars
  PROVE  \/ /\ acked' = acked
            /\ \A e \in Event : sdk'[e] = "handled" =>
                  sdk[e] = "handled" \/ (fence' = fence /\ (fence = NoTransfer => e \in rows'))
         \/ \E e \in Event :
               /\ \A x \in Event : sdk'[x] = "handled" => sdk[x] = "handled"
               /\ acked' = acked \cup {e}
               /\ \/ sdk[e] = "handled" /\ fence = NoTransfer /\ UNCHANGED projectVars
                  \/ \E t \in Transfer : Receives(t, e) /\ staged' = staged /\ fence' = fence
<1>1. ASSUME NEW s \in Side, NEW t \in Transfer, OwnersOf(s, t)
      PROVE  acked' = acked /\ sdk' = sdk
  BY <1>1, SMTT(30) DEF OwnersOf, Create, Cancel, CancelJob, Expire, sdkVars
<1>2. ASSUME NEW t \in Transfer, OwnerOf(t)
      PROVE  acked' = acked /\ sdk' = sdk
  BY <1>2, ZenonT(40) DEF OwnerOf, Export, Upload, Queue, Seal, Activate, Verify, Complete,
      AskProof, Configure, RouteExpires, sdkVars
<1>3. ASSUME NEW w \in Worker, WorkerStep(w)
      PROVE  acked' = acked /\ sdk' = sdk
  BY <1>3 DEF WorkerStep, Claim, Capture, PublishExport, PublishImport, Publish, Fail, Crash, sdkVars
<1>4. ASSUME NEW e \in Event, Admit(e) \/ Resend(e)
      PROVE  acked' = acked /\ \A x \in Event : sdk'[x] = "handled" => sdk[x] = "handled"
  BY <1>4 DEF Admit, Resend, TypeOK, SDKsOK
<1>5. ASSUME NEW e \in Event, Write(e)
      PROVE  /\ acked' = acked /\ fence' = fence
             /\ \A x \in Event : sdk'[x] = "handled" =>
                   sdk[x] = "handled" \/ (fence = NoTransfer => x \in rows')
  BY <1>5 DEF Write, Writable, TypeOK, SDKsOK
<1>6. ASSUME NEW e \in Event, Acknowledge(e)
      PROVE  /\ acked' = acked \cup {e} /\ sdk[e] = "handled" /\ fence = NoTransfer
             /\ UNCHANGED projectVars
             /\ \A x \in Event : sdk'[x] = "handled" => sdk[x] = "handled"
  BY <1>6 DEF Acknowledge, Answerable, TypeOK, SDKsOK
<1>7. ASSUME NEW e \in Event, NEW t \in Transfer, Receive(t, e)
      PROVE  /\ acked' = acked \cup {e} \/ acked' = acked
             /\ Receives(t, e) /\ staged' = staged /\ fence' = fence
             /\ \A x \in Event : sdk'[x] = "handled" => sdk[x] = "handled"
  BY <1>7 DEF Receive, Receives, Accepts, TypeOK, SDKsOK
<1>8. CASE UNCHANGED vars
  BY <1>8 DEF vars, sdkVars
<1> QED
  BY <1>1, <1>2, <1>3, <1>4, <1>5, <1>6, <1>7, <1>8, StepCases DEF EventStep

\* What was answered stays stored where the project is.
LEMMA AckedStep ==
  ASSUME IInv, [Next]_vars
  PROVE  AckedIsStored'
<1> USE DEF IInv, AckedIsStored
<1> DEFINE Opened == \E t \in Transfer : staged[t] = "open"
<1>1. \A t \in Transfer : staged[t] = "open" => fence = t
  BY DEF OpenIsActive, TargetHasRows, Beyond
<1>2. \A t, u \in Transfer : staged[t] = "open" /\ staged'[u] = "open" => u = t
  BY <1>1, OpenGrows
<1>3. /\ ~Opened => acked \subseteq rows'
      /\ \A t \in Transfer : staged'[t] = "open" => acked \subseteq copy'[t]
  BY <1>2, OpenGrows, RowsStep
<1>4. CASE /\ acked' = acked
           /\ \A e \in Event : sdk'[e] = "handled" =>
                 sdk[e] = "handled" \/ (fence' = fence /\ (fence = NoTransfer => e \in rows'))
  <2>1. \A e \in Event : sdk'[e] = "handled" /\ fence' = NoTransfer => e \in rows'
    BY <1>4, FenceStep, RowsStep
  <2> QED
    BY <1>3, <1>4, <2>1, OpenGrows
<1>5. ASSUME NEW e \in Event, sdk[e] = "handled", fence = NoTransfer, UNCHANGED projectVars,
             acked' = acked \cup {e},
             \A x \in Event : sdk'[x] = "handled" => sdk[x] = "handled"
      PROVE  AckedIsStored'
  <2>1. e \in rows /\ \A t \in Transfer : staged[t] # "open"
    BY <1>1, <1>5
  <2> QED
    BY <1>5, <2>1 DEF projectVars
<1>6. ASSUME NEW e \in Event, NEW t \in Transfer, Receives(t, e), staged' = staged, fence' = fence,
             acked' = acked \cup {e},
             \A x \in Event : sdk'[x] = "handled" => sdk[x] = "handled"
      PROVE  AckedIsStored'
  <2>1. staged[t] = "open" /\ e \in copy'[t] /\ fence = t
    BY <1>1, <1>6 DEF Receives, TypeOK, ProjectsOK
  <2>2. \A u \in Transfer : staged'[u] = "open" => u = t
    BY <1>2, <2>1
  <2> QED
    BY <1>3, <1>6, <2>1, <2>2
<1> QED
  BY <1>4, <1>5, <1>6, SdkStep

\* The evidence of a cutover was noted when it came in live.
LEMMA ObservedStep ==
  ASSUME IInv, [Next]_vars
  PROVE  ObservedIsLive'
<1> USE DEF IInv, ObservedIsLive
<1>1. ASSUME NEW t \in Transfer, NEW e \in Event, Receive(t, e)
      PROVE  ObservedIsLive'
  <2>1. /\ state' = state
        /\ observed' = [observed EXCEPT ![t] = IF Evidence(t, e) THEN e ELSE @]
        /\ live' = [live EXCEPT ![t] = IF e \in copy[t] THEN @ ELSE @ \cup {e}]
    BY <1>1 DEF Receive
  <2>2. \A u \in Transfer : u # t => observed'[u] = observed[u] /\ live'[u] = live[u]
    BY <2>1 DEF TypeOK, ReceiptsOK, SDKsOK
  <2>3. /\ observed'[t] = IF Evidence(t, e) THEN e ELSE observed[t]
        /\ live'[t] = IF e \in copy[t] THEN live[t] ELSE live[t] \cup {e}
    BY <2>1 DEF TypeOK, ReceiptsOK, SDKsOK
  <2>4. Evidence(t, e) => e \notin copy[t] /\ observed[t] = NoEvent
    BY DEF Evidence
  <2> QED
    BY <2>1, <2>2, <2>3, <2>4
<1>2. ASSUME NEW t \in Transfer, Verify(t)
      PROVE  ObservedIsLive'
  <2>1. /\ observed[t] # NoEvent /\ observed' = observed /\ live' = live
    BY <1>2 DEF Verify, sdkVars, TypeOK, ProjectsOK
  <2>2. \A u \in Transfer : u # t => state'["target"][u] = state["target"][u]
    BY <1>2 DEF Verify, Advance, TypeOK, ReceiptsOK
  <2> QED
    BY <2>1, <2>2
<1>3. ASSUME NEW t \in Transfer, Complete(t)
      PROVE  ObservedIsLive'
  <2>1. /\ state["target"][t] = "observing" /\ observed' = observed /\ live' = live
    BY <1>3 DEF Complete, sdkVars
  <2>2. \A u \in Transfer : u # t => state'["target"][u] = state["target"][u]
    BY <1>3 DEF Complete, Advance, TypeOK, ReceiptsOK
  <2> QED
    BY <2>1, <2>2
<1>4. ASSUME observed' = observed, live' = live,
             \A t \in Transfer : state'["target"][t] \in {"observing", "completed"} =>
                state["target"][t] \in {"observing", "completed"}
      PROVE  ObservedIsLive'
  BY <1>4
<1>5. ASSUME ~Moves, \A t \in Transfer, e \in Event : ~Receive(t, e)
      PROVE  observed' = observed /\ live' = live /\ state' = state
  <2>1. state' = state
    BY <1>5, StillReceipts
  <2>2. ASSUME NEW s \in Side, NEW t \in Transfer, OwnersOf(s, t)
        PROVE  observed' = observed /\ live' = live
    BY <2>2, SMTT(30) DEF OwnersOf, Create, Cancel, CancelJob, Expire, receiptVars, sdkVars
  <2>3. ASSUME NEW t \in Transfer, OwnerOf(t)
        PROVE  observed' = observed /\ live' = live
    BY <2>3, ZenonT(40) DEF OwnerOf, Export, Upload, Queue, Seal, Activate, Verify, Complete,
        AskProof, Configure, RouteExpires, receiptVars, sdkVars
  <2>4. ASSUME NEW w \in Worker, WorkerStep(w)
        PROVE  observed' = observed /\ live' = live
    BY <2>4 DEF WorkerStep, Claim, Capture, PublishExport, PublishImport, Publish, Fail, Crash,
                receiptVars, sdkVars
  <2>5. ASSUME NEW e \in Event, EventStep(e)
        PROVE  observed' = observed /\ live' = live
    BY <1>5, <2>5 DEF EventStep, Admit, Write, Acknowledge, Resend, receiptVars
  <2>6. CASE UNCHANGED vars
    BY <2>6 DEF vars, receiptVars, sdkVars
  <2> QED
    BY <2>1, <2>2, <2>3, <2>4, <2>5, <2>6, StepCases
<1>6. ASSUME NEW s \in Side, NEW t \in Transfer, Create(s, t) \/ Cancel(s, t)
      PROVE  ObservedIsLive'
  BY <1>4, <1>6 DEF Create, Cancel, Advance, sdkVars, TypeOK, ReceiptsOK
<1>7. ASSUME NEW t \in Transfer, Seal(t) \/ Configure(t) \/ Activate(t)
      PROVE  ObservedIsLive'
  BY <1>4, <1>7 DEF Seal, Configure, Activate, Advance, sdkVars, TypeOK, ReceiptsOK
<1>8. ASSUME NEW w \in Worker, PublishExport(w) \/ PublishImport(w)
      PROVE  ObservedIsLive'
  <2>1. work[w].t \in Transfer /\ observed' = observed /\ live' = live
    BY <1>8 DEF PublishExport, PublishImport, Publish, ImportsAreArchives, sdkVars
  <2>2. \A t \in Transfer : state'["target"][t] \in {state["target"][t], "copied", "ready"}
    BY <1>8, <2>1, PublishedAt DEF PublishExport, PublishImport, TypeOK, ReceiptsOK
  <2> QED
    BY <1>4, <2>1, <2>2
<1> QED
  BY <1>1, <1>2, <1>3, <1>4, <1>5, <1>6, <1>7, <1>8 DEF Moves

-----------------------------------------------------------------------------
\* The invariant is inductive.
LEMMA InvStep == IInv /\ [Next]_vars => IInv'
  BY TypeStep, FenceStep, FinalsStep, ImportsStep, TargetStep, AckedStep, ObservedStep DEF IInv

\* Every state of a transfer satisfies it.
THEOREM Invariance == Spec => []IInv
  BY InvInit, InvStep, PTL DEF Spec

\* The types hold: rows, receipts, jobs and archives stay what their columns allow.
THEOREM TransferTypes == Spec => []TypeOK
<1>1. IInv => TypeOK
  BY DEF IInv
<1> QED
  BY <1>1, Invariance, PTL

LEMMA OneOpen == IInv => NeverTwoWriters
  BY DEF IInv, OpenIsActive, TargetHasRows, Beyond, NeverTwoWriters
\* No two servers take the project's events, however its owners and workers interleave.
THEOREM OneWriter == Spec => []NeverTwoWriters
  BY OneOpen, Invariance, PTL

\* Where the project is, and what is stored there.
Where ==
    /\ \A t \in Transfer : staged[t] = "open" => home = t /\ kept = copy[t]
    /\ (\A t \in Transfer : staged[t] # "open") =>
          home = (IF fence = NoTransfer THEN "source" ELSE NoTransfer) /\ kept = rows
LEMMA Whereabouts == NeverTwoWriters => Where
<1> SUFFICES ASSUME NeverTwoWriters PROVE Where
  OBVIOUS
<1>1. ASSUME NEW t \in Transfer, staged[t] = "open"
      PROVE  home = t /\ kept = copy[t]
  <2>1. home = CHOOSE u \in Transfer : staged[u] = "open"
    BY <1>1 DEF home
  <2>2. home \in Transfer /\ staged[home] = "open"
    BY <1>1, <2>1
  <2>3. home = t
    BY <1>1, <2>2 DEF NeverTwoWriters
  <2> QED
    BY <2>3 DEF kept
<1>2. ASSUME \A t \in Transfer : staged[t] # "open"
      PROVE  home = (IF fence = NoTransfer THEN "source" ELSE NoTransfer) /\ kept = rows
  <2>1. home = IF fence = NoTransfer THEN "source" ELSE NoTransfer
    BY <1>2 DEF home
  <2> QED
    BY <2>1 DEF kept
<1> QED
  BY <1>1, <1>2 DEF Where

LEMMA AckedHome == IInv => AckedReachesHome
<1> SUFFICES ASSUME IInv PROVE acked \subseteq kept
  BY DEF AckedReachesHome
<1> QED
  BY OneOpen, Whereabouts DEF IInv, AckedIsStored, Where
\* An acknowledged event is never left behind: a request in the middle of a seal, an export
\* that takes long, an import of an old archive and a second transfer lose none.
THEOREM NothingAckedIsLost == Spec => []AckedReachesHome
  BY AckedHome, Invariance, PTL

\* No event is stored at the source after the snapshot of a final archive.
THEOREM FinalIsFinal == Spec => []FinalArchiveIsFinal
<1>1. IInv => FinalArchiveIsFinal
  BY DEF IInv, FinalsAreRows, Final, FinalArchiveIsFinal
<1> QED
  BY <1>1, Invariance, PTL

\* A cutover is never verified by an imported or repeated event.
THEOREM EvidenceIsLive == Spec => []CutoverEvidenceIsLive
<1>1. IInv => CutoverEvidenceIsLive
  BY DEF IInv, ObservedIsLive, CutoverEvidenceIsLive
<1> QED
  BY <1>1, Invariance, PTL

\* A worker that was given up does not reopen a job.
THEOREM EndedStays == Spec => EndedJobStaysEnded
<1> DEFINE Stays == \A s \in Side, t \in Transfer :
             job[s][t].state \in Ended /\ job'[s][t].num = job[s][t].num => job'[s][t] = job[s][t]
<1>1. ASSUME IInv, [Next]_vars
      PROVE  Stays
  <2> USE DEF IInv, Ended
  <2>1. ASSUME NEW s \in Side, NEW t \in Transfer, NEW j, job' = [job EXCEPT ![s][t] = j],
               job[s][t].state \notin Ended \/ j.num # job[s][t].num
        PROVE  Stays
    BY <1>1, <2>1 DEF TypeOK, JobsOK
  <2>2. ASSUME NEW s \in Side, NEW t \in Transfer, CancelJob(s, t)
        PROVE  Stays
    BY <2>1, <2>2 DEF CancelJob, Busy
  <2>3. ASSUME NEW s \in Side, NEW t \in Transfer, Expire(s, t)
        PROVE  Stays
    BY <2>1, <2>3 DEF Expire
  <2>4. ASSUME NEW s \in Side, NEW t \in Transfer, NEW phase, NEW a, Queue(s, t, phase, a)
        PROVE  Stays
    <3>1. job[s][t].num \in Nat
      BY <1>1 DEF TypeOK, JobsOK, JobRow
    <3>2. job[s][t].num + 1 # job[s][t].num
      BY <3>1
    <3> DEFINE j == [NoJob EXCEPT !.num = job[s][t].num + 1, !.state = "queued",
                                  !.phase = phase, !.archive = a]
    <3>3. job' = [job EXCEPT ![s][t] = j]
      BY <2>4 DEF Queue
    <3>4. j.num = job[s][t].num + 1
      BY DEF NoJob
    <3> HIDE DEF j
    <3> QED
      BY <2>1, <3>2, <3>3, <3>4
  <2>5. ASSUME NEW w \in Worker, NEW t \in Transfer, Claim(w, t)
        PROVE  Stays
    <3>1. Host[w] \in Side /\ job[Host[w]][t].state \notin Ended
      BY <2>5 DEF Claim
    <3> QED
      BY <2>1, <2>5, <3>1 DEF Claim
  <2>6. ASSUME NEW w \in Worker, PublishExport(w) \/ PublishImport(w) \/ Fail(w)
        PROVE  Stays
    <3>1. Host[w] \in Side /\ work[w].t \in Transfer
      BY <1>1, <2>6 DEF PublishExport, PublishImport, Fail, ImportsAreArchives
    <3>2. \/ UNCHANGED job
          \/ /\ job[Host[w]][work[w].t].state = "running"
             /\ \E j : job' = [job EXCEPT ![Host[w]][work[w].t] = j]
      BY <2>6 DEF PublishExport, PublishImport, Publish, Fail, Mine
    <3> QED
      BY <2>1, <3>1, <3>2, SMTT(30)
  <2>7. \/ UNCHANGED job
        \/ \E s \in Side, t \in Transfer : CancelJob(s, t) \/ Expire(s, t)
        \/ \E t \in Transfer, phase \in {"copy", "final"} :
              Export(t, phase) \/ \E a \in archives : Upload(t, phase, a)
        \/ \E w \in Worker, t \in Transfer : Claim(w, t)
        \/ \E w \in Worker : PublishExport(w) \/ PublishImport(w) \/ Fail(w)
    BY <1>1, JobMoves
  <2> QED
    BY <2>2, <2>3, <2>4, <2>5, <2>6, <2>7 DEF Export, Upload
<1>2. IInv /\ [Next]_vars => [Stays]_vars
  BY <1>1
<1> QED
  BY <1>2, Invariance, PTL DEF Spec, EndedJobStaysEnded

-----------------------------------------------------------------------------
(* The transfer implements ProjectHome.                                    *)

\* A step that moves the fence seals a project nobody has taken.
LEMMA FenceMoves ==
  ASSUME TypeOK, [Next]_vars
  PROVE  fence' = fence \/ (fence = NoTransfer /\ staged' = staged /\ rows' = rows /\ acked' = acked)
<1>1. CASE ~Moves
  BY <1>1, StillReceipts, SMTT(30)
<1>2. CASE Moves
  BY <1>2, ZenonT(40) DEF Moves, Create, Cancel, Seal, Activate, Verify, Complete, Configure,
      PublishExport, PublishImport, Publish, projectVars, sdkVars
<1> QED
  BY <1>1, <1>2

\* An acknowledgement, and a project that opens, are steps of their own.
LEMMA Alone ==
  ASSUME IInv, [Next]_vars
  PROVE  /\ \A t \in Transfer : staged[t] # "open" /\ staged'[t] = "open" =>
               /\ fence' = fence /\ fence = t /\ copy' = copy /\ copy[t] = rows
               /\ rows' = rows /\ acked' = acked
         /\ rows' # rows => acked' = acked /\ \E e \in Event : rows' = rows \cup {e}
<1> USE DEF IInv
<1>1. ASSUME NEW s \in Side, NEW t \in Transfer, OwnersOf(s, t)
      PROVE  rows' = rows /\ acked' = acked /\ \A u \in Transfer : staged'[u] = "open" => staged[u] = "open"
  BY <1>1 DEF OwnersOf, Create, Cancel, CancelJob, Expire, projectVars, sdkVars, TypeOK, ProjectsOK
<1>2. ASSUME NEW t \in Transfer, OwnerOf(t), ~Activate(t)
      PROVE  rows' = rows /\ acked' = acked /\ staged' = staged
  BY <1>2 DEF OwnerOf, Export, Upload, Queue, Seal, Verify, Complete, AskProof,
              Configure, RouteExpires, projectVars, sdkVars
<1>3. ASSUME NEW t \in Transfer, Activate(t)
      PROVE  /\ fence' = fence /\ fence = t /\ copy' = copy /\ copy[t] = rows
             /\ rows' = rows /\ acked' = acked
             /\ \A u \in Transfer : u # t => staged'[u] = staged[u]
  BY <1>3 DEF Activate, sdkVars, TargetHasRows, Beyond, TypeOK, ProjectsOK
<1>4. ASSUME NEW w \in Worker, WorkerStep(w)
      PROVE  rows' = rows /\ acked' = acked /\ \A u \in Transfer : staged'[u] = "open" => staged[u] = "open"
  <2>1. rows' = rows /\ acked' = acked
    BY <1>4 DEF WorkerStep, Claim, Capture, PublishExport, PublishImport, Publish, Fail, Crash,
                projectVars, sdkVars
  <2>2. PublishImport(w) => \A u \in Transfer : staged'[u] = "open" => staged[u] = "open"
    BY ImportedRows DEF TypeOK, ProjectsOK
  <2>3. ~PublishImport(w) => staged' = staged
    BY <1>4 DEF WorkerStep, Claim, Capture, PublishExport, Fail, Crash, projectVars
  <2> QED
    BY <2>1, <2>2, <2>3, SMTT(30)
<1>5. ASSUME NEW e \in Event, EventStep(e)
      PROVE  /\ staged' = staged
             /\ rows' # rows => acked' = acked /\ rows' = rows \cup {e}
  BY <1>5 DEF EventStep, Admit, Write, Acknowledge, Resend, Receive, projectVars
<1>6. CASE UNCHANGED vars
  BY <1>6 DEF vars, projectVars, sdkVars
<1> QED
  BY <1>1, <1>2, <1>3, <1>4, <1>5, <1>6, StepCases

\* Every step of the transfer is a step of ProjectHome or leaves it alone.
LEMMA HomeStep ==
  ASSUME IInv, [Next]_vars
  PROVE  [Home!Next]_<<home, kept, acked>>
<1> USE DEF Home!Next, Home!Accept, Home!Acknowledge, Home!AcceptAndAcknowledge, Home!Leave,
            Home!Arrive
<1>1. NeverTwoWriters /\ Where
  BY OneOpen, Whereabouts
<1>2. IInv'
  BY InvStep
<1>3. Where'
  BY <1>2, OneOpen, Whereabouts, PTL
<1>4. TypeOK /\ TypeOK'
  BY <1>2 DEF IInv
<1>5. ASSUME NEW t \in Transfer, staged[t] = "open"
      PROVE  [Home!Next]_<<home, kept, acked>>
  <2>1. staged'[t] = "open" /\ fence = t /\ \A u \in Transfer : staged[u] = "open" => u = t
    BY <1>1, <1>5, OpenGrows DEF NeverTwoWriters
  <2>2. home = t /\ kept = copy[t] /\ home' = t /\ kept' = copy'[t]
    BY <1>1, <1>3, <1>5, <2>1 DEF Where
  <2>3. ASSUME NEW e \in Event, NEW u \in Transfer, Receives(u, e)
        PROVE  kept' = kept \cup {e}
    BY <1>4, <2>1, <2>2, <2>3 DEF Receives, TypeOK, ProjectsOK
  <2>4. \/ kept' = kept
        \/ \E u \in Transfer, e \in Event : Receives(u, e)
    <3>1. \A u \in Transfer : Cancel("target", u) => copy'[t] = copy[t]
      BY <1>4, <1>5 DEF Cancel, TypeOK, ProjectsOK, ReceiptsOK
    <3>2. \A w \in Worker : PublishImport(w) => copy'[t] = copy[t]
      BY <1>4, <1>5, ImportedRows DEF TypeOK, ProjectsOK
    <3> QED
      BY <1>4, <2>2, <3>1, <3>2, CopyStep
  <2>5. \/ acked' = acked
        \/ \E e \in Event : acked' = acked \cup {e} /\ \E u \in Transfer : Receives(u, e)
    BY <1>4, <2>1, SdkStep
  <2>6. CASE acked' = acked
    <3>1. kept' = kept \/ \E e \in Event : kept' = kept \cup {e}
      BY <2>3, <2>4
    <3> QED
      BY <2>2, <2>6, <3>1
  <2>7. ASSUME NEW e \in Event, acked' = acked \cup {e}, \E u \in Transfer : Receives(u, e)
        PROVE  [Home!Next]_<<home, kept, acked>>
    BY <2>2, <2>3, <2>7
  <2> QED
    BY <2>5, <2>6, <2>7
<1>6. ASSUME \A t \in Transfer : staged[t] # "open",
             NEW t \in Transfer, staged'[t] = "open"
      PROVE  [Home!Next]_<<home, kept, acked>>
  <2>1. /\ fence = t /\ copy' = copy /\ copy[t] = rows /\ acked' = acked
    BY <1>6, Alone
  <2>2. home = NoTransfer /\ kept = rows /\ home' = t /\ kept' = rows
    BY <1>1, <1>3, <1>6, <2>1 DEF Where
  <2> QED
    BY <2>1, <2>2
<1>7. ASSUME \A t \in Transfer : staged[t] # "open" /\ staged'[t] # "open"
      PROVE  [Home!Next]_<<home, kept, acked>>
  <2>1. /\ kept = rows /\ kept' = rows'
        /\ home = IF fence = NoTransfer THEN "source" ELSE NoTransfer
        /\ home' = IF fence' = NoTransfer THEN "source" ELSE NoTransfer
    BY <1>1, <1>3, <1>7 DEF Where
  <2>2. CASE fence' # fence
    BY <1>4, <2>1, <2>2, FenceMoves
  <2>3. CASE fence' = fence /\ rows' # rows
    <3>1. fence = NoTransfer /\ acked' = acked /\ \E e \in Event : rows' = rows \cup {e}
      BY <2>3, RowsStep, Alone
    <3> QED
      BY <2>1, <2>3, <3>1
  <2>4. CASE fence' = fence /\ rows' = rows
    <3>1. acked' = acked \/ \E e \in Event : acked' = acked \cup {e} /\ sdk[e] = "handled"
                                             /\ fence = NoTransfer
      BY <1>4, <1>7, SdkStep DEF Receives
    <3>2. \A e \in Event : sdk[e] = "handled" /\ fence = NoTransfer => e \in rows
      BY DEF IInv, AckedIsStored
    <3> QED
      BY <2>1, <2>4, <3>1, <3>2
  <2> QED
    BY <2>2, <2>3, <2>4
<1> QED
  BY <1>5, <1>6, <1>7

\* The protocol of receipts, archives, workers and SDKs keeps the promise of ProjectHome:
\* one home at a time, and what was acknowledged moves with it.
THEOREM Implements == Spec => ImplementsHome
<1>1. Init => Home!Init
  BY DEF Init, Home!Init, home, kept
<1>2. IInv /\ [Next]_vars => [Home!Next]_<<home, kept, acked>>
  BY HomeStep
<1> QED
  BY <1>1, <1>2, Invariance, PTL DEF Spec, ImplementsHome, Home!Spec
=============================================================================
