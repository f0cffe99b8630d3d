-------------------------- MODULE ProjectTransfer --------------------------
(***************************************************************************)
(* Moving a project from one server to another: the receipts of both sides *)
(* and their owners' commands (server/src/handlers/project_transfers.rs,   *)
(* transfer_upload.rs), the leased jobs that export and import archives    *)
(* (project_transfers.rs, snapshot/src/capture.rs and project_import.rs),  *)
(* and the telemetry that keeps arriving at the old server                 *)
(* (transfer_tail.rs, handlers/transfer_tail.rs).                          *)
(*                                                                         *)
(* The projects of a transfer are fenced, copied and activated together,   *)
(* so one project stands for them.  Every transfer maps it to a project of *)
(* its own on the target.                                                  *)
(*                                                                         *)
(* A command carries the version its sender saw and is refused on another, *)
(* and a repeated one is answered from its receipt: both leave the state   *)
(* alone.  So a command is an action that finds its version current;       *)
(* Configure alone asks the target for a proof between its two looks, and  *)
(* a change of the version takes that proof back.  A heartbeat that comes  *)
(* in time keeps a lease, one that comes late changes nothing another      *)
(* worker saw: only the end of a lease is an action.  Restoring either     *)
(* server from a backup, and retention on the target, are not modelled.    *)
(***************************************************************************)
EXTENDS Integers, FiniteSets

CONSTANTS
    Event, Transfer,
    Worker, Host,  \* Host[w] is the server of the process w: "source" or "target"
    MaxAttempts,   \* 3 in the code
    MaxJobs,       \* bound: jobs of a transfer on one side
    NoTransfer, NoEvent, NoArchive

Side == {"source", "target"}

ASSUME TransferAssumption ==
    /\ MaxAttempts \in Nat \ {0} /\ MaxJobs \in Nat
    /\ Host \in [Worker -> Side]
    /\ NoTransfer \notin Transfer \cup {"source"} /\ "source" \notin Transfer
    /\ NoEvent \notin Event

VARIABLES
    \* The project on the source, and its copies on the target
    fence,           \* projects.migration_fence
    rows,            \* its events
    staged,          \* [Transfer -> "absent" | "fenced" | "open"]
    copy,            \* [Transfer -> SUBSET Event]
    \* Columns of project_transfers, for each side and transfer
    state, latest,
    observed,        \* target: observed_events
    \* project_transfer_jobs: the last job of each side and transfer
    job,
    archives,        \* archives that can be downloaded
    \* project_transfer_routes: enabled and not expired
    route,
    \* Processes
    pc, work, snap,  \* a worker's place, the attempt in its hands, its archive
    proof,           \* answers of the target that a Configure request holds
    \* The SDKs of the old installations
    sdk, acked,
    live             \* history: the events that the target was sent after activation

projectVars == <<fence, rows, staged, copy>>
receiptVars == <<state, latest, observed>>
jobVars == <<job, archives>>
workerVars == <<pc, work, snap>>
tailVars == <<route, proof>>
sdkVars == <<sdk, acked, live>>
vars == <<projectVars, receiptVars, jobVars, workerVars, tailVars, sdkVars>>

NoJob == [num |-> 0, state |-> "none", phase |-> "copy", attempt |-> 0, live |-> FALSE,
          cancel |-> FALSE, archive |-> NoArchive]
NoWork == [t |-> NoTransfer, num |-> 0, attempt |-> 0, phase |-> "copy", archive |-> NoArchive]

Init ==
    /\ fence = NoTransfer /\ rows = {}
    /\ staged = [t \in Transfer |-> "absent"] /\ copy = [t \in Transfer |-> {}]
    /\ state = [s \in Side |-> [t \in Transfer |-> "absent"]]
    /\ latest = [s \in Side |-> [t \in Transfer |-> NoArchive]]
    /\ observed = [t \in Transfer |-> NoEvent]
    /\ job = [s \in Side |-> [t \in Transfer |-> NoJob]] /\ archives = {}
    /\ route = [t \in Transfer |-> FALSE] /\ proof = [t \in Transfer |-> NoArchive]
    /\ pc = [w \in Worker |-> "idle"] /\ work = [w \in Worker |-> NoWork]
    /\ snap = [w \in Worker |-> NoArchive]
    /\ sdk = [e \in Event |-> "new"] /\ acked = {} /\ live = [t \in Transfer |-> {}]

-----------------------------------------------------------------------------
(* Plausible bugs: definitions of the next sections with a mistake, and    *)
(* the property that notices.                                              *)

FinalIsSealed(w) ==      \* Published, an import is taken for an export: TypeOK
    IF work[w].phase = "final" THEN "sealed" ELSE "copied"
AnyPhase(t, archive, phase) ==  \* Fits, a copy passes for the final one: NeverTwoWriters
    archive.t = t
NoSecondLook(e) ==       \* Answerable, without the fence: AckedReachesHome
    sdk[e] = "handled"
UnguardedWrite == TRUE   \* Writable, no trigger: FinalArchiveIsFinal
Repeated(t, e) ==        \* Evidence, a duplicate counts: CutoverEvidenceIsLive
    state["target"][t] \in {"active", "observing"} /\ observed[t] = NoEvent
AnyAttempt(w) ==         \* Mine, by the job alone: EndedJobStaysEnded
    job[Host[w]][work[w].t].num = work[w].num
AcceptsStaged(t) ==      \* Accepts, before activation: ImplementsHome
    staged[t] # "absent"
AlwaysAdmitted(w, t) ==  \* Admitted, attempts are not counted: EveryTransferJobEnds
    TRUE

-----------------------------------------------------------------------------
(* The owners' commands.  Each is one transaction, which holds the         *)
(* instance's row and the transfer's.                                      *)

Busy(s, t) == job[s][t].state \in {"queued", "running"}

\* The receipt's new state and version: a proof asked for before is stale.
Advance(s, t, next) ==
    /\ state' = [state EXCEPT ![s][t] = next]
    /\ proof' = [proof EXCEPT ![t] = IF s = "source" THEN NoArchive ELSE @]

\* A source may not offer projects that are fenced or part of another live transfer.
Create(s, t) ==
    /\ state[s][t] = "absent"
    /\ s = "source" => /\ fence = NoTransfer
                       /\ \A u \in Transfer : state[s][u] \in {"absent", "cancelled"}
    /\ Advance(s, t, "copying")
    /\ UNCHANGED <<projectVars, latest, observed, jobVars, workerVars, route, sdkVars>>

\* A job is queued; an import comes with its archive.
Queue(s, t, phase, archive) ==
    /\ job[s][t].num < MaxJobs
    /\ job' = [job EXCEPT ![s][t] =
          [NoJob EXCEPT !.num = job[s][t].num + 1, !.state = "queued",
                        !.phase = phase, !.archive = archive]]
    /\ Advance(s, t, state[s][t])
    /\ UNCHANGED <<projectVars, latest, observed, archives, workerVars, route, sdkVars>>

Export(t, phase) ==
    /\ ~Busy("source", t)
    /\ state["source"][t] \in IF phase = "final" THEN {"sealed"} ELSE {"copying", "copied"}
    /\ Queue("source", t, phase, NoArchive)

\* The owner of the target uploads any archive that was downloaded, as either phase.
Upload(t, phase, archive) ==
    /\ ~Busy("target", t) /\ archive \in archives
    /\ state["target"][t] \in IF phase = "final" THEN {"copied"} ELSE {"copying", "copied"}
    /\ Queue("target", t, phase, archive)

Seal(t) ==
    /\ ~Busy("source", t) /\ state["source"][t] = "copied"
    /\ fence = NoTransfer /\ fence' = t
    /\ Advance("source", t, "sealed")
    /\ UNCHANGED <<rows, staged, copy, latest, observed, jobVars, workerVars, route, sdkVars>>

Activate(t) ==
    /\ ~Busy("target", t) /\ state["target"][t] = "ready"
    /\ staged[t] = "fenced" /\ staged' = [staged EXCEPT ![t] = "open"]
    /\ Advance("target", t, "active")
    /\ UNCHANGED <<fence, rows, copy, latest, observed, jobVars, workerVars, route, sdkVars>>

\* The evidence is the event that the target noted when it arrived.
Verify(t) ==
    /\ ~Busy("target", t) /\ state["target"][t] \in {"active", "observing"}
    /\ observed[t] \in copy[t]
    /\ Advance("target", t, "observing")
    /\ UNCHANGED <<projectVars, latest, observed, jobVars, workerVars, route, sdkVars>>

Complete(t) ==
    /\ ~Busy("target", t) /\ state["target"][t] = "observing"
    /\ Advance("target", t, "completed")
    /\ UNCHANGED <<projectVars, latest, observed, jobVars, workerVars, route, sdkVars>>

Cancel(s, t) ==
    /\ ~Busy(s, t) /\ state[s][t] \in {"copying", "copied"}
    /\ IF s = "target" /\ staged[t] = "fenced"
       THEN staged' = [staged EXCEPT ![t] = "absent"] /\ copy' = [copy EXCEPT ![t] = {}]
       ELSE UNCHANGED <<staged, copy>>
    /\ Advance(s, t, "cancelled")
    /\ UNCHANGED <<fence, rows, latest, observed, jobVars, workerVars, route, sdkVars>>

CancelJob(s, t) ==
    /\ Busy(s, t) /\ ~job[s][t].cancel
    /\ job' = [job EXCEPT ![s][t] =
          [@ EXCEPT !.cancel = TRUE,
                    !.state = IF job[s][t].state = "queued" THEN "cancelled" ELSE "running"]]
    /\ UNCHANGED <<projectVars, receiptVars, archives, workerVars, tailVars, sdkVars>>

-----------------------------------------------------------------------------
(* The worker.  tick works under an advisory lock on a connection of its   *)
(* own, and goes on for a while when it loses that connection: so the lock *)
(* is no guard here, and two processes may work at the same time.          *)

Done(w) ==
    /\ pc' = [pc EXCEPT ![w] = "idle"]
    /\ work' = [work EXCEPT ![w] = NoWork] /\ snap' = [snap EXCEPT ![w] = NoArchive]

\* attempt > 3 closes the job with retry_exhausted instead of running it.  (Bound: the
\* worker that exhausts a job closes it; further claims would only raise the count.)
Admitted(w, t) == job[Host[w]][t].attempt < MaxAttempts

Claim(w, t) ==
    LET s == Host[w]  j == job[s][t] IN
    /\ pc[w] = "idle"
    /\ j.state = "queued" \/ (j.state = "running" /\ ~j.live /\ j.attempt <= MaxAttempts)
    /\ job' = [job EXCEPT ![s][t] =
          [j EXCEPT !.state = "running", !.live = TRUE, !.attempt = j.attempt + 1]]
    /\ pc' = [pc EXCEPT ![w] = IF Admitted(w, t) THEN "claimed" ELSE "exhausted"]
    /\ work' = [work EXCEPT ![w] = [t |-> t, num |-> j.num, attempt |-> j.attempt + 1,
                                    phase |-> j.phase, archive |-> j.archive]]
    /\ UNCHANGED <<projectVars, receiptVars, archives, snap, tailVars, sdkVars>>

\* id=$1 AND lease_owner=$2 AND state='running'
Mine(w) ==
    LET j == job[Host[w]][work[w].t] IN
    j.num = work[w].num /\ j.attempt = work[w].attempt /\ j.state = "running"

\* validate_transfer, inside the repeatable-read snapshot of the capture.
Exportable(t, phase) ==
    IF phase = "final" THEN state["source"][t] = "sealed" /\ fence = t
    ELSE state["source"][t] \in {"copying", "copied"} /\ fence = NoTransfer

Capture(w) ==
    /\ pc[w] = "claimed" /\ Host[w] = "source" /\ Exportable(work[w].t, work[w].phase)
    /\ snap' = [snap EXCEPT ![w] =
          [t |-> work[w].t, num |-> work[w].num, attempt |-> work[w].attempt,
           phase |-> work[w].phase, rows |-> rows]]
    /\ pc' = [pc EXCEPT ![w] = "captured"]
    /\ UNCHANGED <<projectVars, receiptVars, jobVars, work, tailVars, sdkVars>>

\* The receipt's state after a job of this phase.
Published(w) ==
    IF work[w].phase = "copy" THEN "copied"
    ELSE IF Host[w] = "target" THEN "ready" ELSE "sealed"

\* Rows, job and receipt commit together, under a lease that still runs.
Publish(w, archive) ==
    LET t == work[w].t  s == Host[w] IN
    /\ Mine(w) /\ job[s][t].live /\ ~job[s][t].cancel
    /\ job' = [job EXCEPT ![s][t] = [@ EXCEPT !.state = "ready"]]
    /\ Advance(s, t, Published(w))
    /\ latest' = [latest EXCEPT ![s][t] = archive]
    /\ Done(w)
    /\ UNCHANGED <<fence, rows, observed, route, sdkVars>>

PublishExport(w) ==
    /\ pc[w] = "captured"
    /\ state["source"][work[w].t] \in IF work[w].phase = "final" THEN {"sealed"}
                                      ELSE {"copying", "copied"}
    /\ archives' = archives \cup {snap[w]}
    /\ Publish(w, snap[w])
    /\ UNCHANGED <<staged, copy>>

\* The archive names the transfer and the phase it was made for.
Fits(t, archive, phase) == archive.t = t /\ archive.phase = phase

\* What an earlier archive staged is deleted first; an open project is in the way.
PublishImport(w) ==
    LET t == work[w].t IN
    /\ pc[w] = "claimed" /\ Host[w] = "target"
    /\ Fits(t, work[w].archive, work[w].phase)
    /\ state["target"][t] \in {"copying", "copied"} /\ staged[t] # "open"
    /\ staged' = [staged EXCEPT ![t] = "fenced"]
    /\ copy' = [copy EXCEPT ![t] = work[w].archive.rows]
    /\ Publish(w, work[w].archive)
    /\ UNCHANGED archives

\* An error anywhere, a check that fails, a cancellation that a heartbeat saw, six hours:
\* terminal closes the job if it is still this worker's.
Fail(w) ==
    LET t == work[w].t  s == Host[w] IN
    /\ pc[w] # "idle"
    /\ job' = IF Mine(w)
              THEN [job EXCEPT ![s][t] =
                       [@ EXCEPT !.state = IF job[s][t].cancel THEN "cancelled" ELSE "failed"]]
              ELSE job
    /\ Done(w)
    /\ UNCHANGED <<projectVars, receiptVars, archives, tailVars, sdkVars>>

\* The process dies, or tick returns an error before it could close the job.
Crash(w) ==
    /\ pc[w] \in {"claimed", "captured"} /\ Done(w)
    /\ UNCHANGED <<projectVars, receiptVars, jobVars, tailVars, sdkVars>>

\* 45 seconds without a heartbeat.
Expire(s, t) ==
    /\ job[s][t].state = "running" /\ job[s][t].live
    /\ job' = [job EXCEPT ![s][t] = [@ EXCEPT !.live = FALSE]]
    /\ UNCHANGED <<projectVars, receiptVars, archives, workerVars, tailVars, sdkVars>>

-----------------------------------------------------------------------------
(* The tail: the route to the target, and telemetry.                       *)

\* configure asks the target before its transaction; proof answers.
AskProof(t) ==
    /\ state["target"][t] \in {"active", "observing", "completed"}
    /\ state["source"][t] # "absent"
    /\ proof' = [proof EXCEPT ![t] = latest["target"][t]]
    /\ UNCHANGED <<projectVars, receiptVars, jobVars, workerVars, route, sdkVars>>

Configure(t) ==
    /\ state["source"][t] \in {"sealed", "observing"}
    /\ latest["source"][t] # NoArchive /\ proof[t] = latest["source"][t]
    /\ route' = [route EXCEPT ![t] = TRUE]
    /\ Advance("source", t, "observing")
    /\ UNCHANGED <<projectVars, latest, observed, jobVars, workerVars, sdkVars>>

RouteExpires(t) ==
    /\ route[t] /\ route' = [route EXCEPT ![t] = FALSE]
    /\ UNCHANGED <<projectVars, receiptVars, jobVars, workerVars, proof, sdkVars>>

\* admission: an event that finds the project open is handled here, one that finds
\* it fenced is forwarded when its transfer has a route, or refused with 503.
Admit(e) ==
    /\ sdk[e] = "new"
    /\ IF fence = NoTransfer THEN sdk' = [sdk EXCEPT ![e] = "inside"]
       ELSE /\ state["source"][fence] = "observing" /\ route[fence]
            /\ sdk' = [sdk EXCEPT ![e] = "forwarded"]
    /\ UNCHANGED <<projectVars, receiptVars, jobVars, workerVars, tailVars, acked, live>>

\* sentori_transfer_write_guard: a write locks the project's row and fails if it is fenced.
Writable == fence = NoTransfer

\* A batch goes on after a row that failed, and is answered with 200.
Write(e) ==
    /\ sdk[e] = "inside"
    /\ rows' = IF Writable THEN rows \cup {e} ELSE rows
    /\ sdk' = [sdk EXCEPT ![e] = "handled"]
    /\ UNCHANGED <<fence, staged, copy, receiptVars, jobVars, workerVars, tailVars, acked, live>>

\* The answer waits for a second look at the fence.
Answerable(e) == sdk[e] = "handled" /\ fence = NoTransfer

Acknowledge(e) ==
    /\ Answerable(e)
    /\ sdk' = [sdk EXCEPT ![e] = "acked"] /\ acked' = acked \cup {e}
    /\ UNCHANGED <<projectVars, receiptVars, jobVars, workerVars, tailVars, live>>

\* An error, a 503 or a lost answer: the SDK sends the event again.
Resend(e) ==
    /\ sdk[e] \in {"inside", "handled", "forwarded"}
    /\ sdk' = [sdk EXCEPT ![e] = "new"]
    /\ UNCHANGED <<projectVars, receiptVars, jobVars, workerVars, tailVars, acked, live>>

\* ingest on the target notes a new live event as evidence of the cutover.
Evidence(t, e) ==
    /\ state["target"][t] \in {"active", "observing"} /\ e \notin copy[t]
    /\ observed[t] = NoEvent

\* The target's own admission and trigger.
Accepts(t) == staged[t] = "open"

\* The target stores the event by its id and answers; the answer may be lost, here or
\* on the way back through the source.  An updated SDK sends to the target itself.
Receive(t, e) ==
    /\ (sdk[e] = "forwarded" /\ fence = t) \/ sdk[e] = "new"
    /\ Accepts(t)
    /\ copy' = [copy EXCEPT ![t] = @ \cup {e}]
    /\ observed' = [observed EXCEPT ![t] = IF Evidence(t, e) THEN e ELSE @]
    /\ live' = [live EXCEPT ![t] = IF e \in copy[t] THEN @ ELSE @ \cup {e}]
    /\ \/ sdk' = [sdk EXCEPT ![e] = "acked"] /\ acked' = acked \cup {e}
       \/ sdk' = [sdk EXCEPT ![e] = "new"] /\ UNCHANGED acked
    /\ UNCHANGED <<fence, rows, staged, state, latest, jobVars, workerVars, tailVars>>

-----------------------------------------------------------------------------
OwnerStep ==
    \/ \E s \in Side, t \in Transfer : Create(s, t) \/ Cancel(s, t) \/ CancelJob(s, t)
    \/ \E t \in Transfer, phase \in {"copy", "final"} :
          Export(t, phase) \/ \E a \in archives : Upload(t, phase, a)
    \/ \E t \in Transfer : \/ Seal(t) \/ Activate(t) \/ Verify(t) \/ Complete(t)
                           \/ AskProof(t) \/ Configure(t)

Step(w) == \/ \E t \in Transfer : Claim(w, t)
           \/ Capture(w) \/ PublishExport(w) \/ PublishImport(w) \/ Fail(w)

Trouble ==
    \/ \E w \in Worker : Crash(w)
    \/ \E t \in Transfer : RouteExpires(t)

SDKStep == \E e \in Event : \/ Admit(e) \/ Write(e) \/ Acknowledge(e) \/ Resend(e)
                            \/ \E t \in Transfer : Receive(t, e)

Next ==
    \/ OwnerStep \/ SDKStep \/ Trouble
    \/ \E w \in Worker : Step(w)
    \/ \E s \in Side, t \in Transfer : Expire(s, t)

Spec == Init /\ [][Next]_vars

\* Every process polls its queue and takes its next step unless it dies, and a lease that
\* nobody renews runs out.
Fairness ==
    /\ \A w \in Worker : WF_vars(Step(w))
    /\ \A s \in Side, t \in Transfer : WF_vars(Expire(s, t))

FairSpec == Spec /\ Fairness

-----------------------------------------------------------------------------
(* Properties.                                                             *)

Archive == [t : Transfer, num : Nat, attempt : Nat, phase : {"copy", "final"},
            rows : SUBSET Event]
JobRow == [num : Nat, state : {"none", "queued", "running", "ready", "failed", "cancelled"},
           phase : {"copy", "final"}, attempt : Nat, live : BOOLEAN, cancel : BOOLEAN,
           archive : Archive \cup {NoArchive}]
Work == [t : Transfer \cup {NoTransfer}, num : Nat, attempt : Nat,
         phase : {"copy", "final"}, archive : Archive \cup {NoArchive}]
SourceState == {"absent", "copying", "copied", "sealed", "observing", "cancelled"}
TargetState == {"absent", "copying", "copied", "ready", "active", "observing", "completed",
                "cancelled"}

ProjectsOK ==
    /\ fence \in Transfer \cup {NoTransfer} /\ rows \in SUBSET Event
    /\ staged \in [Transfer -> {"absent", "fenced", "open"}]
    /\ copy \in [Transfer -> SUBSET Event]
ReceiptsOK ==
    /\ state \in [Side -> [Transfer -> SourceState \cup TargetState]]
    /\ \A t \in Transfer : state["source"][t] \in SourceState /\ state["target"][t] \in TargetState
    /\ latest \in [Side -> [Transfer -> Archive \cup {NoArchive}]]
    /\ observed \in [Transfer -> Event \cup {NoEvent}]
JobsOK == job \in [Side -> [Transfer -> JobRow]] /\ archives \in SUBSET Archive
WorkersOK ==
    /\ pc \in [Worker -> {"idle", "claimed", "captured", "exhausted"}]
    /\ work \in [Worker -> Work] /\ snap \in [Worker -> Archive \cup {NoArchive}]
TailOK == route \in [Transfer -> BOOLEAN] /\ proof \in [Transfer -> Archive \cup {NoArchive}]
SDKsOK ==
    /\ sdk \in [Event -> {"new", "inside", "handled", "forwarded", "acked"}]
    /\ acked \in SUBSET Event /\ live \in [Transfer -> SUBSET Event]
TypeOK == ProjectsOK /\ ReceiptsOK /\ JobsOK /\ WorkersOK /\ TailOK /\ SDKsOK

\* At most one server accepts the project's events: never the source and a target, never
\* the targets of two transfers (fences of seal, import and activate).
NeverTwoWriters ==
    /\ \A t \in Transfer : staged[t] = "open" => fence = t
    /\ \A t, u \in Transfer : staged[t] = "open" /\ staged[u] = "open" => t = u

\* Where the project lives, and the events that are stored there.
home == IF \E t \in Transfer : staged[t] = "open"
        THEN CHOOSE t \in Transfer : staged[t] = "open"
        ELSE IF fence = NoTransfer THEN "source" ELSE NoTransfer
kept == IF home \in Transfer THEN copy[home] ELSE rows

\* An event that was acknowledged by anyone, at any time, is stored at the project's home:
\* sealing in the middle of a request and activating an archive lose none.
AckedReachesHome == acked \subseteq kept

\* A final archive holds everything the source ever stores: nothing is written after its
\* snapshot, however long a request or an export was on its way.
FinalArchiveIsFinal == \A a \in archives : a.phase = "final" => a.rows = rows

\* The cutover is verified by an event that the target was sent after its activation, never
\* by an imported one or by an SDK that repeats one.
CutoverEvidenceIsLive ==
    \A t \in Transfer : state["target"][t] \in {"observing", "completed"} =>
        observed[t] \in live[t]

\* A job that has ended is not reopened by a worker that was given up: what the owner was
\* told (ready, failed, cancelled) stays so.
Ended == {"ready", "failed", "cancelled"}
EndedJobStaysEnded ==
    [][\A s \in Side, t \in Transfer :
          job[s][t].state \in Ended /\ job'[s][t].num = job[s][t].num => job'[s][t] = job[s][t]]_vars

\* Every job comes to an end, though processes die and lose their locks, because an attempt
\* is counted before it runs.
EveryTransferJobEnds ==
    \A s \in Side, t \in Transfer : Busy(s, t) ~> ~Busy(s, t)

\* The transfer implements the promise of ProjectHome.
Home == INSTANCE ProjectHome WITH Source <- "source", Nobody <- NoTransfer
ImplementsHome == Home!Spec
=============================================================================
