---------------------------- MODULE LateArtifact ----------------------------
(***************************************************************************)
(* An artifact that arrives after the crashes it explains.  Ingest reads   *)
(* the artifacts of a release first and stores the event later, in a       *)
(* transaction of its own; the upload's transaction stamps the job's       *)
(* created_at when it begins and makes artifact and job visible when it    *)
(* commits, a blob write later; the job reads what is stored with          *)
(* received_at <= created_at, a page at a time.  How a job survives        *)
(* crashes and lost leases is the subject of JobQueue: here its committed  *)
(* batches are enough.                                                     *)
(***************************************************************************)
EXTENDS Integers, FiniteSets

CONSTANTS NumEvents,  \* crashes of the release, numbered in scan order
          PageSize    \* 25 in the code
Event == 1..NumEvents

ASSUME LateAssumption == NumEvents \in Nat /\ PageSize \in Nat \ {0}

VARIABLES
    arrival,  \* how far each event came: on its way, resolved, in its transaction, stored
    mapped,   \* events whose payload is resolved with the artifact
    missed,   \* history: events that looked for the artifact before it was there
    upload,   \* the upload: none, in its transaction, committed
    cut,      \* events with received_at <= the job's created_at
    early,    \* history: events stored when the upload began
    job,      \* none, active, succeeded
    cursor, page

vars == <<arrival, mapped, missed, upload, cut, early, job, cursor, page>>
ingestVars == <<arrival, mapped, missed>>
uploadVars == <<upload, cut, early>>
jobVars == <<job, cursor, page>>

NoPage == {0}

Init ==
    /\ arrival = [e \in Event |-> "pending"]
    /\ mapped = {} /\ missed = {}
    /\ upload = "none" /\ cut = {} /\ early = {}
    /\ job = "none" /\ cursor = 0 /\ page = NoPage

At(places) == {e \in Event : arrival[e] \in places}

\* JobQueue's scan bound, with a bug: the page starts one event late.
BeyondSkippingOne == {e \in cut : arrival[e] = "stored" /\ e > cursor + 1}

-----------------------------------------------------------------------------
\* prepare: best effort, a failed read counts as no artifact.
IngestResolve(e) ==
    /\ arrival[e] = "pending"
    /\ arrival' = [arrival EXCEPT ![e] = "resolved"]
    /\ \/ upload = "committed" /\ mapped' = mapped \cup {e}
       \/ mapped' = mapped \ {e}
    /\ missed' = IF upload = "committed" THEN missed \ {e} ELSE missed \cup {e}
    /\ UNCHANGED <<uploadVars, jobVars>>

\* received_at is now(), the start of this transaction.
IngestBegin(e) ==
    /\ arrival[e] = "resolved"
    /\ arrival' = [arrival EXCEPT ![e] = "inserting"]
    /\ UNCHANGED <<mapped, missed, uploadVars, jobVars>>

IngestCommit(e) ==
    /\ arrival[e] = "inserting"
    /\ arrival' = [arrival EXCEPT ![e] = "stored"]
    /\ UNCHANGED <<mapped, missed, uploadVars, jobVars>>

\* The transaction fails; the SDK sends the event again.
IngestAbort(e) ==
    /\ arrival[e] = "inserting"
    /\ arrival' = [arrival EXCEPT ![e] = "pending"]
    /\ UNCHANGED <<mapped, missed, uploadVars, jobVars>>

-----------------------------------------------------------------------------
UploadBegin ==
    /\ upload = "none"
    /\ upload' = "tx"
    /\ cut' = At({"inserting", "stored"})
    /\ early' = At({"stored"})
    /\ UNCHANGED <<ingestVars, jobVars>>

\* The blob is on disk; row, job and idempotency record commit together.
UploadCommit ==
    /\ upload = "tx"
    /\ upload' = "committed"
    /\ job' = "active"
    /\ UNCHANGED <<ingestVars, cut, early, cursor, page>>

UploadAbort ==
    /\ upload = "tx"
    /\ upload' = "none" /\ cut' = {} /\ early' = {}
    /\ UNCHANGED <<ingestVars, jobVars>>

-----------------------------------------------------------------------------
Beyond == {e \in cut : arrival[e] = "stored" /\ e > cursor}

ReadPage ==
    /\ job = "active" /\ page = NoPage
    /\ page' = {e \in Beyond : Cardinality({f \in Beyond : f < e}) < PageSize}
    /\ UNCHANGED <<ingestVars, uploadVars, job, cursor>>

CommitPage ==
    /\ page # NoPage
    /\ mapped' = mapped \cup page
    /\ \E last \in IF page = {} THEN {cursor} ELSE {e \in page : \A f \in page : f <= e} :
         cursor' = last
    /\ job' = IF Cardinality(page) < PageSize THEN "succeeded" ELSE "active"
    /\ page' = NoPage
    /\ UNCHANGED <<arrival, missed, uploadVars>>

\* The worker dies or its batch fails; another one starts from the checkpoint.
LosePage ==
    /\ page # NoPage
    /\ page' = NoPage
    /\ UNCHANGED <<ingestVars, uploadVars, job, cursor>>

Next ==
    \/ \E e \in Event : IngestResolve(e) \/ IngestBegin(e) \/ IngestCommit(e) \/ IngestAbort(e)
    \/ UploadBegin \/ UploadCommit \/ UploadAbort
    \/ ReadPage \/ CommitPage \/ LosePage

Spec == Init /\ [][Next]_vars

-----------------------------------------------------------------------------
\* The crashes already stored when an upload begins are readable once its job has
\* succeeded, whatever arrives and commits while the job scans.
StoredCrashesRecovered == job = "succeeded" => early \subseteq mapped

=============================================================================
