------------------------- MODULE InstanceOperations -------------------------
(* Backups of the instance and verifications of uploaded archives: commands   *)
(* of the owner, one worker per server process under an advisory lock, leases *)
(* renewed by a heartbeat, artifacts in the backup directory, and the reset   *)
(* and restore of the instance beneath them.                                  *)
(*                                                                            *)
(* A claim's token is the attempt: it grows with each claim.  A backup writes *)
(* the file of its attempt; a verification reads the uploaded file, which is  *)
(* attempt 0 of the operation.  What is captured or verified is data: the     *)
(* capture ends with a whole file or an error.                                *)
EXTENDS Naturals, FiniteSets

CONSTANTS Op,             \* ids of operations, never used twice
          Worker,         \* server processes that share database and directory
          None, Gone,     \* no operation, nobody; an id whose row is gone
          MaxAttempts,    \* attempts that may publish (3)
          MaxGeneration   \* bound: resets and restores, plus one

VARIABLES op,        \* instance_operations
          file,      \* the backup directory: absent, partial or whole
          work,      \* tick of each process
          lock,      \* who holds WORK_LOCK
          identity   \* instance_settings: generation and operating mode

vars == <<op, file, work, lock, identity>>

Active == {"queued", "running"}
Ended  == {"ready", "failed", "cancelled", "unavailable"}
Exists(o) == op[o] \notin {None, Gone}

Init ==
  /\ op = [o \in Op |-> None]
  /\ file = [a \in Op \X (0..MaxAttempts) |-> "absent"]
  /\ work = [w \in Worker |-> None] /\ lock = None
  /\ identity = [generation |-> 1, mode |-> "normal"]

\* Mutant: two operations at a time.
Always == TRUE
Idle == \A o \in Op : Exists(o) => op[o].state \notin Active
New(kind) ==
  [kind |-> kind, state |-> "queued", attempt |-> 0, cancel |-> FALSE, live |-> FALSE,
   identity |-> identity, artifact |-> None]

-----------------------------------------------------------------------------
(* create.  A command id that is known returns its operation.                 *)
Create(o) ==
  /\ op[o] = None /\ identity.mode = "normal" /\ Idle
  /\ op' = [op EXCEPT ![o] = New("backup")]
  /\ UNCHANGED <<file, work, lock, identity>>

(* verify_upload: the archive is in place before the commit, and stays there  *)
(* when the commit is lost.                                                   *)
VerifyUpload(o, committed) ==
  /\ op[o] = None /\ identity.mode = "normal" /\ Idle
  /\ file' = [file EXCEPT ![<<o, 0>>] = "whole"]
  /\ op' = [op EXCEPT ![o] = IF committed THEN New("verify") ELSE Gone]
  /\ UNCHANGED <<work, lock, identity>>

(* cancel: at once while queued, a request while running.                     *)
Cancel(o) ==
  /\ Exists(o) /\ op[o].state \in Active /\ ~op[o].cancel
  /\ op' = [op EXCEPT ![o].cancel = TRUE,
                      ![o].state = IF @ = "queued" THEN "cancelled" ELSE @]
  /\ UNCHANGED <<file, work, lock, identity>>

-----------------------------------------------------------------------------
(* tick: the lock, then a queued operation or one whose lease has expired.    *)
Claimable(o) ==
  Exists(o) /\ (op[o].state = "queued" \/ (op[o].state = "running" /\ ~op[o].live))
Claim(w, o) ==
  /\ work[w] = None /\ lock = None /\ Claimable(o) /\ op[o].attempt <= MaxAttempts
  /\ lock' = w
  /\ op' = [op EXCEPT ![o].state = "running", ![o].live = TRUE, ![o].attempt = @ + 1]
  /\ work' = [work EXCEPT ![w] = [op |-> o, attempt |-> op[o].attempt + 1, kind |-> op[o].kind,
                                  step |-> "claimed", cancelled |-> FALSE]]
  /\ UNCHANGED <<file, identity>>
Goto(w, step) == work' = [work EXCEPT ![w].step = step]
At(w, step) == work[w] # None /\ work[w].step = step
\* Mutant: the row alone, whoever holds it.
AnyRow(w) == Exists(work[w].op)
Mine(w) ==
  /\ Exists(work[w].op) /\ op[work[w].op].state = "running"
  /\ op[work[w].op].attempt = work[w].attempt
Path(w) == IF work[w].kind = "verify" THEN <<work[w].op, 0>> ELSE <<work[w].op, work[w].attempt>>

(* Too many attempts, another instance, no key: ended before it starts.       *)
Spent(w) == work[w].attempt > MaxAttempts
Begin(w) ==
  /\ At(w, "claimed")
  /\ \/ /\ ~Spent(w) /\ Exists(work[w].op) /\ op[work[w].op].identity = identity
        /\ Goto(w, "capture")
        /\ file' = IF work[w].kind = "verify" THEN file ELSE [file EXCEPT ![Path(w)] = "partial"]
     \/ Goto(w, "failed") /\ UNCHANGED file
     \/ /\ ~Spent(w) /\ Exists(work[w].op) /\ op[work[w].op].identity # identity
        /\ Goto(w, "cancelled") /\ UNCHANGED file
  /\ UNCHANGED <<op, lock, identity>>

(* The heartbeat renews the lease of the row it still holds, also one that    *)
(* has expired; anything else it learns, or a query that fails, cancels.      *)
Heartbeat(w, answered) ==
  /\ At(w, "capture") /\ ~work[w].cancelled
  /\ LET renewed == answered /\ Mine(w) IN
       /\ op' = IF renewed THEN [op EXCEPT ![work[w].op].live = TRUE] ELSE op
       /\ work' = [work EXCEPT ![w].cancelled =
                     ~renewed \/ op[work[w].op].cancel \/ lock # w]
  /\ UNCHANGED <<file, lock, identity>>

(* capture_attempt: a whole file, or an error (cancellation included).        *)
CaptureEnds(w) ==
  /\ At(w, "capture")
  /\ \/ /\ file[Path(w)] # "absent" /\ Goto(w, "publish")
        /\ file' = [file EXCEPT ![Path(w)] = "whole"]
     \/ Goto(w, "remove") /\ UNCHANGED file
  /\ UNCHANGED <<op, lock, identity>>

(* The publication is one guarded update; without it the file goes.           *)
\* Mutant: a cancellation is not looked at again.
Uncancelled(w) == Mine(w) /\ op[work[w].op].identity = identity
Publishable(w) ==
  Mine(w) /\ ~op[work[w].op].cancel /\ op[work[w].op].identity = identity
    /\ identity.mode = "normal"
Leave(w) ==
  /\ work' = [work EXCEPT ![w] = None]
  /\ lock' = IF lock = w THEN None ELSE lock
Publish(w) ==
  /\ At(w, "publish")
  /\ IF Publishable(w)
     THEN /\ op' = [op EXCEPT ![work[w].op].state = "ready", ![work[w].op].live = FALSE,
                              ![work[w].op].artifact = Path(w)]
          /\ Leave(w)
     ELSE /\ work' = [work EXCEPT ![w].step = "remove", ![w].cancelled = TRUE]
          /\ UNCHANGED <<op, lock>>
  /\ UNCHANGED <<file, identity>>
Remove(w) ==
  /\ At(w, "remove")
  /\ file' = [file EXCEPT ![Path(w)] = "absent"]
  /\ Goto(w, IF work[w].cancelled THEN "cancelled" ELSE "failed")
  /\ UNCHANGED <<op, lock, identity>>

(* terminal: only for the row it still holds.                                 *)
Terminal(w) ==
  /\ At(w, "failed") \/ At(w, "cancelled")
  /\ op' = IF Mine(w) THEN [op EXCEPT ![work[w].op].state = work[w].step,
                                      ![work[w].op].live = FALSE]
           ELSE op
  /\ Leave(w)
  /\ UNCHANGED <<file, identity>>

(* The process ends, or tick returns an error: files stay as they are.        *)
Fail(w) == work[w] # None /\ Leave(w) /\ UNCHANGED <<op, file, identity>>
(* The connection that holds the advisory lock is lost.                       *)
LoseLock(w) == lock = w /\ lock' = None /\ UNCHANGED <<op, file, work, identity>>
LeaseExpires(o) ==
  /\ Exists(o) /\ op[o].state = "running" /\ op[o].live
  /\ op' = [op EXCEPT ![o].live = FALSE]
  /\ UNCHANGED <<file, work, lock, identity>>

-----------------------------------------------------------------------------
(* reset deletes the rows; a process whose instance lock was lost may still   *)
(* be at work.  restore closes the rows of the snapshot on a new instance;    *)
(* the servers are stopped, and workers paused until resume.                  *)
Reset ==
  /\ identity.generation < MaxGeneration /\ identity.mode = "normal" /\ Idle
  /\ identity' = [identity EXCEPT !.generation = @ + 1]
  /\ op' = [o \in Op |-> IF op[o] = None THEN None ELSE Gone]
  /\ UNCHANGED <<file, work, lock>>
Restore ==
  /\ identity.generation < MaxGeneration
  /\ identity' = [generation |-> identity.generation + 1, mode |-> "restore_validation"]
  /\ op' = [o \in Op |-> IF ~Exists(o) THEN op[o] ELSE
              [op[o] EXCEPT !.live = FALSE, !.artifact = None,
                 !.state = IF @ = "ready" THEN "unavailable" ELSE "cancelled"]]
  /\ file' = [a \in DOMAIN file |-> "absent"]
  /\ work' = [w \in Worker |-> None] /\ lock' = None
Resume ==
  /\ identity.mode = "restore_validation"
  /\ identity' = [identity EXCEPT !.mode = "normal"]
  /\ UNCHANGED <<op, file, work, lock>>

Next ==
  \/ \E o \in Op : Create(o) \/ Cancel(o) \/ LeaseExpires(o)
  \/ \E o \in Op, c \in BOOLEAN : VerifyUpload(o, c)
  \/ \E w \in Worker, o \in Op : Claim(w, o)
  \/ \E w \in Worker, a \in BOOLEAN : Heartbeat(w, a)
  \/ \E w \in Worker : \/ Begin(w) \/ CaptureEnds(w) \/ Publish(w) \/ Remove(w)
                       \/ Terminal(w) \/ Fail(w) \/ LoseLock(w)
  \/ Reset \/ Restore \/ Resume
Spec == Init /\ [][Next]_vars

-----------------------------------------------------------------------------
TypeOK ==
  /\ \A o \in Op : Exists(o) =>
       /\ op[o].state \in Active \cup Ended /\ op[o].attempt \in 0..(MaxAttempts + 1)
       /\ op[o].live => op[o].state = "running"
       /\ (op[o].artifact # None) = (op[o].state = "ready")
  /\ Cardinality({o \in Op : Exists(o) /\ op[o].state \in Active}) <= 1
  /\ lock \in Worker \cup {None}

(* No partial archive is offered for download (docs/self-hosting.md, Backups  *)
(* and recovery), and none that the owner cancelled or that another instance  *)
(* asked for: whatever workers of older attempts do to the directory.         *)
OfferedBackupIsWhole ==
  \A o \in Op : Exists(o) /\ op[o].state = "ready" =>
    /\ ~op[o].cancel
    /\ op[o].identity.generation = identity.generation
    /\ op[o].kind = "backup" => file[op[o].artifact] = "whole"

(* An operation that ended never changes again, other than by a restore.      *)
EndedStep ==
  \A o \in Op : Exists(o) /\ op[o].state \in Ended /\ identity' = identity
    => op'[o] = op[o]
EndedStaysEnded == [][EndedStep]_vars
=============================================================================
