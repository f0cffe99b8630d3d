--------------------------- MODULE TaskAutomation ---------------------------
(* One work item about one issue: commands of members who act on the version  *)
(* they read, signals of CI and deployment that arrive late and in any order, *)
(* and the ingestion of events, which may reopen the issue at any time.       *)
(* Every step is one transaction: commands and signals hold the project, then *)
(* the issue, then the task; ingestion holds the issue, then the task.        *)
(*                                                                            *)
(* Time is a count of instants.  Of two accepted signals that the code could  *)
(* tell apart only by their arrival, the earlier is never selected again: it  *)
(* is dropped, as are all when the barrier moves or the integration changes.  *)
(* A delivery id that is sent again changes nothing, and has no step.         *)
(* Versions of the task are not counted: a reader's view is current or not.   *)
EXTENDS Naturals, FiniteSets

CONSTANTS Commit,        \* commits that signals are about
          Kind,          \* kinds of signals that are sent
          User,          \* members of the project
          None,          \* no task, no command, no evidence
          MaxTime,       \* bound: instants
          MaxSignals,    \* bound: accepted signals that are told apart
          MaxVersion     \* bound: versions of the integration

VARIABLES task,      \* the row of tasks
          issue,     \* the row of issues
          signals,   \* accepted task_signal_deliveries that may still be selected
          config,    \* task_integrations: version and enabled
          clock,
          command    \* the last command of each member: the task as it was read,
                     \* the request, its receipt in task_commands, the answer

vars == <<task, issue, signals, config, clock, command>>

Stage == {"triage", "ready", "inProgress", "review", "verify", "done", "cancelled"}
Authority == {"work.started", "pr.opened", "pr.merged"}
Signal == [kind : Kind, commit : Commit, at : 1..MaxTime, ok : BOOLEAN]

Status(status, regressed) == [status |-> status, regressed |-> regressed]
Init ==
  /\ task = None /\ issue = Status("open", 0)
  /\ signals = {} /\ config = [version |-> 1, enabled |-> TRUE] /\ clock = 1
  /\ command = [u \in User |-> None]

-----------------------------------------------------------------------------
(* version+1: every command sent on an earlier reading is stale; what it asks *)
(* is not looked at any more.                                                 *)
Past(receipt, answer) == [current |-> FALSE, receipt |-> receipt, answer |-> answer]
Bumped ==
  [u \in User |-> IF command[u] = None THEN None ELSE Past(command[u].receipt, command[u].answer)]
Bump == command' = Bumped

(* regress: under the issue lock of the ingestion that reopened the issue.    *)
Regressed(at) ==
  [task EXCEPT !.stage = "inProgress", !.verified = FALSE, !.evidence = None, !.barrier = at]
RegressTask ==
  IF task = None \/ task.stage = "cancelled" THEN UNCHANGED <<task, signals, command>>
  ELSE task' = Regressed(clock) /\ signals' = {} /\ Bump

(* ingest: an event of a resolved issue, or a probe that guards it, is a      *)
(* regression when the releases or times say so.                              *)
Occurrence ==
  /\ issue.status = "resolved"
  /\ issue' = Status("open", clock)
  /\ RegressTask
  /\ UNCHANGED <<config, clock>>

(* resolve, ignore, reopen.                                                   *)
Resolve ==
  /\ issue' = Status("resolved", 0)
  /\ UNCHANGED <<task, signals, config, clock, command>>
SetStatus(to) ==
  /\ to \in {"ignored", "open"} /\ issue.status # to
  /\ issue' = [issue EXCEPT !.status = to]
  /\ UNCHANGED <<task, signals, config, clock, command>>

-----------------------------------------------------------------------------
(* command: Create, about the issue; one task for an issue.                   *)
Create ==
  /\ task = None
  /\ task' = [stage |-> "triage", verified |-> FALSE, barrier |-> clock, evidence |-> None]
  /\ UNCHANGED <<issue, signals, config, clock, command>>
allowed(from, to) ==
  to \in (CASE from = "triage"     -> {"ready", "cancelled"}
            [] from = "ready"      -> {"inProgress", "triage", "cancelled"}
            [] from = "inProgress" -> {"review", "ready", "cancelled"}
            [] from = "review"     -> {"verify", "inProgress", "cancelled"}
            [] from = "verify"     -> {"done", "inProgress", "cancelled"}
            [] from = "done"       -> {"inProgress"}
            [] from = "cancelled"  -> {"triage"})

(* A client reads the task and sends a transition, or an edit or comment      *)
(* ("touch"), with the version it read and a new command id.                  *)
Ask(u, to) ==
  /\ task # None
  /\ command' = [command EXCEPT ![u] =
       [stage |-> task.stage, verified |-> task.verified, to |-> to, current |-> TRUE,
        receipt |-> FALSE, answer |-> None]]
  /\ UNCHANGED <<task, issue, signals, config, clock>>

Moved(to) == [task EXCEPT !.stage = to, !.verified = FALSE, !.evidence = None, !.barrier = clock]
MoveIssue(to) ==
  issue' = CASE to = "done"       -> Status("resolved", 0)
             [] to = "inProgress" -> Status("open", 0)
             [] OTHER             -> issue
(* command: under the project lock; the receipt first, then the version.      *)
Receipt(u) == command[u].receipt
Accepted(u) ==
  command[u].current /\ (command[u].to = "touch" \/ allowed(task.stage, command[u].to))
Refuse(u, answered) ==
  /\ command' = IF answered THEN [command EXCEPT ![u] = Past(@.receipt, "refused")] ELSE command
  /\ UNCHANGED <<task, issue, signals>>
Apply(u, answered) ==
  /\ task' = IF command[u].to = "touch" THEN task ELSE Moved(command[u].to)
  /\ signals' = IF command[u].to = "touch" THEN signals ELSE {}
  /\ MoveIssue(command[u].to)
  /\ command' = [Bumped EXCEPT ![u] = Past(TRUE, IF answered THEN "ok" ELSE None)]
Command(u, answered) ==
  /\ command[u] # None /\ command[u].answer = None
  /\ IF Receipt(u)
     THEN /\ answered /\ command' = [command EXCEPT ![u] = Past(TRUE, "ok")]
          /\ UNCHANGED <<task, issue, signals>>
     ELSE IF Accepted(u) THEN Apply(u, answered) ELSE Refuse(u, answered)
  /\ UNCHANGED <<config, clock>>

-----------------------------------------------------------------------------
(* configure: a new version of the integration starts without evidence.       *)
Configure(enabled) ==
  /\ config.version < MaxVersion
  /\ config' = [version |-> config.version + 1, enabled |-> enabled]
  /\ signals' = {}
  /\ UNCHANGED <<task, issue, clock, command>>

Class(s) == IF s.kind \in Authority THEN <<"authority">> ELSE <<s.kind, s.commit>>
Superseded(o, s) == Class(o) = Class(s) /\ o.at = s.at
(* apply_evidence: the latest work or PR signal names the commit; of that     *)
(* commit the latest checks and deployment count; by the time they occurred.  *)
Latest(S) == IF S = {} THEN None ELSE CHOOSE s \in S : \A o \in S : o.at <= s.at
Of(S, kind, a) == Latest({s \in S : s.kind = kind /\ s.commit = a.commit})
(* Merged, both checks passed, deployed no earlier than the merge.            *)
\* Mutant: a deployment from before the merge counts.
AnyDeployment(a, checks, deployment) ==
  a.kind = "pr.merged" /\ checks # None /\ deployment # None /\ checks.ok
Verified(a, checks, deployment) ==
  /\ a.kind = "pr.merged" /\ checks # None /\ checks.ok
  /\ deployment # None /\ deployment.at >= a.at
NextStage(a, verified) ==
  IF verified THEN "done"
  ELSE [x \in Authority |-> CASE x = "pr.merged" -> "verify" [] x = "pr.opened" -> "review"
                              [] OTHER -> "inProgress"][a.kind]
ApplyEvidence(a, checks, deployment) ==
  LET verified == Verified(a, checks, deployment)
      stage == NextStage(a, verified)
      evidence == [version |-> config.version, authority |-> a, checks |-> checks,
                   deployment |-> deployment]
  IN IF evidence = task.evidence /\ stage = task.stage
     THEN UNCHANGED <<task, issue, command>>
     ELSE /\ task' = [task EXCEPT !.stage = stage, !.verified = verified, !.evidence = evidence]
          /\ issue' = IF verified THEN Status("resolved", 0)
                      ELSE IF task.stage = "done" /\ issue.status = "resolved"
                           THEN [issue EXCEPT !.status = "open"] ELSE issue
          /\ Bump

(* receive: what occurred by the barrier, or about a cancelled task, is kept  *)
(* as ignored and changes nothing.                                            *)
Ignored(s) == s.at <= task.barrier \/ task.stage = "cancelled"
Receive(s) ==
  /\ config.enabled /\ task # None /\ s.at <= clock
  /\ (s.kind # "ci.completed" => s.ok) /\ ~Ignored(s)
  /\ LET S == {o \in signals : ~Superseded(o, s)} \cup {s}
         a == Latest({o \in S : o.kind \in Authority})
     IN /\ Cardinality(S) <= MaxSignals /\ signals' = S
        /\ IF a = None THEN UNCHANGED <<task, issue, command>>
           ELSE ApplyEvidence(a, Of(S, "ci.completed", a), Of(S, "release.deployed", a))
  /\ UNCHANGED <<config, clock>>

Tick == clock < MaxTime /\ clock' = clock + 1
        /\ UNCHANGED <<task, issue, signals, config, command>>

Next ==
  \/ Occurrence \/ Resolve \/ Create \/ Tick
  \/ \E to \in {"ignored", "open"} : SetStatus(to)
  \/ \E u \in User, to \in Stage \cup {"touch"} : Ask(u, to)
  \/ \E u \in User, answered \in BOOLEAN : Command(u, answered)
  \/ \E enabled \in BOOLEAN : Configure(enabled)
  \/ \E s \in Signal : Receive(s)
Spec == Init /\ [][Next]_vars

-----------------------------------------------------------------------------
TypeOK ==
  /\ task # None => task.stage \in Stage /\ task.barrier \in 1..clock
  /\ issue.status \in {"open", "resolved", "ignored"}
  /\ signals \subseteq Signal /\ clock \in 1..MaxTime

(* A task is verified only by a merge, passed checks and a deployment of one  *)
(* commit (docs/self-hosting.md, Signed task automation), all since the last  *)
(* regression or manual move, none of them outdated by a later signal that is *)
(* already here: whatever order they arrived in.                              *)
VerifiedIsProved ==
  task # None /\ task.verified /\ task.evidence.version = config.version =>
      \E m \in signals, c \in signals, d \in signals :
        /\ m.kind = "pr.merged" /\ c.kind = "ci.completed" /\ c.ok /\ d.kind = "release.deployed"
        /\ c.commit = m.commit /\ d.commit = m.commit /\ d.at >= m.at
        /\ \A s \in signals : s.kind \in Authority => s.at <= m.at
        /\ \A s \in signals : s.kind = "ci.completed" /\ s.commit = c.commit => s.at <= c.at

(* An issue that regressed never has a task that is done: ingestion and the   *)
(* two ways to complete a task keep the two rows together.                    *)
RegressedIsNotDone == issue.regressed > 0 /\ task # None => task.stage # "done"

(* A command that may still be accepted was sent about the task as it is: no  *)
(* step of CI, of ingestion or of another member slips under the version.     *)
CurrentViewIsTrue ==
  \A u \in User : command[u] # None /\ command[u].current =>
    command[u].stage = task.stage /\ command[u].verified = task.verified

(* After a regression, only what happened since verifies the task again.      *)
SinceStep ==
  task # None /\ issue.regressed > 0 /\ task'.verified =>
    \A e \in {"authority", "checks", "deployment"} : task'.evidence[e].at > issue.regressed
VerifiedSinceRegression == [][SinceStep]_vars

(* A member who is told that the command was refused has changed nothing,     *)
(* also when the first answer was lost and the command sent again.            *)
RefusedChangesNothing ==
  \A u \in User : command[u] # None /\ command[u].answer = "refused" => ~command[u].receipt

=============================================================================
