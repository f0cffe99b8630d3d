------------------------------ MODULE WebChecks ------------------------------
(* Laboratory checks of web applications: versioned configurations, runs that *)
(* a schedule or a command queues, external runners that claim a run under a  *)
(* lease and complete it in any order, the maintenance pass, and the health   *)
(* and incident that each completion derives from the runs.                   *)
(*                                                                            *)
(* Runs are in the order of their creation.  A run is claimed once, so its    *)
(* lease is the run itself.  "late" says that a lease has expired, or that a  *)
(* queued run is ten minutes old.  A command id that is sent again answers    *)
(* its receipt and changes nothing: it has no step.  The steps of a browser,  *)
(* the budgets and the findings are data; a run passes, fails or errs.        *)
EXTENDS Naturals, Sequences, FiniteSets, SequencesExt

CONSTANTS Check,         \* ids of checks, never used twice
          Project,
          Home,          \* the project of each check
          Threshold,     \* failure_threshold
          None, Gone,    \* a check that is not there yet, or no longer
          MaxPending,    \* runs queued or running in a project (2)
          MaxLive,       \* live leases of the instance (2)
          MaxRuns,       \* bound: runs
          MaxVersion,    \* bound: versions of a check
          MaxGeneration  \* bound: restores, plus one

VARIABLES check,     \* web_checks
          runs,      \* web_check_runs
          told,      \* notifications about a check since it was last updated
          fence,     \* projects with a migration fence
          paused,    \* restore validation, or an inactive entitlement
          generation

vars == <<check, runs, told, fence, paused, generation>>

Active   == {"queued", "running"}
Finished == {"passed", "failed", "error"}
Exists(c) == check[c] \notin {None, Gone}

Init ==
  /\ check = [c \in Check |-> None] /\ runs = <<>> /\ told = [c \in Check |-> <<>>]
  /\ fence = {} /\ paused = FALSE /\ generation = 1

Of(c) == {r \in DOMAIN runs : runs[r].check = c}
Current(c) == {r \in Of(c) : Exists(c) /\ runs[r].version = check[c].version}
Pending(rs, p) == {r \in DOMAIN rs : Home[rs[r].check] = p /\ rs[r].status \in Active}
Row(version, enabled, alerts) ==
  [version |-> version, enabled |-> enabled, alerts |-> alerts, health |-> "unknown",
   incident |-> FALSE, due |-> TRUE]
Queued(c) ==
  [check |-> c, version |-> check[c].version, generation |-> generation, status |-> "queued",
   late |-> FALSE, kept |-> TRUE]
Cancelled(which) ==
  [r \in DOMAIN runs |-> IF r \in which /\ runs[r].status \in Active
                         THEN [runs[r] EXCEPT !.status = "cancelled"] ELSE runs[r]]

-----------------------------------------------------------------------------
(* command: under the project lock, refused while the project is fenced.      *)
Create(c) ==
  /\ check[c] = None /\ Home[c] \notin fence
  /\ \E enabled, alerts \in BOOLEAN : check' = [check EXCEPT ![c] = Row(1, enabled, alerts)]
  /\ UNCHANGED <<runs, told, fence, paused, generation>>
Update(c) ==
  /\ Exists(c) /\ Home[c] \notin fence /\ check[c].version < MaxVersion
  /\ \E enabled, alerts \in BOOLEAN :
       check' = [check EXCEPT ![c] = Row(check[c].version + 1, enabled, alerts)]
  /\ runs' = Cancelled(Of(c)) /\ told' = [told EXCEPT ![c] = <<>>]
  /\ UNCHANGED <<fence, paused, generation>>
Delete(c) ==
  /\ Exists(c) /\ Home[c] \notin fence
  /\ check' = [check EXCEPT ![c] = Gone]
  /\ runs' = Cancelled(Of(c))
  /\ UNCHANGED <<told, fence, paused, generation>>
Run(c) ==
  /\ Exists(c) /\ Home[c] \notin fence /\ ~paused /\ Len(runs) < MaxRuns
  /\ Cardinality(Pending(runs, Home[c])) < MaxPending
  /\ runs' = Append(runs, Queued(c))
  /\ UNCHANGED <<check, told, fence, paused, generation>>

(* claim: two live leases at most; the oldest run of a project that can be    *)
(* run.  A project that somebody else has locked is skipped.                  *)
Claimable(r) ==
  /\ runs[r].status = "queued" /\ ~paused /\ runs[r].generation = generation
  /\ r \in Current(runs[r].check) /\ Home[runs[r].check] \notin fence
Claim(p) ==
  LET mine == {r \in DOMAIN runs : Home[runs[r].check] = p /\ Claimable(r)} IN
  /\ Cardinality({r \in DOMAIN runs : runs[r].status = "running" /\ ~runs[r].late}) < MaxLive
  /\ mine # {}
  /\ LET r == CHOOSE x \in mine : \A y \in mine : x <= y IN
       runs' = [runs EXCEPT ![r].status = "running", ![r].late = FALSE]
  /\ UNCHANGED <<check, told, fence, paused, generation>>

-----------------------------------------------------------------------------
(* complete: health by the order in which runs were created.                  *)
Holds(r) ==
  /\ runs[r].status = "running" /\ ~runs[r].late /\ ~paused
  /\ runs[r].generation = generation
  /\ r \in Current(runs[r].check) /\ Home[runs[r].check] \notin fence
Recent(rs, c) == {r \in Current(c) : rs[r].kept /\ rs[r].status \in Finished}
HealthStatus(rs, c, r) == rs[Max(Recent(rs, c))].status
Failures(rs, c) ==
  Cardinality({r \in Recent(rs, c) : \A s \in Recent(rs, c) : s >= r => rs[s].status = "failed"})
Health(status, failures) ==
  CASE status = "error"  -> "monitor-error"
    [] status = "passed" -> "healthy"
    [] OTHER -> IF failures >= Threshold THEN "failing" ELSE "degraded"
Incident(previous, health) == health = "failing" \/ (previous /\ health # "healthy")
Notice(c, incident, health) ==
  IF ~check[c].alerts THEN <<>>
  ELSE IF ~check[c].incident /\ incident THEN <<"down">>
  ELSE IF check[c].incident /\ health = "healthy" THEN <<"recovered">> ELSE <<>>
Complete(r, status) ==
  LET c == runs[r].check
      rs == [runs EXCEPT ![r].status = status]
      health == Health(HealthStatus(rs, c, r), Failures(rs, c))
      incident == Incident(check[c].incident, health)
  IN /\ Holds(r)
     /\ runs' = rs
     /\ check' = [check EXCEPT ![c].health = health, ![c].incident = incident]
     /\ told' = [told EXCEPT ![c] = @ \o Notice(c, incident, health)]
     /\ UNCHANGED <<fence, paused, generation>>

-----------------------------------------------------------------------------
(* maintain, for one project: runs that nobody finished become errors of the  *)
(* monitor, unless a newer run has an answer; finished runs are dropped in    *)
(* time, long after every run that was under way with them; checks that are   *)
(* due are queued as far as there is room.                                    *)
Overdue(p) == {r \in Pending(runs, p) : runs[r].late}
\* Mutant: whatever newer runs say.
Unanswered(r) == TRUE
Newest(r) ==
  ~\E s \in Current(runs[r].check) : s > r /\ runs[s].kept /\ runs[s].status \in Finished
Expired(p) ==
  [r \in DOMAIN runs |-> IF r \in Overdue(p) THEN [runs[r] EXCEPT !.status = "error"] ELSE runs[r]]
Blamed(p) == {runs[r].check : r \in {x \in Overdue(p) : x \in Current(runs[x].check) /\ Newest(x)}}
Prunable(p) ==
  {r \in DOMAIN runs : /\ Home[runs[r].check] = p /\ runs[r].status \in Finished
                       /\ \A s \in 1..r : runs[s].status \notin Active}
Pruned(rs, old) == [r \in DOMAIN rs |-> IF r \in old THEN [rs[r] EXCEPT !.kept = FALSE] ELSE rs[r]]
Due(p) == {c \in Check : Exists(c) /\ Home[c] = p /\ check[c].enabled /\ check[c].due /\ ~paused}
Fits(rs, p, S) ==
  LET room == MaxPending - Cardinality(Pending(rs, p)) IN
    Cardinality(S) <= room /\ (S = Due(p) \/ Cardinality(S) = room)
Maintain(p) ==
  /\ p \notin fence
  /\ \E old \in SUBSET Prunable(p), S \in SUBSET Due(p) :
       LET rs == Pruned(Expired(p), old) IN
       /\ Fits(rs, p, S) /\ Len(rs) + Cardinality(S) <= MaxRuns
       /\ runs' = rs \o SetToSeq({Queued(c) : c \in S})
       /\ check' = [c \in Check |->
            IF Exists(c)
            THEN [check[c] EXCEPT !.due = @ /\ c \notin S,
                    !.health = IF c \in Blamed(p) THEN "monitor-error" ELSE @]
            ELSE check[c]]
  /\ UNCHANGED <<told, fence, paused, generation>>

-----------------------------------------------------------------------------
(* Time, the fence of a project transfer, the entitlement, and the restore of *)
(* the instance: all checks off, of a new version, and every run cancelled; an *)
(* open incident stays open.                                                  *)
Late(r) ==
  /\ runs[r].status \in Active /\ ~runs[r].late
  /\ runs' = [runs EXCEPT ![r].late = TRUE]
  /\ UNCHANGED <<check, told, fence, paused, generation>>
NextRun(c) ==
  /\ Exists(c) /\ check[c].enabled /\ ~check[c].due
  /\ check' = [check EXCEPT ![c].due = TRUE]
  /\ UNCHANGED <<runs, told, fence, paused, generation>>
Fence(p) ==
  /\ fence' = IF p \in fence THEN fence \ {p} ELSE fence \cup {p}
  /\ UNCHANGED <<check, runs, told, paused, generation>>
Pause == paused' = ~paused /\ UNCHANGED <<check, runs, told, fence, generation>>
Restore ==
  /\ generation < MaxGeneration /\ generation' = generation + 1 /\ paused' = TRUE
  /\ check' = [c \in Check |-> IF Exists(c)
                 THEN [check[c] EXCEPT !.enabled = FALSE, !.version = @ + 1] ELSE check[c]]
  /\ runs' = Cancelled(DOMAIN runs)
  /\ UNCHANGED <<told, fence>>

Next ==
  \/ \E c \in Check : Create(c) \/ Update(c) \/ Delete(c) \/ Run(c) \/ NextRun(c)
  \/ \E p \in Project : Claim(p) \/ Maintain(p) \/ Fence(p)
  \/ \E r \in DOMAIN runs, s \in Finished : Complete(r, s)
  \/ \E r \in DOMAIN runs : Late(r)
  \/ Pause \/ Restore
Spec == Init /\ [][Next]_vars

-----------------------------------------------------------------------------
TypeOK ==
  /\ \A c \in Check : Exists(c) =>
       /\ check[c].health \in {"unknown", "healthy", "degraded", "failing", "monitor-error"}
       /\ check[c].version \in 1..(MaxVersion + MaxGeneration - 1)
  /\ \A r \in DOMAIN runs : runs[r].status \in Active \cup Finished \cup {"cancelled"}
  /\ \A p \in Project : Cardinality(Pending(runs, p)) <= MaxPending

(* "An old result cannot overwrite a newer recovery" (web_checks.rs:493): the *)
(* health of a check is what the last created of its finished runs says,      *)
(* whatever order they finished in, expired in or were dropped in.            *)
HealthFollowsRuns ==
  \A c \in Check : Exists(c) /\ check[c].health # "unknown" =>
    LET done == {r \in Current(c) : runs[r].status \in Finished} IN
      done # {} => check[c].health \in
        CASE runs[Max(done)].status = "passed" -> {"healthy"}
          [] runs[Max(done)].status = "error"  -> {"monitor-error"}
          [] runs[Max(done)].status = "failed" -> {"degraded", "failing"}

(* What the team is told alternates: one "down" for an incident, one          *)
(* "recovered" for its end, and the last word agrees with the check.          *)
IncidentsAlternate ==
  \A c \in Check : Exists(c) /\ check[c].alerts =>
    /\ \A i \in DOMAIN told[c] : told[c][i] = IF i % 2 = 1 THEN "down" ELSE "recovered"
    /\ check[c].incident = (Len(told[c]) % 2 = 1)
=============================================================================
