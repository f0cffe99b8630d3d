---------------------------- MODULE MonitorChecks ----------------------------
(* Availability monitors: the owner's versioned configurations, bounded probe *)
(* workers that claim a due monitor under a lease, measure without a lock and *)
(* record the result if the lease, the configuration and the instance are     *)
(* still theirs, and the incident that the results open and close.            *)
(*                                                                            *)
(* The token of a claim is its place in the order of claims.  A command id    *)
(* that is sent again answers its receipt and has no step.  What was measured *)
(* is a success or a failure.                                                 *)
EXTENDS Naturals, Sequences

CONSTANTS Monitor,       \* ids of monitors, never used twice
          Worker,        \* probe workers (4)
          Threshold,     \* failure_threshold
          None, Gone,    \* no monitor yet, no work, no lease; a deleted monitor
          MaxProbes,     \* bound: claims
          MaxVersion,    \* bound: versions of a monitor
          MaxGeneration  \* bound: restores, plus one

VARIABLES monitor,    \* monitors
          samples,    \* monitor_samples, with the claim that measured each
          told,       \* monitor_events since the configuration was last saved
          work,       \* cycle of each worker
          probes,     \* claims so far
          generation

vars == <<monitor, samples, told, work, probes, generation>>

Exists(m) == monitor[m] \notin {None, Gone}
Init ==
  /\ monitor = [m \in Monitor |-> None]
  /\ samples = [m \in Monitor |-> <<>>] /\ told = [m \in Monitor |-> <<>>]
  /\ work = [w \in Worker |-> None] /\ probes = 0 /\ generation = 1

Row(version, enabled) ==
  [version |-> version, generation |-> generation, enabled |-> enabled, due |-> TRUE,
   lease |-> None, live |-> FALSE, failures |-> 0, incident |-> FALSE]

-----------------------------------------------------------------------------
(* command: Save creates or replaces the configuration, and starts afresh.    *)
Version(m) == IF Exists(m) THEN monitor[m].version ELSE 0
Save(m) ==
  /\ monitor[m] # Gone /\ Version(m) < MaxVersion
  /\ \E enabled \in BOOLEAN : monitor' = [monitor EXCEPT ![m] = Row(Version(m) + 1, enabled)]
  /\ told' = [told EXCEPT ![m] = <<>>]
  /\ UNCHANGED <<samples, work, probes, generation>>
Delete(m) ==
  /\ Exists(m) /\ monitor' = [monitor EXCEPT ![m] = Gone]
  /\ UNCHANGED <<samples, told, work, probes, generation>>
(* Check, or the interval that has passed.                                    *)
Check(m) ==
  /\ Exists(m) /\ monitor[m].enabled /\ ~monitor[m].due
  /\ monitor' = [monitor EXCEPT ![m].due = TRUE]
  /\ UNCHANGED <<samples, told, work, probes, generation>>

-----------------------------------------------------------------------------
(* cycle: claim, probe, finish.                                               *)
Claim(w, m) ==
  /\ work[w] = None /\ probes < MaxProbes
  /\ Exists(m) /\ monitor[m].enabled /\ monitor[m].generation = generation
  /\ monitor[m].due /\ ~monitor[m].live
  /\ probes' = probes + 1
  /\ monitor' = [monitor EXCEPT ![m].lease = probes + 1, ![m].live = TRUE]
  /\ work' = [work EXCEPT ![w] = [id |-> m, version |-> monitor[m].version, token |-> probes + 1]]
  /\ UNCHANGED <<samples, told, generation>>

Holds(w) ==
  LET row == monitor[work[w].id] IN
    /\ Exists(work[w].id) /\ row.version = work[w].version
    /\ row.lease = work[w].token /\ row.live
    /\ row.generation = generation /\ row.enabled
Failures(m, ok) == IF ok THEN 0 ELSE monitor[m].failures + 1
Incident(m, ok) == ~ok /\ (Failures(m, ok) >= Threshold \/ monitor[m].incident)
Transition(m, ok) ==
  IF monitor[m].incident THEN IF ok THEN <<"recovered">> ELSE <<>>
  ELSE IF Incident(m, ok) THEN <<"down">> ELSE <<>>
Finish(w, ok) ==
  /\ work[w] # None
  /\ work' = [work EXCEPT ![w] = None]
  /\ IF Holds(w)
     THEN LET m == work[w].id IN
       /\ monitor' = [monitor EXCEPT ![m].failures = Failures(m, ok),
            ![m].incident = Incident(m, ok), ![m].lease = None, ![m].live = FALSE,
            ![m].due = FALSE]
       /\ samples' = [samples EXCEPT ![m] = Append(@, [token |-> work[w].token, ok |-> ok,
                                                       version |-> work[w].version])]
       /\ told' = [told EXCEPT ![m] = @ \o Transition(m, ok)]
     ELSE UNCHANGED <<monitor, samples, told>>
  /\ UNCHANGED <<probes, generation>>

(* A worker whose query fails, or whose process ends; a probe that outlives   *)
(* its lease; the restore of the instance, which turns every monitor off and  *)
(* leaves an open incident open.                                              *)
Drop(w) ==
  /\ work[w] # None /\ work' = [work EXCEPT ![w] = None]
  /\ UNCHANGED <<monitor, samples, told, probes, generation>>
LeaseExpires(m) ==
  /\ Exists(m) /\ monitor[m].live
  /\ monitor' = [monitor EXCEPT ![m].live = FALSE]
  /\ UNCHANGED <<samples, told, work, probes, generation>>
Restore ==
  /\ generation < MaxGeneration /\ generation' = generation + 1
  /\ monitor' = [m \in Monitor |-> IF Exists(m)
       THEN [monitor[m] EXCEPT !.enabled = FALSE, !.generation = generation + 1,
               !.version = @ + 1, !.lease = None, !.live = FALSE]
       ELSE monitor[m]]
  /\ work' = [w \in Worker |-> None]
  /\ UNCHANGED <<samples, told, probes>>

Next ==
  \/ \E m \in Monitor : Save(m) \/ Delete(m) \/ Check(m) \/ LeaseExpires(m)
  \/ \E w \in Worker, m \in Monitor : Claim(w, m)
  \/ \E w \in Worker, ok \in BOOLEAN : Finish(w, ok)
  \/ \E w \in Worker : Drop(w)
  \/ Restore
Spec == Init /\ [][Next]_vars

-----------------------------------------------------------------------------
TypeOK ==
  /\ \A m \in Monitor : Exists(m) =>
       /\ monitor[m].version \in 1..(MaxVersion + MaxGeneration)
       /\ monitor[m].generation \in 1..generation /\ monitor[m].failures \in 0..MaxProbes
       /\ monitor[m].live => monitor[m].lease \in 1..probes
  /\ probes \in 0..MaxProbes

(* "Configuration/generation fence late results" (monitors.rs:1): what the    *)
(* samples of a monitor say is in the order in which the probes began, so no  *)
(* result of an older probe is counted after that of a newer one; and the     *)
(* failures that decide about an incident are the last samples of the         *)
(* configuration in force.                                                    *)
Streak(m, n) ==
  \A i \in 1..n : LET s == samples[m][Len(samples[m]) + 1 - i] IN
    ~s.ok /\ s.version <= monitor[m].version
ResultsInOrder ==
  \A m \in Monitor :
    /\ \A i, j \in DOMAIN samples[m] : i < j => samples[m][i].token < samples[m][j].token
    /\ Exists(m) => monitor[m].failures <= Len(samples[m]) /\ Streak(m, monitor[m].failures)

(* The team hears of an incident once, and once of its end: down and          *)
(* recovered alternate, and the last word agrees with the monitor.            *)
IncidentsAlternate ==
  \A m \in Monitor : Exists(m) =>
    /\ \A i \in DOMAIN told[m] : told[m][i] = IF i % 2 = 1 THEN "down" ELSE "recovered"
    /\ monitor[m].incident = (Len(told[m]) % 2 = 1)
=============================================================================
