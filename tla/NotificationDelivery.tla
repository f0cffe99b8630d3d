------------------------ MODULE NotificationDelivery ------------------------
(* Notifications of one project: events enqueued in the transactions that     *)
(* cause them, a router that fans an event out to deliveries, workers that    *)
(* send deliveries under a lease, the owner's commands (configure, send,      *)
(* retry) and the offline restore and resume of the instance.                 *)
(*                                                                            *)
(* The token of a claim is the attempt number: attempt grows with each claim  *)
(* and is never reset.  An expired lease is a flag of the row; a backoff is   *)
(* only a delay.  What an integration's settings say is     *)
(* data; that they cannot be decrypted, or that the instance has no key, is   *)
(* a possible verdict of every check that needs them.  The settings and the   *)
(* members keep their values across a restore: no delivery that the snapshot  *)
(* holds is sent again whatever they are.                                     *)
EXTENDS Integers

CONSTANTS Event,          \* issue and task events, by source_key
          Kind,           \* the kinds raised: "issue" and "task" (monitors too)
          Command,        \* command ids of the owner, each with one body
          Webhook,        \* integrations that deduplicate by the delivery's id
          Tracker,        \* GitHub and Jira: a second request is a second ticket
          Mailbox,        \* email integrations
          Legacy,         \* the webhook in the project's settings: one, or none here
          User,           \* owners of the instance
          Worker,         \* the sending tasks of the process (4)
          None,           \* no row, no snapshot, nothing claimed
          MaxAttempt,     \* attempts of a delivery (5)
          MaxVersion,     \* bound: versions of a configuration
          MaxGeneration   \* bound: restores of the instance, plus one

Integration == Webhook \cup Tracker \cup Mailbox
Source      == Event \cup Command
Destination == Integration \cup User \cup Legacy
Issue       == "issue"    \* issue.new, issue.regressed
Sent        == "send"     \* integration.test, task.export: an explicit target
Pending     == {"queued", "retry_wait"}
Final       == {"delivered", "failed", "uncertain", "cancelled"}
NoEvent     == None
NoDelivery  == None
NoWork      == None

VARIABLES event,        \* notification_events, by source_key
          delivery,     \* notification_deliveries, by event and destination
          config,       \* outbound_integrations, and the project's own webhook
          owner, muted, \* superadmins; users whose preferences are off
          receipt,      \* integration_commands
          work,         \* the workers of notification_delivery::spawn
          mode, generation, \* instance_settings
          backup,       \* a snapshot of events, deliveries and receipts
          spare         \* ghost: messages a delivery may still cause

vars == <<event, delivery, config, owner, muted, receipt, work, mode, generation,
          backup, spare>>
people == <<owner, muted>>
instance == <<mode, generation, backup>>

Lane == Source \X Destination

Init ==
  /\ event = [s \in Source |-> NoEvent]
  /\ delivery = [l \in Lane |-> NoDelivery]
  /\ config = [d \in Integration \cup Legacy |-> [version |-> 1, on |-> d \in Integration,
                 kinds |-> IF d \in Integration THEN {} ELSE {Issue}]]
  /\ owner = User /\ muted = {} /\ receipt = {}
  /\ work = [w \in Worker |-> NoWork]
  /\ mode = "normal" /\ generation = 1 /\ backup = NoEvent
  /\ spare = [l \in Lane |-> 1]

Exists(l) == delivery[l] # NoDelivery
Row(v) == [state |-> "queued", attempt |-> 0, version |-> v, lease |-> FALSE]
NewEvent(kind, target) ==
  [kind |-> kind, target |-> target, generation |-> generation, routed |-> kind = Sent,
   seen |-> {d \in Integration : config[d].version > 0}, drill |-> mode # "normal"]

-----------------------------------------------------------------------------
(* enqueue.  A second event with the same source_key returns the first one.   *)
Raise(e, kind) ==
  /\ event[e] = NoEvent
  /\ event' = [event EXCEPT ![e] = NewEvent(kind, NoEvent)]
  /\ UNCHANGED <<delivery, config, people, receipt, work, instance, spare>>

(* configure.  The project's own webhook is a field of the project, whose     *)
(* version grows with every change of it.                                     *)
Configure(c, d) ==
  /\ c \notin receipt /\ owner # {} /\ config[d].version < MaxVersion
  /\ \E on \in BOOLEAN, kinds \in SUBSET Kind :
       config' = [config EXCEPT ![d] = [version |-> @.version + 1, on |-> on, kinds |-> kinds]]
  /\ receipt' = receipt \cup {c}
  /\ UNCHANGED <<event, delivery, people, work, instance, spare>>
UpdateProject(d) ==
  /\ config[d].version < MaxVersion
  /\ \E on \in BOOLEAN : config' = [config EXCEPT ![d].version = @ + 1, ![d].on = on]
  /\ UNCHANGED <<event, delivery, people, receipt, work, instance, spare>>

(* send: event, delivery and receipt in one transaction; the router never     *)
(* sees the event.                                                            *)
Send(c, d) ==
  /\ c \notin receipt /\ owner # {}
  /\ config[d].version > 0 /\ config[d].on
  /\ receipt' = receipt \cup {c}
  /\ \E u \in owner : event' = [event EXCEPT ![c] = NewEvent(Sent, u)]
  /\ delivery' = [delivery EXCEPT ![<<c, d>>] = Row(config[d].version)]
  /\ UNCHANGED <<config, people, work, instance, spare>>

(* retry: a failed delivery, or an uncertain one whose possible duplicate the *)
(* owner accepts.                                                             *)
Retriable(row, acknowledge) ==
  /\ row.attempt < MaxAttempt
  /\ row.state = "failed" \/ (row.state = "uncertain" /\ acknowledge)
Retry(c, l, acknowledge) ==
  /\ c \notin receipt /\ owner # {} /\ Exists(l) /\ Retriable(delivery[l], acknowledge)
  /\ receipt' = receipt \cup {c}
  /\ delivery' = [delivery EXCEPT ![l].state = "queued"]
  /\ spare' = [spare EXCEPT ![l] = @ + IF acknowledge THEN 1 ELSE 0]
  /\ UNCHANGED <<event, config, people, work, instance>>

(* prefs_put; an owner who loses the role at a sign-in of the cloud edition.   *)
Mute(u) ==
  /\ muted' = IF u \in muted THEN muted \ {u} ELSE muted \cup {u}
  /\ UNCHANGED <<event, delivery, config, owner, receipt, work, instance, spare>>
Demote(u) ==
  /\ u \in owner /\ owner' = owner \ {u}
  /\ UNCHANGED <<event, delivery, config, muted, receipt, work, instance, spare>>

-----------------------------------------------------------------------------
Subscribed(u) == u \in owner \ muted

(* route: the destinations of an event of this generation.                    *)
Audience(ev) ==
  {d \in Integration : config[d].on /\ ev.kind \in config[d].kinds /\ d \in ev.seen}
    \cup IF ev.kind # Issue THEN {} ELSE
         {u \in User : Subscribed(u)} \cup {d \in Legacy : config[d].on}
Version(d) == IF d \in User THEN 0 ELSE config[d].version
Route(s) ==
  /\ mode = "normal" /\ event[s] # NoEvent /\ ~event[s].routed
  /\ event' = [event EXCEPT ![s].routed = TRUE]
  /\ delivery' = [l \in Lane |->
       IF /\ l[1] = s /\ ~Exists(l)
          /\ event[s].generation = generation /\ l[2] \in Audience(event[s])
       THEN Row(Version(l[2])) ELSE delivery[l]]
  /\ UNCHANGED <<config, people, receipt, work, instance, spare>>

(* cycle: the sweep closes expired sends, then one due delivery is claimed.   *)
SweptToRetry == "retry_wait"   \* a bug: an interrupted send is repeated
SweptState == "uncertain"
Sweep(l) ==
  /\ mode = "normal"
  /\ Exists(l) /\ delivery[l].state = "running" /\ ~delivery[l].lease
  /\ delivery' = [delivery EXCEPT ![l].state = SweptState]
  /\ UNCHANGED <<event, config, people, receipt, work, instance, spare>>
Claim(w, l) ==
  /\ mode = "normal" /\ work[w] = NoWork
  /\ Exists(l) /\ delivery[l].state \in Pending
  /\ delivery[l].attempt < MaxAttempt
  /\ delivery' = [delivery EXCEPT ![l].state = "running", ![l].lease = TRUE,
                                  ![l].attempt = @ + 1]
  /\ work' = [work EXCEPT ![w] = [lane |-> l, attempt |-> delivery[l].attempt + 1,
                                  outcome |-> "check"]]
  /\ UNCHANGED <<event, config, people, receipt, instance, spare>>

(* target: the checks repeated before the send.                               *)
AnyGeneration(l) == TRUE   \* a bug: target() does not compare generations
Current(l) == event[l[1]].generation = generation
Requested(l) == event[l[1]].kind = Sent => event[l[1]].target \in owner
Unchanged(l) ==
  IF l[2] \in User THEN Subscribed(l[2])
  ELSE config[l[2]].on /\ config[l[2]].version = delivery[l].version
Verdicts(l) ==
  IF ~Current(l) \/ ~Requested(l) THEN {"cancelled"}
  ELSE {IF Unchanged(l) THEN "send" ELSE "cancelled"} \cup
       IF l[2] \in User THEN {} ELSE {"failed"}
Target(w) ==
  /\ work[w] # NoWork /\ work[w].outcome = "check"
  /\ \E v \in Verdicts(work[w].lane) : work' = [work EXCEPT ![w].outcome = v]
  /\ UNCHANGED <<event, delivery, config, people, receipt, instance, spare>>

(* send: what the worker learns; only a failed request is known not to have   *)
(* reached its receiver.                                                      *)
Outcomes(d) ==
  {"delivered", "failed", IF d \in Webhook \cup Legacy THEN "retry_wait" ELSE "uncertain"}
Request(w) ==
  /\ work[w] # NoWork /\ work[w].outcome = "send"
  /\ \E o \in Outcomes(work[w].lane[2]) :
       /\ work' = [work EXCEPT ![w].outcome = o]
       /\ spare' = [spare EXCEPT ![work[w].lane] = @ - IF o = "failed" THEN 0 ELSE 1]
  /\ UNCHANGED <<event, delivery, config, people, receipt, instance>>

(* complete: fenced by the token and the lease.                               *)
Answered(w) == work[w] # NoWork /\ work[w].outcome \in Final \cup {"retry_wait"}
Holds(w) ==
  LET row == delivery[work[w].lane] IN
    row.state = "running" /\ row.attempt = work[w].attempt /\ row.lease
Exhausted(w) == work[w].outcome = "retry_wait" /\ work[w].attempt >= MaxAttempt
Complete(w) ==
  /\ Answered(w)
  /\ work' = [work EXCEPT ![w] = NoWork]
  /\ delivery' =
       IF ~Holds(w) THEN delivery ELSE
       [delivery EXCEPT ![work[w].lane].lease = FALSE,
          ![work[w].lane].state = IF Exhausted(w) THEN "uncertain" ELSE work[w].outcome]
  /\ UNCHANGED <<event, config, people, receipt, instance, spare>>

(* A worker whose query fails, or whose process ends, leaves its row running. *)
Drop(w) ==
  /\ work[w] # NoWork /\ work' = [work EXCEPT ![w] = NoWork]
  /\ UNCHANGED <<event, delivery, config, people, receipt, instance, spare>>
LeaseExpires(l) ==
  /\ Exists(l) /\ delivery[l].state = "running" /\ delivery[l].lease
  /\ delivery' = [delivery EXCEPT ![l].lease = FALSE]
  /\ UNCHANGED <<event, config, people, receipt, work, instance, spare>>

-----------------------------------------------------------------------------
(* A snapshot, its restore into an instance of a new generation, whose        *)
(* workers are paused, and the resume command, run while no server is.        *)
Paused(row) ==
  IF row = NoDelivery \/ row.state \in Final THEN row
  ELSE [row EXCEPT !.lease = FALSE,
          !.state = IF row.state = "running" THEN "uncertain" ELSE "cancelled"]
Backup ==
  /\ backup = NoEvent /\ generation < MaxGeneration /\ mode = "normal"
  /\ backup' = [event |-> event, receipt |-> receipt,
                delivery |-> [l \in Lane |-> Paused(delivery[l])]]
  /\ UNCHANGED <<event, delivery, config, people, receipt, work, mode, generation, spare>>
Restore ==
  /\ backup # NoEvent
  /\ generation' = generation + 1 /\ mode' = "restore_validation" /\ backup' = NoEvent
  /\ event' = backup.event /\ receipt' = backup.receipt /\ delivery' = backup.delivery
  /\ work' = [w \in Worker |-> NoWork]
  /\ spare' = [l \in Lane |-> IF backup.delivery[l] = NoDelivery THEN 1 ELSE spare[l]]
  /\ UNCHANGED <<config, people>>
Closed(row) ==
  IF row # NoDelivery /\ row.state \in Pending \cup {"running"}
  THEN [row EXCEPT !.state = "cancelled", !.lease = FALSE] ELSE row
Resume ==
  /\ mode = "restore_validation" /\ mode' = "normal"
  /\ event' = [s \in Source |->
       IF event[s] = NoEvent THEN NoEvent ELSE [event[s] EXCEPT !.routed = TRUE]]
  /\ delivery' = [l \in Lane |-> Closed(delivery[l])]
  /\ UNCHANGED <<config, people, receipt, work, generation, backup, spare>>

-----------------------------------------------------------------------------
OwnerStep ==
  \/ \E c \in Command, d \in Integration : Configure(c, d)
  \/ \E d \in Legacy : UpdateProject(d)
  \/ \E c \in Command, d \in Integration : Send(c, d)
  \/ \E c \in Command, l \in Lane, a \in BOOLEAN : Retry(c, l, a)
  \/ \E u \in User : Mute(u) \/ Demote(u)
  \/ Backup \/ Restore \/ Resume
Cycle(w) ==
  \/ \E l \in Lane : Claim(w, l)
  \/ Target(w) \/ Request(w) \/ Complete(w)
Next ==
  \/ \E e \in Event, kind \in Kind : Raise(e, kind)
  \/ OwnerStep
  \/ \E s \in Source : Route(s)
  \/ \E w \in Worker : Cycle(w) \/ Drop(w)
  \/ \E l \in Lane : Sweep(l) \/ LeaseExpires(l)

Spec == Init /\ [][Next]_vars

-----------------------------------------------------------------------------
TypeOK ==
  /\ \A s \in Source : event[s] # NoEvent =>
       event[s].kind \in Kind \cup {Sent} /\ event[s].generation \in 1..generation
  /\ \A l \in Lane : Exists(l) =>
       /\ event[l[1]] # NoEvent /\ event[l[1]].routed
       /\ delivery[l].state \in Pending \cup Final \cup {"running"}
       /\ delivery[l].attempt \in 0..MaxAttempt
       /\ delivery[l].lease => delivery[l].state = "running"
  /\ owner \subseteq User /\ muted \subseteq User /\ receipt \subseteq Command
  /\ mode \in {"normal", "restore_validation"} /\ generation \in 1..MaxGeneration

(* Ambiguous sends that are not idempotent are never blindly repeated (the    *)
(* first line of notification_delivery.rs): a tracker or a mailbox receives   *)
(* one message per delivery, and one more for each duplicate that the owner   *)
(* has accepted; through crashes, lost leases, retries and restores.          *)
NoSecondTicket ==
  \A l \in Lane : l[2] \notin Webhook \cup Legacy => spare[l] >= 0

(* After a restore nothing that was raised before it, or while the restored   *)
(* instance was being validated, is ever sent: not by the router, not by a    *)
(* worker and not by the owner's retry.                                       *)
QuietStep ==
  \A l \in Lane : spare'[l] < spare[l] =>
    event[l[1]].generation = generation /\ ~event[l[1]].drill
RestoredStaysQuiet == [][QuietStep]_vars

(* No delivery is stranded: a row that waits for a worker has an attempt      *)
(* left, whoever put it there: the router, send, retry or a worker's answer.  *)
NoStrandedDelivery ==
  \A l \in Lane : Exists(l) /\ delivery[l].state \in Pending =>
    delivery[l].attempt < MaxAttempt
=============================================================================
