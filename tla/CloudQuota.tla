----------------------------- MODULE CloudQuota -----------------------------
(* Admission and quotas of the cloud edition (cloud_quota.rs), with the routes *)
(* of an operator's ingest policy (ingest_policy.rs).  Replicas fetch the      *)
(* workspace's policy and may hear an old answer late.  Every charge holds the *)
(* entitlement row from its check to its commit, so a transaction that charges *)
(* is one step here.                                                           *)
EXTENDS Naturals, FiniteSets
CONSTANTS
  Replica, Event,
  Home, Away,       \* a token's project, and the one that its route names
  Routed,           \* the events that the route's selectors describe
  Limits,           \* monthly events that a plan may have
  MonthlyReplays, PerSecond, MaxProjects,
  Lease, Month,     \* how long an answer is valid, clock ticks of a month
  Retention, ReplayRetention, \* ticks for which an event is kept, and a replay
  MaxTime, MaxSent, \* bounds: the clock, requests
  None

VARIABLES
  clock,
  policy,       \* the control service: [active, events, paid]
  heard,        \* Replica -> the answer on its way to it, or None
  entitlement,  \* the row, or None
  usage, second, \* cloud_monthly_usage, cloud_second_usage: by month, by tick
  stored,       \* events: id -> [project, at], or None
  replays,      \* cloud_replay_usage: <<project, event>> -> since when, or None
  attached,     \* event_attachments of kind replay: id -> its rows, [project, at]
  settled,      \* routed events whose attachments were reconciled
  projects, sent,
  applied,      \* ghost: the answers that a replica wrote, in time of issue
  refused,      \* ghost: stored events that were refused for the monthly quota
  admitted,     \* ghost: the last admission and the answer that it was on, or None
  counted,      \* ghost: month -> events inserted in it
  billed        \* ghost: event -> how often its replay was charged
vars == <<clock, policy, heard, entitlement, usage, second, stored, replays, attached, settled,
          projects, sent, applied, refused, admitted, counted, billed>>
control == <<policy, heard, entitlement, applied>>
rows == <<usage, second, stored, replays, attached, settled, projects>>
ghosts == <<refused, admitted, counted, billed>>

Months == 0..(MaxTime \div Month)
ThisMonth == clock \div Month
Project == {Home, Away}
Init ==
  /\ clock = 0 /\ policy \in [active: {TRUE}, events: Limits, paid: {MaxTime, Lease}]
  /\ heard = [r \in Replica |-> None] /\ entitlement = None
  /\ usage = [m \in Months |-> [events |-> 0, replays |-> 0]]
  /\ second = [t \in 0..MaxTime |-> 0]
  /\ stored = [e \in Event |-> None] /\ replays = [x \in Project \X Event |-> None]
  /\ attached = [e \in Event |-> {}] /\ settled = {} /\ projects = 2 /\ sent = 0
  /\ applied = {} /\ refused = {} /\ admitted = None
  /\ counted = [m \in Months |-> 0] /\ billed = [e \in Event |-> 0]

Tick ==
  /\ clock < MaxTime /\ clock' = clock + 1
  /\ UNCHANGED <<control, rows, sent, ghosts>>
ChangePlan ==
  /\ \E a \in BOOLEAN, n \in Limits : policy' = [policy EXCEPT !.active = a, !.events = n]
  /\ policy' # policy
  /\ UNCHANGED <<clock, heard, entitlement, rows, sent, applied, ghosts>>

(* refresh: the answer is made at the service, and written when it arrives.   *)
Ask(r) ==
  /\ heard[r] = None
  /\ heard' = [heard EXCEPT ![r] = [active |-> policy.active, events |-> policy.events,
                                    issued |-> clock, valid |-> clock + Lease, paid |-> policy.paid]]
  /\ UNCHANGED <<clock, policy, entitlement, rows, sent, applied, ghosts>>
Smaller(a, b) == IF a < b THEN a ELSE b
NotOlder(a) == entitlement # None => entitlement.issued <= a.issued
Learn(r) ==
  /\ heard[r] # None /\ heard' = [heard EXCEPT ![r] = None]
  /\ LET a == heard[r]
     IN IF NotOlder(a)
        THEN /\ entitlement' = [active |-> a.active /\ a.paid > clock /\ a.valid > clock,
                                events |-> a.events, until |-> Smaller(a.valid, a.paid),
                                paid |-> a.paid, issued |-> a.issued]
             /\ applied' = applied \cup {a.issued}
        ELSE UNCHANGED <<entitlement, applied>>
  /\ UNCHANGED <<clock, policy, rows, sent, ghosts>>
LoseAnswer(r) ==
  /\ heard[r] # None /\ heard' = [heard EXCEPT ![r] = None]
  /\ UNCHANGED <<clock, policy, entitlement, rows, sent, applied, ghosts>>

-----------------------------------------------------------------------------
(* lock: admission inside the transaction that charges.                       *)
Current == entitlement.until > clock /\ entitlement.paid > clock
Locked == entitlement # None /\ entitlement.active /\ Current
Admits == admitted' = [at |-> clock, issued |-> entitlement.issued, paid |-> entitlement.paid]
Sends == sent < MaxSent /\ sent' = sent + 1

ProjectOf(e) == IF e \in Routed THEN Away ELSE Home
Known(e) == stored[e] # None
Existing(e) == Known(e)
Room == usage[ThisMonth].events + 1 <= entitlement.events
InRate == second[clock] + 1 <= PerSecond
(* An event: its id is charged when it is first stored.                       *)
Store(e) ==
  /\ Sends /\ Locked /\ Admits
  /\ IF Existing(e) \/ (Room /\ InRate)
     THEN /\ IF Known(e) THEN UNCHANGED <<usage, second, stored, counted>>
             ELSE /\ usage' = [usage EXCEPT ![ThisMonth].events = @ + 1]
                  /\ second' = [second EXCEPT ![clock] = @ + 1]
                  /\ stored' = [stored EXCEPT ![e] = [project |-> ProjectOf(e), at |-> clock]]
                  /\ counted' = [counted EXCEPT ![ThisMonth] = @ + 1]
          /\ UNCHANGED refused
     ELSE /\ refused' = IF Known(e) THEN refused \cup {e} ELSE refused
          /\ UNCHANGED <<usage, second, stored, counted>>
  /\ UNCHANGED <<clock, control, replays, attached, settled, projects, billed>>
(* Without admission nothing is written.                                      *)
Deny ==
  /\ Sends /\ ~Locked
  /\ UNCHANGED <<clock, control, rows, ghosts>>

(* A replay: stored under the project of its event where the token's route    *)
(* permits that, and charged once for the pair.                               *)
AttachmentProject(e) == IF Routed # {} /\ Known(e) THEN stored[e].project ELSE Home
FirstReplay(e) == replays[<<AttachmentProject(e), e>>] = None
Attach(e) ==
  /\ Sends /\ Locked /\ Admits
  /\ LET p == AttachmentProject(e)
     IN IF ~FirstReplay(e) \/ usage[ThisMonth].replays < MonthlyReplays
        THEN /\ usage' = [usage EXCEPT ![ThisMonth].replays = @ + (IF FirstReplay(e) THEN 1 ELSE 0)]
             /\ replays' = IF FirstReplay(e) THEN [replays EXCEPT ![<<p, e>>] = clock] ELSE replays
             /\ billed' = [billed EXCEPT ![e] = @ + (IF FirstReplay(e) THEN 1 ELSE 0)]
             /\ attached' = [attached EXCEPT ![e] = @ \cup {[project |-> p, at |-> clock]}]
        ELSE UNCHANGED <<usage, replays, billed, attached>>
  /\ UNCHANGED <<clock, control, second, stored, settled, projects, refused, counted>>
(* reconcile_attachments, after the event's transaction: what came before the *)
(* event follows it.                                                          *)
Reconcile(e) ==
  /\ Known(e) /\ stored[e].project = Away /\ e \notin settled /\ settled' = settled \cup {e}
  /\ attached' = [attached EXCEPT ![e] = {[a EXCEPT !.project = Away] : a \in @}]
  /\ replays' = [replays EXCEPT ![<<Home, e>>] = None,
                                ![<<Away, e>>] = IF @ = None THEN replays[<<Home, e>>] ELSE @]
  /\ UNCHANGED <<clock, control, usage, second, stored, projects, sent, ghosts>>

CreateProject ==
  /\ Sends /\ Locked /\ Admits
  /\ projects' = IF projects < MaxProjects THEN projects + 1 ELSE projects
  /\ UNCHANGED <<clock, control, usage, second, stored, replays, attached, settled, refused, counted,
                 billed>>

(* prune: an event and its attachments by age, then what counted them.        *)
Old(t, kept) == t + kept < clock
Prune ==
  /\ entitlement # None
  /\ LET gone == {e \in Event : Known(e) /\ Old(stored[e].at, Retention)}
     IN /\ stored' = [e \in Event |-> IF e \in gone THEN None ELSE stored[e]]
        /\ attached' = [e \in Event |->
             {a \in attached[e] : /\ ~Old(a.at, Retention) /\ ~Old(a.at, ReplayRetention)
                                  /\ e \in gone => a.project # stored[e].project}]
        /\ replays' = [x \in Project \X Event |->
             IF /\ replays[x] # None /\ Old(replays[x], Retention)
                /\ ~\E a \in attached'[x[2]] : a.project = x[1]
                /\ ~(stored'[x[2]] # None /\ stored'[x[2]].project = x[1])
             THEN None ELSE replays[x]]
        /\ settled' = settled \ gone
        /\ billed' = [e \in Event |-> IF \A p \in Project : replays'[<<p, e>>] = None THEN 0
                                      ELSE billed[e]]
  /\ <<stored', attached', replays'>> # <<stored, attached, replays>>
  /\ UNCHANGED <<clock, control, usage, second, projects, sent, refused, admitted, counted>>

Next ==
  \/ Tick \/ ChangePlan \/ Deny \/ CreateProject \/ Prune
  \/ \E r \in Replica : Ask(r) \/ Learn(r) \/ LoseAnswer(r)
  \/ \E e \in Event : Store(e) \/ Attach(e) \/ Reconcile(e)
Spec == Init /\ [][Next]_vars

-----------------------------------------------------------------------------
(* Which rows and answers there are.                                          *)
TypeOK ==
  /\ clock \in 0..MaxTime /\ sent \in 0..MaxSent /\ projects \in 2..MaxProjects
  /\ \A e \in Event : stored[e] # None => stored[e].project \in Project
  /\ \A m \in Months : usage[m].replays \in 0..MonthlyReplays
  /\ entitlement # None => entitlement.issued \in 0..clock

(* The newest answer that any replica wrote is the one in force, and what is  *)
(* admitted is within its lease and its paid period (cloud_quota.rs:1,        *)
(* "Admission leases never extend beyond the paid service period").           *)
NewestPolicyRules ==
  /\ entitlement # None => \A i \in applied : i <= entitlement.issued
  /\ admitted # None => admitted.at < admitted.issued + Lease /\ admitted.at < admitted.paid
(* "an event ID only consumes event quota on first insert": what is stored is *)
(* accepted again when the quota is used up, and a month is charged for what  *)
(* it stored (cloud_quota.rs:226).                                            *)
RetransmissionIsFree ==
  /\ refused = {} /\ \A m \in Months : usage[m].events = counted[m]
(* The replay of an event is charged once while it is kept; that of an event *)
(* which a route sends elsewhere at most twice: an upload may come between    *)
(* the event and the reconciliation (ingest_policy.rs:145).                   *)
ReplayChargedOnce ==
  \A e \in Event : billed[e] <= IF e \in Routed THEN 2 ELSE 1
=============================================================================
