------------------------------ MODULE Transport ------------------------------
(* The transport of the SDKs (sdk/core/src/transport.ts): events and sessions  *)
(* are queued, leave in batches, and what could not be sent is kept in the     *)
(* app's storage for the next launch.  One app; every `await` is a place where *)
(* another flush, the drain of the stored events or the end of the process     *)
(* comes between.  Assert counts and attachments ride with the events and are  *)
(* left out.  A counter of losses is the set of the events that it counts.     *)
EXTENDS Naturals, Sequences, SequencesExt, FiniteSets
CONSTANTS
  Event, Session,
  Task,          \* flushes that run at once
  MaxQueued, BatchSize, MaxRetry,
  MaxPersisted,  \* events kept for the next launch
  MaxBatch,      \* events of a batch that the server takes
  Stores,        \* "none": no storage; "throws": one that reports a failed write
                 \* (React Native); "silent": one that swallows it (web, weapp)
  MaxLaunch,     \* bound: launches of the app
  None

VARIABLES
  storage,   \* which storage this app has
  launch, started, timer,
  made,      \* events and sessions that were handed to the transport
  queue, sessions, dropped,
  task,      \* Task -> the batch it sends or persists, or None
  pending,   \* the events in the app's storage
  drain,     \* drainOfflineQueue: what it read, or None
  stored,    \* what the server has
  told,      \* events that the server was told of as dropped
  lost       \* event or session -> how it was lost without being counted, or "no"
vars == <<storage, launch, started, timer, made, queue, sessions, dropped, task, pending,
          drain, stored, told, lost>>
server == <<stored, told>>

Free == {t \in Task : task[t] = None}
Blame(f, items, cause) == [i \in DOMAIN f |-> IF i \in items THEN cause ELSE f[i]]
Newest(s, n) == IF Len(s) > n THEN SubSeq(s, Len(s) - n + 1, Len(s)) ELSE s

Init ==
  /\ storage \in Stores
  /\ launch = 1 /\ started = FALSE /\ timer = FALSE
  /\ made = {} /\ queue = <<>> /\ sessions = {} /\ dropped = {}
  /\ task = [t \in Task |-> None] /\ pending = <<>> /\ drain = None
  /\ stored = {} /\ told = {} /\ lost = [i \in Event \cup Session |-> "no"]

-----------------------------------------------------------------------------
(* flush, up to its first await: the queues are taken and reset.              *)
Envelope(q, s, d) ==
  [events |-> q, sessions |-> s, told |-> d, attempt |-> 0, phase |-> "send", prev |-> <<>>]
Flush(q, s, d) ==
  IF ~started \/ (q = <<>> /\ s = {})
  THEN queue' = q /\ sessions' = s /\ dropped' = d /\ UNCHANGED task
  ELSE /\ \E t \in Free : task' = [task EXCEPT ![t] = Envelope(q, s, d)]
       /\ queue' = <<>> /\ sessions' = {} /\ dropped' = {}

Overflow(all) == ToSet(all) \ ToSet(Newest(all, MaxQueued))
Enqueue(e) ==
  /\ e \notin made /\ made' = made \cup {e}
  /\ LET all == Append(queue, e)
         q == Newest(all, MaxQueued)
         d == dropped \cup Overflow(all) IN
       IF Len(q) >= BatchSize
       THEN Flush(q, sessions, d) /\ timer' = (timer /\ ~started)
       ELSE queue' = q /\ dropped' = d /\ timer' = TRUE /\ UNCHANGED <<sessions, task>>
  /\ UNCHANGED <<storage, launch, started, pending, drain, server, lost>>
QueueSession(s) ==
  /\ s \notin made /\ made' = made \cup {s} /\ sessions' = sessions \cup {s}
  /\ UNCHANGED <<storage, launch, started, timer, queue, dropped, task, pending, drain,
                 server, lost>>
(* The timer, or a page that hides: web/src/sessions.ts flushes at once.      *)
Tick ==
  /\ timer \/ sessions # {}
  /\ timer' = FALSE /\ Flush(queue, sessions, dropped)
  /\ UNCHANGED <<storage, launch, started, made, pending, drain, server, lost>>

-----------------------------------------------------------------------------
(* sendOnce, sendWithRetry.                                                   *)
Sending(t) == task[t] # None /\ task[t].phase = "send"
Done(t) == task' = [task EXCEPT ![t] = None]
Retried(t) ==
  IF task[t].attempt + 1 < MaxRetry THEN [task[t] EXCEPT !.attempt = @ + 1]
  ELSE [task[t] EXCEPT !.phase = "storage"]
Rest == UNCHANGED <<storage, launch, started, timer, made, queue, sessions, pending, drain>>
Absorbed(t) == stored \cup task[t].sessions

(* 200: what the server refused is counted.                                   *)
Answered(t, refused) ==
  /\ Sending(t) /\ Len(task[t].events) <= MaxBatch
  /\ stored' = Absorbed(t) \cup (ToSet(task[t].events) \ refused)
  /\ told' = told \cup task[t].told
  /\ dropped' = dropped \cup refused /\ Done(t)
  /\ Rest /\ UNCHANGED lost
(* 413: sessions and counts are absorbed before the batch is measured; any    *)
(* status below 500 but 429 is an answer, and it names no refused event.      *)
TooLarge(t) ==
  /\ Sending(t) /\ Len(task[t].events) > MaxBatch
  /\ stored' = Absorbed(t) /\ told' = told \cup task[t].told
  /\ lost' = Blame(lost, ToSet(task[t].events) \ stored, "turned away") /\ Done(t)
  /\ Rest /\ UNCHANGED dropped
TurnedAway(t) ==
  /\ Sending(t)
  /\ lost' = Blame(lost, (ToSet(task[t].events) \cup task[t].sessions \cup task[t].told)
                           \ stored, "turned away")
  /\ Done(t) /\ Rest /\ UNCHANGED <<dropped, server>>
(* No answer: the server may have absorbed the batch, and stored a part of it. *)
Unanswered(t, reached) ==
  /\ Sending(t)
  /\ \/ reached = {} /\ UNCHANGED server
     \/ stored' = Absorbed(t) \cup reached /\ told' = told \cup task[t].told
  /\ task' = [task EXCEPT ![t] = Retried(t)]
  /\ Rest /\ UNCHANGED <<dropped, lost>>

-----------------------------------------------------------------------------
(* persist, and with it the end of flush.                                     *)
Storing(t, phase) == task[t] # None /\ task[t].phase = phase
Abandoned(t) == (task[t].sessions \cup task[t].told) \ (stored \cup told)
NoStorage(t) ==
  /\ Storing(t, "storage") /\ (storage = "none" \/ task[t].events = <<>>)
  /\ dropped' = dropped \cup ToSet(task[t].events)
  /\ lost' = Blame(lost, Abandoned(t), "batch") /\ Done(t)
  /\ Rest /\ UNCHANGED server
GetPending(t) ==
  /\ Storing(t, "storage") /\ storage # "none" /\ task[t].events # <<>>
  /\ \E prev \in {pending} \cup IF storage = "silent" THEN {<<>>} ELSE {} :
       task' = [task EXCEPT ![t].phase = "write", ![t].prev = prev]
  /\ Rest /\ UNCHANGED <<dropped, server, lost>>
All(t) == task[t].prev \o task[t].events
Merged(t) == Newest(All(t), MaxPersisted)
Cut(t) == ToSet(All(t)) \ ToSet(Merged(t))
(* What another flush stored since this one read is overwritten.              *)
SetPending(t) ==
  /\ Storing(t, "write")
  /\ pending' = Merged(t) /\ dropped' = dropped \cup Cut(t)
  /\ lost' = Blame(Blame(lost, Abandoned(t), "batch"),
                   ToSet(pending) \ ToSet(task[t].prev), "overwritten")
  /\ Done(t) /\ UNCHANGED <<storage, launch, started, timer, made, queue, sessions, drain, server>>
(* A full storage: React Native's throws, the others say nothing.             *)
SetFails(t) ==
  /\ Storing(t, "write")
  /\ IF storage = "throws"
     THEN dropped' = dropped \cup Cut(t) \cup ToSet(task[t].events)
          /\ lost' = Blame(lost, Abandoned(t), "batch")
     ELSE dropped' = dropped \cup Cut(t)
          /\ lost' = Blame(Blame(lost, Abandoned(t), "batch"), ToSet(task[t].events), "unkept")
  /\ Done(t) /\ Rest /\ UNCHANGED server

-----------------------------------------------------------------------------
(* init: startTransport, then drainOfflineQueue, which removes what it read   *)
(* before it sends it.                                                        *)
Start ==
  /\ ~started /\ started' = TRUE
  /\ drain' = IF storage = "none" THEN None ELSE [phase |-> "read", raw |-> <<>>]
  /\ UNCHANGED <<storage, launch, timer, made, queue, sessions, dropped, task, pending,
                 server, lost>>
Draining(phase) == drain # None /\ drain.phase = phase
DrainRead ==
  /\ Draining("read")
  /\ drain' = IF pending = <<>> THEN None ELSE [phase |-> "remove", raw |-> pending]
  /\ UNCHANGED <<storage, launch, started, timer, made, queue, sessions, dropped, task,
                 pending, server, lost>>
DrainRemove ==
  /\ Draining("remove")
  /\ pending' = <<>> /\ drain' = [drain EXCEPT !.phase = "send"]
  /\ lost' = Blame(lost, ToSet(pending) \ ToSet(drain.raw), "overwritten")
  /\ UNCHANGED <<storage, launch, started, timer, made, queue, sessions, dropped, task, server>>
DrainSend ==
  /\ Draining("send") /\ drain' = None
  /\ Flush(queue \o drain.raw, sessions, dropped) /\ timer' = FALSE
  /\ UNCHANGED <<storage, launch, started, made, pending, server, lost>>

(* The app is killed: only its storage survives.                              *)
Removed == IF drain # None /\ drain.phase = "send" THEN ToSet(drain.raw) ELSE {}
InMemory ==
  ToSet(queue) \cup sessions \cup dropped \cup Removed
    \cup UNION {ToSet(task[t].events) \cup task[t].sessions \cup task[t].told : t \in Task \ Free}
Kill ==
  /\ launch < MaxLaunch /\ launch' = launch + 1
  /\ started' = FALSE /\ timer' = FALSE /\ drain' = None
  /\ lost' = Blame(lost, InMemory \ (stored \cup told \cup ToSet(pending)), "killed")
  /\ queue' = <<>> /\ sessions' = {} /\ dropped' = {} /\ task' = [t \in Task |-> None]
  /\ UNCHANGED <<storage, made, pending, server>>

Next ==
  \/ \E e \in Event : Enqueue(e)
  \/ \E s \in Session : QueueSession(s)
  \/ Tick \/ Start \/ DrainRead \/ DrainRemove \/ DrainSend \/ Kill
  \/ \E t \in Task :
       \/ \E some \in SUBSET (IF Sending(t) THEN ToSet(task[t].events) ELSE {}) :
            Answered(t, some \ stored) \/ Unanswered(t, some)
       \/ TooLarge(t) \/ TurnedAway(t)
       \/ NoStorage(t) \/ GetPending(t) \/ SetPending(t) \/ SetFails(t)
Spec == Init /\ [][Next]_vars

-----------------------------------------------------------------------------
TypeOK ==
  /\ storage \in Stores /\ launch \in 1..MaxLaunch /\ {started, timer} \subseteq BOOLEAN
  /\ made \subseteq Event \cup Session /\ ToSet(queue) \subseteq Event
  /\ sessions \subseteq Session /\ dropped \cup told \subseteq Event
  /\ Len(pending) <= MaxPersisted /\ ToSet(pending) \subseteq Event
  /\ stored \subseteq made
  /\ \A t \in Task : task[t] # None => task[t].phase \in {"send", "storage", "write"}

(* "Count a loss.  Silence here is what makes a dropped event                 *)
(* indistinguishable from an idle client" (transport.ts:95).  Whatever the    *)
(* transport was given is at the server, on its way, stored for the next      *)
(* launch or counted, but for the ways of losing it that the code knows: the  *)
(* end of the process, an answer that is not one, storage that swallows a     *)
(* write, two users of the storage at once, and, of a batch given up, its     *)
(* sessions and its count.                                                    *)
Waiting(i) ==
  \/ i \in ToSet(queue) \cup sessions \cup ToSet(pending) \cup Removed
  \/ \E t \in Task \ Free : i \in ToSet(task[t].events) \cup task[t].sessions
Counted(i) == i \in dropped \cup told \/ \E t \in Task \ Free : i \in task[t].told
=============================================================================
