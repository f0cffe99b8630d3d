---------------------------- MODULE DeliveryProofs ----------------------------
(***************************************************************************)
(* What the services guarantee that watch a deployment and send messages   *)
(* about it, proved for any checks, events, devices and workers.  They     *)
(* share no state: each has its own variables, and its theorems are about  *)
(* the behaviours of its own specification:                                *)
(*                                                                         *)
(*   Log      DeliveryLog           what a send is reported to have done   *)
(*   Vendors  VendorTokens          the tokens that the push vendors issue *)
(*   Checks   MonitorChecks         monitors, their results and incidents  *)
(*   Web      WebChecks             web checks, their runs and incidents   *)
(*   Notices  NotificationDelivery  notifications, and where they are sent *)
(*   Audience PushAudience          who is previewed, and who is sent to   *)
(*   Keys     PushCredentials       credentials, and what probes said      *)
(*   Fleet    PushDispatch          a dispatch to the devices of a project *)
(***************************************************************************)
EXTENDS Integers, FiniteSets, Sequences, FiniteSetTheorems, WellFoundedInduction, TLAPS

CONSTANTS None, Gone, Worker, User, Command, Device, Credential, Threshold, MaxVersion,
          MaxGeneration,
          Row, Dedup, Caller, MaxRetries,                                \* DeliveryLog
          Vendor, Account, CacheSize, MaxTime, MaxMinted,                \* VendorTokens
          Life, Kept, Margin, Early, Timeout,
          Monitor, MaxProbes,                                            \* MonitorChecks
          Check, Project, Home, MaxPending, MaxLive, MaxRuns,            \* WebChecks
          Event, Kind, Webhook, Tracker, Mailbox, Legacy, MaxAttempt,    \* NotificationDelivery
          Key, Call, MaxTargets, MaxPreviews,                            \* PushAudience
          Probed, Prober, MaxCredentials,                                 \* PushCredentials
          KindOf, Wired, Dispatch, MaxSends                              \* PushDispatch
VARIABLES log, call, asked, took,                                        \* DeliveryLog
          time, cache, doing, minted, refused,                           \* VendorTokens
          monitor, samples, told, cycle, probes, generation,             \* MonitorChecks
          check, runs, notified, fence, paused, round,                   \* WebChecks
          event, delivery, config, owner, muted, receipt, work, mode,    \* NotificationDelivery
          era, backup, spare,
          device, fits, preview, sends, answered, console, period,       \* PushAudience
          phase, copy, taken, got,
          credential, probe, replies, answers,                           \* PushCredentials
          tokens, vault, spent, dispatch, reached, condemned             \* PushDispatch

Log == INSTANCE DeliveryLog WITH Key <- Dedup
Vendors == INSTANCE VendorTokens WITH Capacity <- CacheSize, clock <- time
Checks == INSTANCE MonitorChecks WITH work <- cycle
Web == INSTANCE WebChecks WITH told <- notified, generation <- round
Notices == INSTANCE NotificationDelivery WITH generation <- era
Audience == INSTANCE PushAudience WITH receipt <- answered, generation <- period, row <- sends,
                                       mode <- phase, backup <- copy
Keys == INSTANCE PushCredentials WITH Probe <- Prober, receipt <- replies
Fleet == INSTANCE PushDispatch WITH token <- tokens, credential <- vault, accepted <- reached,
                                    Max <- MaxSends

\* An instance has a Cardinality of its own, which is that of FiniteSets.
LEMMA VendorsCounts == \A S : Vendors!Cardinality(S) = Cardinality(S)
  BY DEF Vendors!Cardinality, Cardinality
LEMMA WebCounts == \A S : Web!Cardinality(S) = Cardinality(S)
  BY DEF Web!Cardinality, Cardinality
LEMMA AudienceCounts == \A S : Audience!Cardinality(S) = Cardinality(S)
  BY DEF Audience!Cardinality, Cardinality
LEMMA KeysCounts == \A S : Keys!Cardinality(S) = Cardinality(S)
  BY DEF Keys!Cardinality, Cardinality
LEMMA FleetCounts == \A S : Fleet!Cardinality(S) = Cardinality(S)
  BY DEF Fleet!Cardinality, Cardinality

(***************************************************************************)
(* DeliveryLog.  A call that has written its row sends at most once: the   *)
(* sends of a row and the calls that are about to send are no more than    *)
(* its retries and the one dispatch.                                       *)
(***************************************************************************)
LogRow == [key : Dedup \cup {None}, status : Log!Statuses, retries : 0 .. MaxRetries]
CallRow == [row : Row, at : {"written", "found", "accepted", "rejected"} \cup Log!Ends]

\* A process has finitely many calls under way, and no row is none.
LogGiven ==
  /\ MaxRetries \in Nat /\ IsFiniteSet(Caller)
  /\ None \notin LogRow /\ None \notin CallRow

\* A call is about a row that is there.
CallsHaveRows == \A c \in Caller : call[c] # None => Log!Exists(call[c].row)

\* The calls that are about to send.
Senders(r) == {c \in Caller : Log!At(c, "written") /\ call[c].row = r}
SendsInBudget == \A r \in Row :
  asked[r] + Cardinality(Senders(r)) <= IF Log!Exists(r) THEN log[r].retries + 1 ELSE 0

\* An answer of the transport that is not written yet.
AcceptedWasTaken == \A c \in Caller : Log!At(c, "accepted") => took[call[c].row] > 0

LogIInv ==
  /\ Log!TypeOK /\ CallsHaveRows /\ SendsInBudget /\ Log!OneRowPerKey
  /\ AcceptedWasTaken /\ Log!DeliveredWasTaken

-----------------------------------------------------------------------------
LEMMA LogInit == ASSUME LogGiven PROVE Log!Init => LogIInv
<1> SUFFICES ASSUME Log!Init PROVE LogIInv
  OBVIOUS
<1>1. \A r \in Row : Senders(r) = {}
  BY DEF Log!Init, Log!Idle, Senders, Log!At
<1>2. SendsInBudget
  BY <1>1, FS_EmptySet DEF SendsInBudget, Log!Init, Log!Exists
<1>3. Log!TypeOK /\ CallsHaveRows /\ Log!OneRowPerKey /\ AcceptedWasTaken /\ Log!DeliveredWasTaken
  BY DEF Log!Init, Log!Idle, Log!TypeOK, CallsHaveRows, Log!OneRowPerKey, AcceptedWasTaken,
         Log!DeliveredWasTaken,
         Log!Exists, Log!At
<1> QED
  BY <1>2, <1>3 DEF LogIInv

\* A call that moves becomes a row of its own; the other calls stay as they were.
LEMMA LogMoves ==
  ASSUME LogGiven, Log!TypeOK, NEW c \in Caller, NEW r \in Row,
         NEW step \in {"written", "found", "accepted", "rejected"} \cup Log!Ends,
         Log!Moves(c, r, step)
  PROVE  /\ call'[c] # None /\ call'[c].row = r /\ call'[c].at = step
         /\ call'[c] \in CallRow
         /\ \A d \in Caller \ {c} : call'[d] = call[d]
         /\ call' \in [Caller -> {None} \cup CallRow]
<1>1. [row |-> r, at |-> step] \in CallRow
  BY DEF CallRow
<1> QED
  BY <1>1 DEF LogGiven, Log!TypeOK, Log!Moves, CallRow

\* What a step does to the calls and to the rows.
LEMMA LogTypeStep ==
  ASSUME LogGiven, Log!TypeOK, CallsHaveRows, [Log!Next]_(Log!vars)
  PROVE Log!TypeOK' /\ CallsHaveRows'
<1> USE DEF LogGiven
<1>1. CASE UNCHANGED Log!vars
  BY <1>1 DEF Log!vars, Log!TypeOK, CallsHaveRows, Log!Exists
<1>2. ASSUME NEW c \in Caller, NEW r \in Row, NEW key \in Dedup \cup {None}, Log!Insert(c, r, key)
      PROVE Log!TypeOK' /\ CallsHaveRows'
  <2>1. [key |-> key, status |-> "pending", retries |-> 0] \in LogRow
    BY DEF LogRow, Log!Statuses
  <2>2. log' \in [Row -> {None} \cup LogRow] /\ log'[r] # None
        /\ \A s \in Row \ {r} : log'[s] = log[s]
    BY <1>2, <2>1 DEF Log!Insert, Log!TypeOK, LogRow
  <2> QED
    BY <1>2, <2>2, LogMoves DEF Log!Insert, Log!TypeOK, CallsHaveRows, Log!Exists, LogRow, CallRow
<1>3. ASSUME NEW c \in Caller, NEW key \in Dedup \cup {None}, Log!Deduplicated(c, key)
      PROVE Log!TypeOK' /\ CallsHaveRows'
  <2>1. PICK r \in Row : Log!Exists(r) /\ Log!Moves(c, r, "deduplicated")
    BY <1>3 DEF Log!Deduplicated
  <2> QED
    BY <1>3, <2>1, LogMoves DEF Log!Deduplicated, Log!TypeOK, CallsHaveRows, Log!Exists, Log!Ends,
         CallRow
<1>4. ASSUME NEW c \in Caller, NEW r \in Row, Log!Find(c, r) PROVE Log!TypeOK' /\ CallsHaveRows'
  <2>1. PICK step \in {"delivered", "found"} : Log!Moves(c, r, step)
    BY <1>4, SMTT(30) DEF Log!Find
  <2> QED
    BY <1>4, <2>1, LogMoves, SMTT(30) DEF Log!Find, Log!TypeOK, CallsHaveRows, Log!Exists,
        Log!Ends, CallRow
<1>5. ASSUME NEW c \in Caller, Log!Bump(c) PROVE Log!TypeOK' /\ CallsHaveRows'
  <2> DEFINE r == call[c].row
  <2>1. r \in Row /\ Log!Exists(r) /\ log[r] \in LogRow
    BY <1>5 DEF Log!Bump, Log!At, Log!TypeOK, CallsHaveRows, CallRow, LogRow, Log!Exists
  <2>2. log[r].retries + 1 \in 0 .. MaxRetries
    BY <1>5, <2>1 DEF Log!Bump, LogRow
  <2>3. [[log[r] EXCEPT !.retries = @ + 1] EXCEPT !.status = "pending"] \in LogRow
    BY <2>1, <2>2 DEF LogRow, Log!Statuses
  <2>4. log' \in [Row -> {None} \cup LogRow] /\ log'[r] # None
        /\ \A s \in Row \ {r} : log'[s] = log[s]
    BY <1>5, <2>1, <2>2 DEF Log!Bump, Log!TypeOK, LogRow, Log!Statuses
  <2>5. Log!Moves(c, r, "written")
    BY <1>5 DEF Log!Bump
  <2> QED
    BY <1>5, <2>1, <2>4, <2>5, LogMoves, SMTT(30) DEF Log!Bump, Log!TypeOK, CallsHaveRows,
        Log!Exists, LogRow, CallRow
<1>6. ASSUME NEW c \in Caller, NEW accepted \in BOOLEAN, Log!Send(c, accepted)
      PROVE Log!TypeOK' /\ CallsHaveRows'
  <2> DEFINE r == call[c].row
  <2>1. r \in Row /\ Log!Exists(r)
    BY <1>6 DEF Log!Send, Log!At, Log!TypeOK, CallsHaveRows, CallRow
  <2>2. PICK step \in {"accepted", "rejected"} : Log!Moves(c, r, step)
    BY <1>6 DEF Log!Send
  <2>3. asked' \in [Row -> Nat]
    BY <1>6, <2>1 DEF Log!Send, Log!TypeOK
  <2>4. took' \in [Row -> Nat]
    BY <1>6, <2>1 DEF Log!Send, Log!TypeOK
  <2> QED
    BY <1>6, <2>1, <2>2, <2>3, <2>4, LogMoves DEF Log!Send, Log!TypeOK, CallsHaveRows, Log!Exists,
         CallRow
<1>7. ASSUME NEW c \in Caller, Log!Mark(c) PROVE Log!TypeOK' /\ CallsHaveRows'
  <2> DEFINE r == call[c].row
  <2>1. r \in Row /\ Log!Exists(r) /\ log[r] \in LogRow
    BY <1>7 DEF Log!Mark, Log!At, Log!TypeOK, CallsHaveRows, CallRow, LogRow, Log!Exists
  <2>2. PICK step \in {"delivered", "failed"} :
          Log!Moves(c, r, step) /\ log' = [log EXCEPT ![r].status = step]
    BY <1>7 DEF Log!Mark
  <2>3. [log[r] EXCEPT !.status = step] \in LogRow
    BY <2>1 DEF LogRow, Log!Statuses
  <2>4. log' \in [Row -> {None} \cup LogRow] /\ log'[r] # None
        /\ \A s \in Row \ {r} : log'[s] = log[s]
    BY <2>1, <2>2, <2>3 DEF Log!TypeOK, LogRow
  <2> QED
    BY <1>7, <2>1, <2>2, <2>4, LogMoves DEF Log!Mark, Log!TypeOK, CallsHaveRows, Log!Exists, LogRow,
         CallRow, Log!Ends
<1>8. ASSUME NEW c \in Caller, Log!Crash(c) PROVE Log!TypeOK' /\ CallsHaveRows'
  <2>1. call[c].row \in Row /\ Log!Exists(call[c].row)
    BY <1>8 DEF Log!Crash, Log!TypeOK, CallsHaveRows, CallRow
  <2> QED
    BY <1>8, <2>1, LogMoves, SMTT(30) DEF Log!Crash, Log!TypeOK, CallsHaveRows, Log!Exists,
        CallRow, Log!Ends
<1> QED
  BY <1>1, <1>2, <1>3, <1>4, <1>5, <1>6, <1>7, <1>8 DEF Log!Next

-----------------------------------------------------------------------------
\* A step about one call, as the budget sees it: who is about to send.
LEMMA SendersAfter ==
  ASSUME LogGiven, Log!TypeOK, NEW c \in Caller, NEW r \in Row,
         NEW step \in {"written", "found", "accepted", "rejected"} \cup Log!Ends,
         Log!Moves(c, r, step)
  PROVE  /\ \A s \in Row : Senders(s)' = IF step = "written" /\ s = r THEN Senders(s) \cup {c}
                                         ELSE Senders(s) \ {c}
<1>1. /\ call'[c] # None /\ call'[c].row = r /\ call'[c].at = step
      /\ \A d \in Caller \ {c} : call'[d] = call[d]
  BY LogMoves
<1> QED
  BY <1>1 DEF Senders, Log!At

LEMMA SendersCount ==
  ASSUME LogGiven, NEW r \in Row, NEW c \in Caller
  PROVE  /\ Cardinality(Senders(r)) \in Nat
         /\ Cardinality(Senders(r) \ {c}) = Cardinality(Senders(r))
              - (IF c \in Senders(r) THEN 1 ELSE 0)
         /\ c \notin Senders(r) => Cardinality(Senders(r) \cup {c}) = Cardinality(Senders(r)) + 1
<1>1. IsFiniteSet(Senders(r))
  BY FS_Subset DEF LogGiven, Senders
<1> QED
  BY <1>1, FS_CardinalityType, FS_AddElement, FS_RemoveElement

\* One send was counted for each dispatch and each retry.
LEMMA BudgetStep == ASSUME LogGiven, Log!TypeOK, CallsHaveRows, SendsInBudget, [Log!Next]_(Log!vars)
                    PROVE SendsInBudget'
<1> USE DEF LogGiven
<1>1. CASE UNCHANGED Log!vars
  BY <1>1 DEF Log!vars, SendsInBudget, Senders, Log!At, Log!Exists
<1>2. ASSUME NEW c \in Caller, NEW r \in Row, NEW key \in Dedup \cup {None}, Log!Insert(c, r, key)
      PROVE SendsInBudget'
  <2> SUFFICES ASSUME NEW s \in Row
               PROVE  asked'[s] + Cardinality(Senders(s)')
                        <= IF Log!Exists(s)' THEN log'[s].retries + 1 ELSE 0
    BY DEF SendsInBudget
  <2>1. c \notin Senders(s)
    BY <1>2 DEF Log!Insert, Senders, Log!At
  <2>2. Senders(s)' = IF s = r THEN Senders(s) \cup {c} ELSE Senders(s) \ {c}
    BY <1>2, SendersAfter DEF Log!Insert
  <2>3. asked' = asked /\ (s # r => log'[s] = log[s])
        /\ log'[r] = [key |-> key, status |-> "pending", retries |-> 0]
    BY <1>2 DEF Log!Insert, Log!TypeOK
  <2>4. [key |-> key, status |-> "pending", retries |-> 0] \in LogRow
    BY DEF LogRow, Log!Statuses
  <2>5. log'[r] # None /\ log'[r].retries = 0
    BY <2>3, <2>4
  <2>6. asked[s] \in Nat
        /\ asked[s] + Cardinality(Senders(s)) <= IF Log!Exists(s) THEN log[s].retries + 1 ELSE 0
    BY DEF Log!TypeOK, SendsInBudget
  <2>7. CASE s = r
    <3>1. ~Log!Exists(s)
      BY <1>2, <2>7 DEF Log!Insert
    <3>2. Log!Exists(s)' /\ log'[s].retries = 0
      BY <2>5, <2>7 DEF Log!Exists
    <3> HIDE DEF Log!Exists
    <3> QED
      BY <2>1, <2>2, <2>3, <2>6, <2>7, <3>1, <3>2, SendersCount
  <2>8. CASE s # r
    <3>1. (Log!Exists(s)' <=> Log!Exists(s)) /\ log'[s] = log[s]
      BY <2>3, <2>8 DEF Log!Exists
    <3> HIDE DEF Log!Exists
    <3> QED
      BY <2>1, <2>2, <2>3, <2>6, <2>8, <3>1, SendersCount
  <2> QED
    BY <2>7, <2>8
<1>3. ASSUME NEW c \in Caller, NEW r \in Row,
             NEW step \in {"found", "accepted", "rejected"} \cup Log!Ends, Log!Moves(c, r, step),
             \A s \in Row : (Log!Exists(s)' <=> Log!Exists(s))
                            /\ (Log!Exists(s) => log'[s].retries = log[s].retries),
             \A s \in Row : asked'[s] = asked[s]
                \/ (c \in Senders(s) /\ asked'[s] = asked[s] + 1)
      PROVE SendsInBudget'
  <2> SUFFICES ASSUME NEW s \in Row
               PROVE  asked'[s] + Cardinality(Senders(s)')
                        <= IF Log!Exists(s)' THEN log'[s].retries + 1 ELSE 0
    BY DEF SendsInBudget
  <2>1. Senders(s)' = Senders(s) \ {c}
    BY <1>3, SendersAfter DEF Log!Ends
  <2>2. asked[s] \in Nat
        /\ asked[s] + Cardinality(Senders(s)) <= IF Log!Exists(s) THEN log[s].retries + 1 ELSE 0
    BY DEF Log!TypeOK, SendsInBudget
  <2> DEFINE n == IF Log!Exists(s) THEN log[s].retries + 1 ELSE 0
             m == IF Log!Exists(s)' THEN log'[s].retries + 1 ELSE 0
  <2>3. m = n
    BY <1>3
  <2>4. /\ Cardinality(Senders(s)) \in Nat
        /\ Cardinality(Senders(s) \ {c})
             = Cardinality(Senders(s)) - (IF c \in Senders(s) THEN 1 ELSE 0)
    BY SendersCount
  <2>5. asked'[s] = asked[s] \/ (c \in Senders(s) /\ asked'[s] = asked[s] + 1)
    BY <1>3
  <2>6. n \in Int
    <3>1. Log!Exists(s) => log[s].retries \in Nat
      BY DEF Log!TypeOK, Log!Exists
    <3> QED
      BY <3>1
  <2> HIDE DEF m, n
  <2>7. asked[s] + Cardinality(Senders(s)) <= n
    BY <2>2 DEF n
  <2>8. asked'[s] + Cardinality(Senders(s)') <= m
    BY <2>1, <2>2, <2>3, <2>4, <2>5, <2>6, <2>7
  <2> QED
    BY <2>8 DEF m
<1>4. ASSUME NEW c \in Caller, NEW key \in Dedup \cup {None}, Log!Deduplicated(c, key)
      PROVE  SendsInBudget'
  <2>1. PICK r \in Row : Log!Moves(c, r, "deduplicated")
    BY <1>4 DEF Log!Deduplicated
  <2> QED
    <3>1. "deduplicated" \in {"found", "accepted", "rejected"} \cup Log!Ends
      BY DEF Log!Ends
    <3>2. \A s \in Row : (Log!Exists(s)' <=> Log!Exists(s))
                         /\ (Log!Exists(s) => log'[s].retries = log[s].retries)
      BY <1>4 DEF Log!Deduplicated, Log!Exists
    <3>3. asked' = asked
      BY <1>4 DEF Log!Deduplicated
    <3> QED
      BY <1>3, <2>1, <3>1, <3>2, <3>3
<1>5. ASSUME NEW c \in Caller, NEW r \in Row, Log!Find(c, r) PROVE SendsInBudget'
  <2>1. PICK step \in {"delivered", "found"} : Log!Moves(c, r, step)
    BY <1>5 DEF Log!Find
  <2> QED
    <3>1. step \in {"found", "accepted", "rejected"} \cup Log!Ends
      BY DEF Log!Ends
    <3>2. \A s \in Row : (Log!Exists(s)' <=> Log!Exists(s))
                         /\ (Log!Exists(s) => log'[s].retries = log[s].retries)
      BY <1>5 DEF Log!Find, Log!Exists
    <3>3. asked' = asked
      BY <1>5 DEF Log!Find
    <3> QED
      BY <1>3, <2>1, <3>1, <3>2, <3>3
<1>6. ASSUME NEW c \in Caller, Log!Bump(c) PROVE SendsInBudget'
  <2> SUFFICES ASSUME NEW s \in Row
               PROVE  asked'[s] + Cardinality(Senders(s)')
                        <= IF Log!Exists(s)' THEN log'[s].retries + 1 ELSE 0
    BY DEF SendsInBudget
  <2> DEFINE r == call[c].row
  <2>1. r \in Row /\ Log!Exists(r) /\ log[r] \in LogRow
    BY <1>6 DEF Log!Bump, Log!At, Log!TypeOK, CallsHaveRows, CallRow, LogRow, Log!Exists
  <2>2. c \notin Senders(s)
    BY <1>6 DEF Log!Bump, Senders, Log!At
  <2>3. Senders(s)' = IF s = r THEN Senders(s) \cup {c} ELSE Senders(s) \ {c}
    BY <1>6, <2>1, SendersAfter DEF Log!Bump
  <2>4. asked' = asked /\ (s # r => log'[s] = log[s])
    BY <1>6 DEF Log!Bump, Log!TypeOK
  <2>5. log'[r] = [log[r] EXCEPT !.retries = @ + 1, !.status = "pending"]
    BY <1>6, <2>1 DEF Log!Bump, Log!TypeOK
  <2>6. log[r].retries \in Nat /\ log[r].retries + 1 \in 0 .. MaxRetries
    BY <1>6, <2>1 DEF Log!Bump, LogRow
  <2>7. log'[r].retries = log[r].retries + 1 /\ log'[r] \in LogRow
    BY <2>1, <2>5, <2>6 DEF LogRow, Log!Statuses
  <2>8. asked[s] \in Nat
        /\ asked[s] + Cardinality(Senders(s)) <= IF Log!Exists(s) THEN log[s].retries + 1 ELSE 0
    BY DEF Log!TypeOK, SendsInBudget
  <2>9. CASE s = r
    <3>1. Log!Exists(s) /\ Log!Exists(s)' /\ log'[s].retries = log[s].retries + 1
          /\ log[s].retries \in Nat
      BY <2>1, <2>6, <2>7, <2>9 DEF Log!Exists
    <3> HIDE DEF Log!Exists, r
    <3> QED
      BY <2>2, <2>3, <2>4, <2>8, <2>9, <3>1, SendersCount
  <2>10. CASE s # r
    <3>1. (Log!Exists(s)' <=> Log!Exists(s)) /\ log'[s] = log[s]
      BY <2>4, <2>10 DEF Log!Exists
    <3> HIDE DEF Log!Exists, r
    <3> QED
      BY <2>2, <2>3, <2>4, <2>8, <2>10, <3>1, SendersCount
  <2> QED
    BY <2>9, <2>10
<1>7. ASSUME NEW c \in Caller, NEW accepted \in BOOLEAN, Log!Send(c, accepted) PROVE SendsInBudget'
  <2> DEFINE r == call[c].row
  <2>1. r \in Row
    BY <1>7 DEF Log!Send, Log!At, Log!TypeOK, CallRow
  <2>2. PICK step \in {"accepted", "rejected"} : Log!Moves(c, r, step)
    BY <1>7 DEF Log!Send
  <2>3. c \in Senders(r)
    BY <1>7 DEF Log!Send, Senders
  <2>4. \A s \in Row : asked'[s] = asked[s] \/ (c \in Senders(s) /\ asked'[s] = asked[s] + 1)
    <3>1. asked' = [asked EXCEPT ![r] = @ + 1] /\ asked \in [Row -> Nat]
      BY <1>7 DEF Log!Send, Log!TypeOK
    <3> HIDE DEF r
    <3> QED
      BY <2>1, <2>3, <3>1
  <2> QED
    BY <1>3, <1>7, <2>1, <2>2, <2>4 DEF Log!Send, Log!Exists
<1>8. ASSUME NEW c \in Caller, Log!Mark(c) PROVE SendsInBudget'
  <2> DEFINE r == call[c].row
  <2>1. r \in Row /\ Log!Exists(r) /\ log[r] \in LogRow
    BY <1>8 DEF Log!Mark, Log!At, Log!TypeOK, CallsHaveRows, CallRow, LogRow, Log!Exists
  <2>2. PICK step \in {"delivered", "failed"} :
          Log!Moves(c, r, step) /\ log' = [log EXCEPT ![r].status = step]
    BY <1>8 DEF Log!Mark
  <2>3. [log[r] EXCEPT !.status = step] \in LogRow
        /\ [log[r] EXCEPT !.status = step].retries = log[r].retries
    BY <2>1 DEF LogRow, Log!Statuses
  <2>4. log'[r] # None /\ log'[r].retries = log[r].retries /\ \A s \in Row \ {r} : log'[s] = log[s]
    BY <2>1, <2>2, <2>3 DEF Log!TypeOK
  <2>5. \A s \in Row : (Log!Exists(s)' <=> Log!Exists(s))
                       /\ (Log!Exists(s) => log'[s].retries = log[s].retries)
    BY <2>1, <2>4 DEF Log!Exists
  <2>6. asked' = asked
    BY <1>8 DEF Log!Mark
  <2> QED
    <3>1. step \in {"found", "accepted", "rejected"} \cup Log!Ends
      BY DEF Log!Ends
    <3> QED
      BY <1>3, <2>1, <2>2, <2>5, <2>6, <3>1
<1>9. ASSUME NEW c \in Caller, Log!Crash(c) PROVE SendsInBudget'
  <2>1. call[c].row \in Row
    BY <1>9 DEF Log!Crash, Log!TypeOK, CallRow
  <2> QED
    <3>1. "failed" \in {"found", "accepted", "rejected"} \cup Log!Ends
      BY DEF Log!Ends
    <3>2. \A s \in Row : (Log!Exists(s)' <=> Log!Exists(s))
                         /\ (Log!Exists(s) => log'[s].retries = log[s].retries)
      BY <1>9 DEF Log!Crash, Log!Exists
    <3>3. asked' = asked /\ Log!Moves(c, call[c].row, "failed")
      BY <1>9 DEF Log!Crash
    <3> QED
      BY <1>3, <2>1, <3>1, <3>2, <3>3
<1> QED
  BY <1>1, <1>2, <1>4, <1>5, <1>6, <1>7, <1>8, <1>9 DEF Log!Next

-----------------------------------------------------------------------------
\* A row keeps its key, and a new one has a key that no row has.
LEMMA KeysStep ==
  ASSUME LogGiven, Log!TypeOK, CallsHaveRows, Log!OneRowPerKey, [Log!Next]_(Log!vars)
  PROVE Log!OneRowPerKey'
<1> USE DEF LogGiven
<1>1. ASSUME \A s \in Row : (Log!Exists(s)' <=> Log!Exists(s))
                            /\ (Log!Exists(s) => log'[s].key = log[s].key)
      PROVE Log!OneRowPerKey'
  BY <1>1 DEF Log!OneRowPerKey
<1>2. CASE UNCHANGED log
  BY <1>1, <1>2 DEF Log!Exists
<1>3. ASSUME NEW c \in Caller, NEW r \in Row, NEW key \in Dedup \cup {None}, Log!Insert(c, r, key)
      PROVE Log!OneRowPerKey'
  <2>1. log'[r].key = key /\ \A s \in Row \ {r} : log'[s] = log[s]
    BY <1>3 DEF Log!Insert, Log!TypeOK
  <2>2. key # None => \A s \in Row : Log!Exists(s) => log[s].key # key
    BY <1>3 DEF Log!Insert, Log!Taken
  <2> QED
    BY <2>1, <2>2 DEF Log!OneRowPerKey, Log!Exists
<1>4. ASSUME NEW c \in Caller, Log!Bump(c) PROVE Log!OneRowPerKey'
  <2> DEFINE r == call[c].row
  <2>1. r \in Row /\ Log!Exists(r) /\ log[r] \in LogRow
    BY <1>4 DEF Log!Bump, Log!At, Log!TypeOK, CallsHaveRows, CallRow, LogRow, Log!Exists
  <2>2. log[r].retries + 1 \in 0 .. MaxRetries
    BY <1>4, <2>1 DEF Log!Bump, LogRow
  <2>3. log'[r] = [log[r] EXCEPT !.retries = @ + 1, !.status = "pending"]
        /\ \A s \in Row \ {r} : log'[s] = log[s]
    BY <1>4, <2>1 DEF Log!Bump, Log!TypeOK
  <2>4. log'[r].key = log[r].key /\ log'[r] \in LogRow
    BY <2>1, <2>2, <2>3 DEF LogRow, Log!Statuses
  <2> QED
    BY <1>1, <2>1, <2>3, <2>4 DEF Log!Exists
<1>5. ASSUME NEW c \in Caller, Log!Mark(c) PROVE Log!OneRowPerKey'
  <2> DEFINE r == call[c].row
  <2>1. r \in Row /\ Log!Exists(r) /\ log[r] \in LogRow
    BY <1>5 DEF Log!Mark, Log!At, Log!TypeOK, CallsHaveRows, CallRow, LogRow, Log!Exists
  <2>2. PICK step \in {"delivered", "failed"} : log' = [log EXCEPT ![r].status = step]
    BY <1>5 DEF Log!Mark
  <2>3. log'[r] = [log[r] EXCEPT !.status = step] /\ \A s \in Row \ {r} : log'[s] = log[s]
    BY <2>1, <2>2 DEF Log!TypeOK
  <2>4. log'[r].key = log[r].key /\ log'[r] \in LogRow
    BY <2>1, <2>3 DEF LogRow, Log!Statuses
  <2> QED
    BY <1>1, <2>1, <2>3, <2>4 DEF Log!Exists
<1> QED
  BY <1>2, <1>3, <1>4, <1>5 DEF Log!Next, Log!vars, Log!Deduplicated, Log!Find, Log!Send, Log!Crash

\* "Delivered" is written, and told, only of what the transport accepted.
LEMMA TakenStep ==
  ASSUME LogGiven, Log!TypeOK, CallsHaveRows, AcceptedWasTaken, Log!DeliveredWasTaken,
         [Log!Next]_(Log!vars)
  PROVE  AcceptedWasTaken' /\ Log!DeliveredWasTaken'
<1> USE DEF LogGiven
<1>1. CASE UNCHANGED Log!vars
  BY <1>1 DEF Log!vars, AcceptedWasTaken, Log!DeliveredWasTaken, Log!At, Log!Exists
<1>2. ASSUME NEW c \in Caller, NEW r \in Row,
             NEW step \in {"written", "found", "accepted", "rejected"} \cup Log!Ends,
             Log!Moves(c, r, step),
             \A s \in Row : took[s] > 0 => took'[s] > 0,
             step \in {"accepted", "delivered"} => took'[r] > 0,
             \A s \in Row : log'[s] # None /\ log'[s].status = "delivered" =>
                 took'[s] > 0 \/ (log[s] # None /\ log[s].status = "delivered")
      PROVE AcceptedWasTaken' /\ Log!DeliveredWasTaken'
  <2>1. /\ call'[c] # None /\ call'[c].row = r /\ call'[c].at = step
        /\ \A d \in Caller \ {c} : call'[d] = call[d]
    BY <1>2, LogMoves
  <2>2. \A d \in Caller : call[d] # None => call[d].row \in Row
    BY DEF Log!TypeOK, CallRow
  <2> QED
    BY <1>2, <2>1, <2>2 DEF AcceptedWasTaken, Log!DeliveredWasTaken, Log!At, Log!Exists
<1>3. ASSUME NEW c \in Caller, NEW r \in Row, NEW key \in Dedup \cup {None}, Log!Insert(c, r, key)
      PROVE AcceptedWasTaken' /\ Log!DeliveredWasTaken'
  <2>1. log'[r].status = "pending" /\ \A s \in Row \ {r} : log'[s] = log[s]
    BY <1>3 DEF Log!Insert, Log!TypeOK
  <2> QED
    BY <1>2, <1>3, <2>1 DEF Log!Insert
<1>4. ASSUME NEW c \in Caller, NEW key \in Dedup \cup {None}, Log!Deduplicated(c, key)
      PROVE AcceptedWasTaken' /\ Log!DeliveredWasTaken'
  <2>1. PICK r \in Row : Log!Moves(c, r, "deduplicated")
    BY <1>4 DEF Log!Deduplicated
  <2> QED
    BY <1>2, <1>4, <2>1 DEF Log!Deduplicated, Log!Ends
<1>5. ASSUME NEW c \in Caller, NEW r \in Row, Log!Find(c, r)
      PROVE  AcceptedWasTaken' /\ Log!DeliveredWasTaken'
  <2>1. PICK step \in {"delivered", "found"} :
          Log!Moves(c, r, step) /\ (step = "delivered" => log[r].status = "delivered")
    BY <1>5 DEF Log!Find
  <2>2. step = "delivered" => took[r] > 0
    BY <1>5, <2>1 DEF Log!Find, Log!DeliveredWasTaken
  <2> QED
    BY <1>2, <1>5, <2>1, <2>2 DEF Log!Find, Log!Ends
<1>6. ASSUME NEW c \in Caller, Log!Bump(c) PROVE AcceptedWasTaken' /\ Log!DeliveredWasTaken'
  <2> DEFINE r == call[c].row
  <2>1. r \in Row /\ Log!Exists(r) /\ log[r] \in LogRow
    BY <1>6 DEF Log!Bump, Log!At, Log!TypeOK, CallsHaveRows, CallRow, LogRow, Log!Exists
  <2>3. log'[r] = [log[r] EXCEPT !.retries = @ + 1, !.status = "pending"]
        /\ \A s \in Row \ {r} : log'[s] = log[s]
    BY <1>6, <2>1 DEF Log!Bump, Log!TypeOK
  <2>4. log'[r].status = "pending"
    BY <2>1, <2>3 DEF LogRow
  <2> QED
    BY <1>2, <1>6, <2>1, <2>3, <2>4 DEF Log!Bump
<1>7. ASSUME NEW c \in Caller, NEW accepted \in BOOLEAN, Log!Send(c, accepted)
      PROVE AcceptedWasTaken' /\ Log!DeliveredWasTaken'
  <2> DEFINE r == call[c].row
  <2>1. r \in Row
    BY <1>7 DEF Log!Send, Log!At, Log!TypeOK, CallRow
  <2>2. \A s \in Row : took[s] \in Nat
    BY DEF Log!TypeOK
  <2>3. CASE accepted
    <3>1. Log!Moves(c, r, "accepted") /\ took' = [took EXCEPT ![r] = @ + 1] /\ log' = log
      BY <1>7, <2>3 DEF Log!Send
    <3>2. took'[r] > 0 /\ \A s \in Row : took[s] > 0 => took'[s] > 0
      BY <2>1, <2>2, <3>1 DEF Log!TypeOK
    <3> QED
      BY <1>2, <2>1, <3>1, <3>2
  <2>4. CASE ~accepted
    BY <1>2, <1>7, <2>1, <2>4 DEF Log!Send
  <2> QED
    BY <2>3, <2>4
<1>8. ASSUME NEW c \in Caller, Log!Mark(c) PROVE AcceptedWasTaken' /\ Log!DeliveredWasTaken'
  <2> DEFINE r == call[c].row
  <2>1. r \in Row /\ Log!Exists(r) /\ log[r] \in LogRow
    BY <1>8 DEF Log!Mark, Log!At, Log!TypeOK, CallsHaveRows, CallRow, LogRow, Log!Exists
  <2>2. PICK step \in {"delivered", "failed"} :
          /\ Log!Moves(c, r, step) /\ log' = [log EXCEPT ![r].status = step]
          /\ step = "delivered" => Log!At(c, "accepted")
    BY <1>8 DEF Log!Mark
  <2>3. log'[r] = [log[r] EXCEPT !.status = step] /\ \A s \in Row \ {r} : log'[s] = log[s]
    BY <2>1, <2>2 DEF Log!TypeOK
  <2>4. log'[r].status = step
    BY <2>1, <2>3 DEF LogRow
  <2>5. took' = took /\ (step = "delivered" => took[r] > 0)
    BY <1>8, <2>2 DEF Log!Mark, AcceptedWasTaken
  <2> QED
    <3>1. step \in {"written", "found", "accepted", "rejected"} \cup Log!Ends
      BY DEF Log!Ends
    <3>2. step \in {"accepted", "delivered"} => took'[r] > 0
      BY <2>2, <2>5
    <3>3. \A s \in Row : took[s] > 0 => took'[s] > 0
      BY <2>5
    <3>4. \A s \in Row : log'[s] # None /\ log'[s].status = "delivered" =>
                 took'[s] > 0 \/ (log[s] # None /\ log[s].status = "delivered")
      BY <2>1, <2>3, <2>4, <2>5
    <3> QED
      BY <1>2, <2>1, <2>2, <3>1, <3>2, <3>3, <3>4
<1>9. ASSUME NEW c \in Caller, Log!Crash(c) PROVE AcceptedWasTaken' /\ Log!DeliveredWasTaken'
  <2>1. call[c].row \in Row
    BY <1>9 DEF Log!Crash, Log!TypeOK, CallRow
  <2> QED
    BY <1>2, <1>9, <2>1 DEF Log!Crash, Log!Ends
<1> QED
  BY <1>1, <1>3, <1>4, <1>5, <1>6, <1>7, <1>8, <1>9 DEF Log!Next

-----------------------------------------------------------------------------
LEMMA LogInvariant == ASSUME LogGiven PROVE Log!Spec => []LogIInv
<1>1. LogIInv /\ [Log!Next]_(Log!vars) => LogIInv'
  BY LogTypeStep, BudgetStep, KeysStep, TakenStep DEF LogIInv
<1> QED
  BY <1>1, LogInit, PTL DEF Log!Spec

\* The transport is called once for a dispatch and once for each retry that its row
\* counts, whatever retries race one another; a key has one row (service.rs:79).
THEOREM SendsCounted ==
  ASSUME LogGiven
  PROVE Log!Spec => [](Log!SendsAreCounted /\ Log!OneRowPerKey)
<1>1. ASSUME LogIInv PROVE Log!SendsAreCounted /\ Log!OneRowPerKey
  <2> SUFFICES ASSUME NEW r \in Row
               PROVE  asked[r] <= IF Log!Exists(r) THEN log[r].retries + 1 ELSE 0
    BY <1>1 DEF Log!SendsAreCounted, LogIInv
  <2>1. asked[r] \in Nat /\ (Log!Exists(r) => log[r].retries \in Nat)
        /\ asked[r] + Cardinality(Senders(r)) <= IF Log!Exists(r) THEN log[r].retries + 1 ELSE 0
    BY <1>1 DEF LogIInv, Log!TypeOK, SendsInBudget, Log!Exists
  <2>2. Cardinality(Senders(r)) \in Nat
    <3>1. IsFiniteSet(Senders(r))
      BY FS_Subset DEF LogGiven, Senders
    <3> QED
      BY <3>1, FS_CardinalityType
  <2> HIDE DEF Log!Exists
  <2> QED
    BY <2>1, <2>2
<1> QED
  BY <1>1, LogInvariant, PTL

\* What the log or a caller calls delivered was accepted by the transport.
THEOREM DeliveredTaken == ASSUME LogGiven PROVE Log!Spec => []Log!DeliveredWasTaken
<1>1. LogIInv => Log!DeliveredWasTaken
  BY DEF LogIInv
<1> QED
  BY <1>1, LogInvariant, PTL

(***************************************************************************)
(* VendorTokens.                                                           *)
(***************************************************************************)
Stub == [token : Vendors!Tokens, until : Nat]
Minting == [at : {"minting"}, cred : Credential, since : Nat]
VendorsRequest == [at : {"sending"}, cred : Credential, token : Vendors!Tokens,
                   cached : BOOLEAN, since : Nat]

\* A token that the adapters' cache gives has its margin; it was stored, and is sent,
\* within the timeout of a request each. The FCM cache stops early enough for both.
VendorGiven ==
  /\ Life \in Nat /\ Kept \in Nat /\ Margin \in Nat /\ Early \in Nat /\ Timeout \in Nat
  /\ CacheSize \in Nat \ {0} /\ Early <= Life
  /\ Kept + 2 * Timeout <= Life + Margin
  /\ 2 * Timeout <= Early /\ 2 * Timeout < Life

Calls == {Vendors!Idle} \cup Minting \cup VendorsRequest

\* What a cache holds was stored within a timeout of its birth, for its own account.
YoungStub(s, k, e) ==
  /\ e.until <= e.token.born + Timeout + (IF s = "fcm" THEN Life - Early ELSE Kept)
  /\ s = "fcm" => e.token.of = k
  /\ s = "adapters" => k \in Credential /\ e.token.of = Account[k]
EntriesAreYoung == \A s \in Vendors!Store : \A k \in DOMAIN cache[s] : YoungStub(s, k, cache[s][k])

\* No request outlives its timeout. A send begins with a token that outlives it; one that
\* was minted here is as old as the send.
YoungCall(r) ==
  /\ r.at # "idle" => r.since <= time /\ time <= r.since + Timeout
  /\ r.at = "sending" =>
       /\ r.since + Timeout < r.token.born + Life
       /\ r.token.of = Account[r.cred]
       /\ ~r.cached /\ Vendor[r.cred] = "apns" => r.token.born = r.since
CallsAreYoung == \A w \in Worker : YoungCall(doing[w])

CachesFit == \A s \in Vendors!Store :
  IsFiniteSet(DOMAIN cache[s]) /\ Cardinality(DOMAIN cache[s]) <= CacheSize

\* Tokens are numbered as they are minted.
NumbersArePast ==
  /\ \A s \in Vendors!Store : \A k \in DOMAIN cache[s] : cache[s][k].token.no < minted
  /\ \A w \in Vendors!OnTheWay : doing[w].token.no < minted
  /\ \A x \in refused : x.no < minted

\* A key has its token alone, a cached one is that of its credential, and one that was
\* minted for a send under way is nowhere else.
Apns(w) == w \in Vendors!OnTheWay /\ Vendor[doing[w].cred] = "apns"
KeysApart == \A k, j \in DOMAIN cache["adapters"] :
  cache["adapters"][k].token.no = cache["adapters"][j].token.no => k = j
CachedIsOfKey == \A w \in Worker : Apns(w) /\ doing[w].cached =>
  \A k \in DOMAIN cache["adapters"] :
    cache["adapters"][k].token.no = doing[w].token.no => k = doing[w].cred
FreshIsAlone == \A w \in Worker : Apns(w) /\ ~doing[w].cached =>
  /\ \A s \in Vendors!Store : \A k \in DOMAIN cache[s] : cache[s][k].token.no # doing[w].token.no
  /\ \A x \in refused : x.no # doing[w].token.no
  /\ \A v \in Vendors!OnTheWay : doing[v].token.no = doing[w].token.no => v = w
RefusedAreOut == \A k \in DOMAIN cache["adapters"] : \A x \in refused :
  x.no # cache["adapters"][k].token.no

Numbered == NumbersArePast /\ KeysApart /\ CachedIsOfKey /\ FreshIsAlone /\ RefusedAreOut
Aged == EntriesAreYoung /\ CallsAreYoung
VendorIInv == Vendors!TypeOK /\ Aged /\ CachesFit /\ Numbered

-----------------------------------------------------------------------------
LEMMA VendorInit == ASSUME VendorGiven PROVE Vendors!Init => VendorIInv
<1> SUFFICES ASSUME Vendors!Init PROVE VendorIInv
  OBVIOUS
<1>1. cache = [s \in Vendors!Store |-> <<>>] /\ DOMAIN <<>> = {} /\ time = 0 /\ minted = 0
      /\ refused = {}
      /\ doing = [w \in Worker |-> Vendors!Idle]
  BY DEF Vendors!Init
<1>2. \A s \in Vendors!Store : DOMAIN cache[s] = {}
  BY <1>1
<1>3. \A w \in Worker : doing[w].at = "idle" /\ w \notin Vendors!OnTheWay
  BY <1>1 DEF Vendors!Idle, Vendors!OnTheWay
<1>4. Vendors!TypeOK
  BY <1>1, <1>2 DEF Vendors!TypeOK
<1>5. Aged
  BY <1>2, <1>3 DEF Aged, EntriesAreYoung, CallsAreYoung, YoungCall
<1>6. CachesFit
  BY <1>2, FS_EmptySet DEF CachesFit, VendorGiven
<1>7. Numbered
  BY <1>1, <1>2, <1>3 DEF Numbered, NumbersArePast, KeysApart, CachedIsOfKey, FreshIsAlone,
       RefusedAreOut,
     Apns, Vendors!OnTheWay, Vendors!Store
<1> QED
  BY <1>4, <1>5, <1>6, <1>7 DEF VendorIInv

-----------------------------------------------------------------------------
(* What the steps do, as the invariant sees them.                           *)

\* What a cache holds was there before, or is the entry e that was put under k.
VendorsKeeps(x, j) == j \in DOMAIN cache[x] /\ cache'[x][j] = cache[x][j]
Puts(s, k, e) ==
  /\ DOMAIN cache' = Vendors!Store
  /\ \A x \in Vendors!Store : \A j \in DOMAIN cache'[x] :
       \/ x = s /\ j = k /\ cache'[x][j] = e
       \/ VendorsKeeps(x, j)
Shrinks ==
  DOMAIN cache' = Vendors!Store
  /\ \A x \in Vendors!Store : \A j \in DOMAIN cache'[x] : VendorsKeeps(x, j)

\* A worker's send becomes r; the others go on as they were.
Becomes(w, r) == doing' = [doing EXCEPT ![w] = r]
LEMMA Becoming ==
  ASSUME Vendors!TypeOK, NEW w \in Worker, NEW r \in Calls, Becomes(w, r)
  PROVE  /\ doing'[w] = r /\ \A v \in Worker \ {w} : doing'[v] = doing[v]
         /\ doing' \in [Worker -> Calls]
  BY DEF Becomes, Vendors!TypeOK, Calls, Minting, VendorsRequest

\* The kinds of a call are told apart by what they wait for.
LEMMA VendorsKinds ==
  ASSUME NEW r \in Calls
  PROVE  /\ r.at = "idle" <=> r = Vendors!Idle
         /\ r.at = "minting" <=> r \in Minting
         /\ r.at = "sending" <=> r \in VendorsRequest
  BY DEF Calls, Minting, VendorsRequest, Vendors!Idle

LEMMA WithPuts ==
  ASSUME VendorGiven, DOMAIN cache = Vendors!Store, CachesFit, NEW s \in Vendors!Store,
         NEW ks \in SUBSET DOMAIN cache[s], NEW k,
         NEW token, NEW ttl, Vendors!With(s, ks, k, token, ttl)
  PROVE  Puts(s, k, [token |-> token, until |-> time + ttl]) /\ CachesFit'
<1> DEFINE e == [token |-> token, until |-> time + ttl]
           f == [j \in Vendors!Room(ks) \cup {k} |-> IF j = k THEN e ELSE cache[s][j]]
<1>1. cache' = [cache EXCEPT ![s] = f]
  BY DEF Vendors!With
<1>2. DOMAIN f = Vendors!Room(ks) \cup {k}
      /\ \A j \in Vendors!Room(ks) \cup {k} : f[j] = IF j = k THEN e ELSE cache[s][j]
  OBVIOUS
<1>3. Vendors!Room(ks) \subseteq DOMAIN cache[s]
  BY DEF Vendors!Room
<1> HIDE DEF f, e
<1>4. cache'[s] = f /\ DOMAIN cache' = Vendors!Store
      /\ \A x \in Vendors!Store \ {s} : cache'[x] = cache[x]
  BY <1>1
<1>5. Puts(s, k, e)
  BY <1>2, <1>3, <1>4 DEF Puts, VendorsKeeps
<1>6. IsFiniteSet(Vendors!Room(ks) \cup {k}) /\ Cardinality(Vendors!Room(ks) \cup {k}) <= CacheSize
  <2>1. IsFiniteSet(ks) /\ Cardinality(ks) \in Nat
    BY FS_Subset, FS_CardinalityType DEF CachesFit
  <2>2. IsFiniteSet(Vendors!Room(ks)) /\ Cardinality(Vendors!Room(ks)) \in Nat
        /\ Cardinality(Vendors!Room(ks)) < CacheSize
    <3>1. CASE Cardinality(ks) >= CacheSize
      BY <3>1, FS_EmptySet, VendorsCounts DEF Vendors!Room, VendorGiven
    <3>2. CASE ~(Cardinality(ks) >= CacheSize)
      BY <2>1, <3>2, VendorsCounts DEF Vendors!Room, VendorGiven
    <3> QED
      BY <3>1, <3>2
  <2>3. Cardinality(Vendors!Room(ks) \cup {k})
          \in {Cardinality(Vendors!Room(ks)), Cardinality(Vendors!Room(ks)) + 1}
        /\ IsFiniteSet(Vendors!Room(ks) \cup {k})
    BY <2>2, FS_AddElement
  <2> QED
    BY <2>2, <2>3 DEF VendorGiven
<1>7. CachesFit'
  BY <1>2, <1>4, <1>6 DEF CachesFit
<1> QED
  BY <1>5, <1>7 DEF e

LEMMA RemoveShrinks ==
  ASSUME DOMAIN cache = Vendors!Store, CachesFit, NEW k, Vendors!Remove(k), VendorGiven
  PROVE  Shrinks /\ CachesFit' /\ k \notin DOMAIN cache'["adapters"]
<1> DEFINE f == [j \in DOMAIN cache["adapters"] \ {k} |-> cache["adapters"][j]]
<1>1. cache' = [cache EXCEPT !["adapters"] = f]
  BY DEF Vendors!Remove
<1>2. DOMAIN f = DOMAIN cache["adapters"] \ {k}
      /\ \A j \in DOMAIN cache["adapters"] \ {k} : f[j] = cache["adapters"][j]
  OBVIOUS
<1> HIDE DEF f
<1>3. cache'["adapters"] = f /\ DOMAIN cache' = Vendors!Store
      /\ \A x \in Vendors!Store \ {"adapters"} : cache'[x] = cache[x]
  BY <1>1 DEF Vendors!Store
<1>4. Shrinks
  BY <1>2, <1>3 DEF Shrinks, VendorsKeeps
<1>5. "adapters" \in Vendors!Store
  BY DEF Vendors!Store
<1>6. IsFiniteSet(DOMAIN f) /\ Cardinality(DOMAIN f) <= CacheSize
  <2>1. IsFiniteSet(DOMAIN cache["adapters"]) /\ Cardinality(DOMAIN cache["adapters"]) <= CacheSize
    BY <1>5 DEF CachesFit
  <2>2. IsFiniteSet(DOMAIN f) /\ Cardinality(DOMAIN f) <= Cardinality(DOMAIN cache["adapters"])
    BY <1>2, <2>1, FS_Subset
  <2>3. Cardinality(DOMAIN f) \in Nat /\ Cardinality(DOMAIN cache["adapters"]) \in Nat
    BY <2>1, <2>2, FS_CardinalityType
  <2> QED
    BY <2>1, <2>2, <2>3 DEF VendorGiven
<1>7. CachesFit'
  BY <1>3, <1>6 DEF CachesFit
<1> QED
  BY <1>2, <1>3, <1>4, <1>7

LEMMA NoChange ==
  ASSUME DOMAIN cache = Vendors!Store, cache' = cache
  PROVE  Shrinks
  BY DEF Shrinks, VendorsKeeps

-----------------------------------------------------------------------------
(* Types and ages.                                                          *)
LEMMA AgedAfter ==
  ASSUME VendorGiven, Vendors!TypeOK, Aged, time' = time, minted' \in Nat,
         refused' \subseteq Vendors!Tokens,
         NEW w \in Worker, NEW r \in Calls, Becomes(w, r), YoungCall(r),
         Shrinks \/ \E s \in Vendors!Store, e \in Stub : \E k : Puts(s, k, e) /\ YoungStub(s, k, e)
  PROVE  Vendors!TypeOK' /\ Aged'
<1>1. /\ doing'[w] = r /\ \A v \in Worker \ {w} : doing'[v] = doing[v]
      /\ doing' \in [Worker -> Calls]
  BY Becoming
<1>2. \A q : YoungCall(q)' <=> YoungCall(q)
  BY DEF YoungCall
<1>3. CallsAreYoung'
  <2>1. \A v \in Worker : YoungCall(doing'[v])
    BY <1>1 DEF Aged, CallsAreYoung
  <2> QED
    BY <2>1 DEF CallsAreYoung, YoungCall
<1>4. DOMAIN cache' = Vendors!Store /\ \A s \in Vendors!Store : \A k \in DOMAIN cache'[s] :
         cache'[s][k] \in Stub /\ YoungStub(s, k, cache'[s][k])
  <2>1. CASE Shrinks
    BY <2>1 DEF Shrinks, VendorsKeeps, Vendors!TypeOK, Stub, Aged, EntriesAreYoung
  <2>2. ASSUME NEW x \in Vendors!Store, NEW j, NEW e \in Stub, Puts(x, j, e), YoungStub(x, j, e)
        PROVE  DOMAIN cache' = Vendors!Store /\ \A s \in Vendors!Store : \A k \in DOMAIN cache'[s] :
                 cache'[s][k] \in Stub /\ YoungStub(s, k, cache'[s][k])
    <3>1. DOMAIN cache' = Vendors!Store
      BY <2>2 DEF Puts
    <3>2. ASSUME NEW s \in Vendors!Store, NEW k \in DOMAIN cache'[s]
          PROVE  cache'[s][k] \in Stub /\ YoungStub(s, k, cache'[s][k])
      <4>1. (s = x /\ k = j /\ cache'[s][k] = e) \/ VendorsKeeps(s, k)
        BY <2>2, <3>2 DEF Puts
      <4>2. CASE VendorsKeeps(s, k)
        BY <4>2 DEF VendorsKeeps, Vendors!TypeOK, Stub, Aged, EntriesAreYoung
      <4> QED
        BY <2>2, <4>1, <4>2
    <3> QED
      BY <3>1, <3>2
  <2> QED
    BY <2>1, <2>2
<1>5. EntriesAreYoung'
  BY <1>4 DEF EntriesAreYoung, YoungStub
<1>6. Vendors!TypeOK'
  BY <1>1, <1>4 DEF Vendors!TypeOK, Stub, Calls, Minting, VendorsRequest
<1> QED
  BY <1>3, <1>5, <1>6 DEF Aged

\* A new token, its send, and its entry in a cache.
LEMMA NewSend ==
  ASSUME VendorGiven, Vendors!TypeOK, NEW c \in Credential, NEW t \in 0 .. time,
         time <= t + Timeout,
         Vendor[c] = "apns" => t = time
  PROVE  /\ Vendors!Minted(c, t) \in Vendors!Tokens /\ Vendors!Minted(c, t).of = Account[c]
            /\ Vendors!Minted(c, t).born = t
         /\ Vendors!Minted(c, t).no = minted
         /\ Vendors!Sending(c, Vendors!Minted(c, t), FALSE) \in VendorsRequest
         /\ YoungCall(Vendors!Sending(c, Vendors!Minted(c, t), FALSE))
         /\ Vendors!Sending(c, Vendors!Minted(c, t), FALSE).token = Vendors!Minted(c, t)
         /\ Vendors!Sending(c, Vendors!Minted(c, t), FALSE).cred = c
         /\ ~Vendors!Sending(c, Vendors!Minted(c, t), FALSE).cached
<1>1. time \in Nat /\ minted \in Nat /\ t \in Nat
  BY DEF Vendors!TypeOK
<1>2. Vendors!Minted(c, t) \in Vendors!Tokens /\ Vendors!Minted(c, t).of = Account[c]
      /\ Vendors!Minted(c, t).born = t
      /\ Vendors!Minted(c, t).no = minted
  BY <1>1 DEF Vendors!Minted, Vendors!Tokens
<1> HIDE DEF Vendors!Minted
<1>3. Vendors!Sending(c, Vendors!Minted(c, t), FALSE) \in VendorsRequest
  BY <1>1, <1>2 DEF Vendors!Sending, VendorsRequest
<1>4. time + Timeout < t + Life
  BY <1>1 DEF VendorGiven
<1>5. time <= time + Timeout
  BY <1>1 DEF VendorGiven
<1>6. YoungCall(Vendors!Sending(c, Vendors!Minted(c, t), FALSE))
  BY <1>1, <1>2, <1>4, <1>5 DEF YoungCall, Vendors!Sending
<1> QED
  BY <1>2, <1>3, <1>6 DEF Vendors!Sending

LEMMA NewStub ==
  ASSUME VendorGiven, Vendors!TypeOK, NEW s \in Vendors!Store, NEW token \in Vendors!Tokens, NEW k,
         time <= token.born + Timeout,
         s = "fcm" => token.of = k,
         s = "adapters" => k \in Credential /\ token.of = Account[k],
         NEW ttl, ttl = IF s = "fcm" THEN Life - Early ELSE Kept
  PROVE  LET e == [token |-> token, until |-> time + ttl] IN e \in Stub /\ YoungStub(s, k, e)
<1> DEFINE e == [token |-> token, until |-> time + ttl]
<1>1. time \in Nat /\ token.born \in Nat /\ ttl \in Nat
  BY DEF Vendors!TypeOK, Vendors!Tokens, VendorGiven
<1>2. e \in Stub /\ e.token = token /\ e.until = time + ttl
  BY <1>1 DEF Stub
<1> HIDE DEF e
<1>3. YoungStub(s, k, e)
  BY <1>1, <1>2 DEF YoungStub, VendorGiven
<1> QED
  BY <1>2, <1>3 DEF e

LEMMA IdleIsYoung == Vendors!Idle \in Calls /\ YoungCall(Vendors!Idle)
  BY DEF Vendors!Idle, Calls, YoungCall

\* Every step but the clock's makes one call something else.
LEMMA AgedSteps ==
  ASSUME VendorGiven, Vendors!TypeOK, Aged, CachesFit, [Vendors!Next]_(Vendors!vars)
  PROVE  Vendors!TypeOK' /\ Aged'
<1> USE DEF Becomes
<1>0. time \in Nat /\ minted \in Nat /\ DOMAIN cache = Vendors!Store /\ "fcm" \in Vendors!Store
      /\ "adapters" \in Vendors!Store
      /\ refused \subseteq Vendors!Tokens /\ (Vendors!Mint => minted' \in Nat)
  BY DEF Vendors!TypeOK, Vendors!Store, Vendors!Mint
<1>a. \A w \in Worker : doing[w] \in Calls /\ YoungCall(doing[w])
  BY DEF Vendors!TypeOK, Calls, Minting, VendorsRequest, Aged, CallsAreYoung
<1>1. ASSUME NEW w \in Worker, NEW c \in Credential, Vendors!TakeCached(w, c)
      PROVE  Vendors!TypeOK' /\ Aged'
  <2> DEFINE s == IF Vendor[c] = "fcm" THEN "fcm" ELSE "adapters"
             e == cache[s][Vendors!Key(c)]
             r == Vendors!Sending(c, e.token, TRUE)
  <2>1. s \in Vendors!Store /\ Vendors!Key(c) \in DOMAIN cache[s]
        /\ (s = "fcm" <=> Vendor[c] = "fcm")
        /\ (s = "fcm" => Vendors!Key(c) = Account[c] /\ e.until > time)
        /\ (s # "fcm" => s = "adapters" /\ Vendors!Key(c) = c /\ e.until > time + Margin)
    BY <1>0, <1>1 DEF Vendors!TakeCached, Vendors!Fresh, Vendors!Get, Vendors!CachedToken,
         Vendors!Key
  <2>2. Becomes(w, r) /\ time' = time /\ cache' = cache /\ minted' = minted /\ refused' = refused
    BY <1>1 DEF Vendors!TakeCached
  <2>3. YoungStub(s, Vendors!Key(c), e) /\ e \in Stub
    BY <2>1 DEF Aged, EntriesAreYoung, Vendors!TypeOK, Stub
  <2> HIDE DEF s
  <2>4. e.token \in Vendors!Tokens /\ e.token.born \in Nat /\ e.until \in Nat
    BY <2>3 DEF Stub, Vendors!Tokens
  <2>5. e.token.of = Account[c]
    BY <2>1, <2>3 DEF YoungStub
  <2>6. time + Timeout < e.token.born + Life
    <3>1. CASE s = "fcm"
      BY <1>0, <2>1, <2>3, <2>4, <3>1 DEF YoungStub, VendorGiven
    <3>2. CASE s # "fcm"
      BY <1>0, <2>1, <2>3, <2>4, <3>2 DEF YoungStub, VendorGiven
    <3> QED
      BY <3>1, <3>2
  <2> HIDE DEF e
  <2>7. r \in Calls
    BY <1>0, <2>4 DEF Calls, VendorsRequest, Vendors!Sending
  <2>8. YoungCall(r)
    BY <1>0, <2>5, <2>6 DEF YoungCall, Vendors!Sending, VendorGiven
  <2> HIDE DEF r
  <2>9. Shrinks
    BY <1>0, <2>2, NoChange
  <2> QED
    BY <1>0, <2>2, <2>7, <2>8, <2>9, AgedAfter
<1>2. ASSUME NEW w \in Worker, NEW c \in Credential, Vendors!MintHere(w, c)
      PROVE  Vendors!TypeOK' /\ Aged'
  <2> DEFINE r == Vendors!Sending(c, Vendors!Minted(c, time), FALSE)
  <2>1. Becomes(w, r) /\ time' = time /\ cache' = cache /\ refused' = refused /\ minted' \in Nat
    BY <1>0, <1>2 DEF Vendors!MintHere
  <2>2. time \in 0 .. time /\ time <= time + Timeout
    BY <1>0 DEF VendorGiven
  <2>3. r \in Calls /\ YoungCall(r)
    BY <2>2, NewSend DEF Calls
  <2> HIDE DEF r
  <2> QED
    BY <1>0, <2>1, <2>3, NoChange, AgedAfter
<1>3. ASSUME NEW w \in Worker, NEW c \in Credential, Vendors!AskForToken(w, c)
      PROVE  Vendors!TypeOK' /\ Aged'
  <2> DEFINE r == [at |-> "minting", cred |-> c, since |-> time]
  <2>1. Becomes(w, r) /\ time' = time /\ cache' = cache /\ refused' = refused /\ minted' \in Nat
    BY <1>0, <1>3 DEF Vendors!AskForToken
  <2>2. r \in Calls
    BY <1>0 DEF Calls, Minting
  <2>3. YoungCall(r)
    BY <1>0 DEF YoungCall, VendorGiven
  <2> HIDE DEF r
  <2> QED
    BY <1>0, <2>1, <2>2, <2>3, NoChange, AgedAfter
<1>4. ASSUME NEW w \in Worker, NEW c \in Credential, NEW t \in 0 .. time,
             Vendors!HuaweiToken(w, c, t) \/ Vendors!GoogleToken(w, c, t)
      PROVE  Vendors!TypeOK' /\ Aged'
  <2> DEFINE r == Vendors!Sending(c, Vendors!Minted(c, t), FALSE)
             s == IF Vendor[c] = "fcm" THEN "fcm" ELSE "adapters"
             ttl == IF s = "fcm" THEN Life - Early ELSE Kept
             ks == IF Vendor[c] = "fcm" THEN Vendors!Live("fcm") \ {Vendors!Key(c)}
                   ELSE Vendors!Live("adapters")
             e == [token |-> Vendors!Minted(c, t), until |-> time + ttl]
  <2>1. Vendors!TokenComes(w, c, t)
        /\ Vendors!With(s, ks, Vendors!Key(c), Vendors!Minted(c, t), ttl)
           /\ Vendor[c] \in {"hcm", "fcm"}
    BY <1>4 DEF Vendors!HuaweiToken, Vendors!GoogleToken, Vendors!Put, Vendors!StoreToken,
         Vendors!Key
  <2>2. s \in Vendors!Store /\ ks \in SUBSET DOMAIN cache[s]
        /\ (s = "fcm" => Vendors!Key(c) = Account[c]) /\ (s = "adapters" => Vendors!Key(c) = c)
    BY <1>0 DEF Vendors!Live, Vendors!Key
  <2>3. Becomes(w, r) /\ time' = time /\ refused' = refused /\ minted' \in Nat
    BY <1>0, <2>1 DEF Vendors!TokenComes
  <2>4. time <= t + Timeout
    <3>1. doing[w].at = "minting" /\ t \in doing[w].since .. time
      BY <2>1 DEF Vendors!TokenComes
    <3>2. doing[w].since \in Nat /\ time <= doing[w].since + Timeout
      BY <1>a, <3>1, VendorsKinds DEF YoungCall, Minting
    <3> QED
      BY <1>0, <3>1, <3>2 DEF VendorGiven
  <2>5. Vendor[c] # "apns"
    BY <2>1
  <2>6. r \in Calls /\ YoungCall(r) /\ Vendors!Minted(c, t) \in Vendors!Tokens
        /\ Vendors!Minted(c, t).of = Account[c]
        /\ Vendors!Minted(c, t).born = t
    <3>1. Vendor[c] = "apns" => t = time
      BY <2>5
    <3> HIDE DEF s, ttl, ks, e
    <3>2. /\ r \in VendorsRequest /\ YoungCall(r) /\ Vendors!Minted(c, t) \in Vendors!Tokens
          /\ Vendors!Minted(c, t).of = Account[c]
          /\ Vendors!Minted(c, t).born = t
      BY <2>4, <3>1, NewSend
    <3> HIDE DEF r
    <3> QED
      BY <3>2 DEF Calls
  <2> HIDE DEF r, s, ks
  <2>7. Puts(s, Vendors!Key(c), e)
    BY <1>0, <2>1, <2>2, WithPuts
  <2>8. e \in Stub /\ YoungStub(s, Vendors!Key(c), e)
    BY <2>2, <2>4, <2>6, NewStub
  <2> HIDE DEF e
  <2> QED
    BY <1>0, <2>2, <2>3, <2>6, <2>7, <2>8, AgedAfter
<1>5. ASSUME NEW w \in Worker, Vendors!Fails(w)
      PROVE  Vendors!TypeOK' /\ Aged'
  BY <1>0, <1>5, IdleIsYoung, NoChange, AgedAfter DEF Vendors!Fails
<1>6. ASSUME NEW w \in Worker, Vendors!Accepted(w)
      PROVE  Vendors!TypeOK' /\ Aged'
  <2> DEFINE c == doing[w].cred
             token == doing[w].token
             e == [token |-> token, until |-> time + Kept]
  <2>1. Becomes(w, Vendors!Idle) /\ time' = time /\ refused' = refused /\ minted' = minted
        /\ doing[w].at = "sending"
    BY <1>6 DEF Vendors!Accepted
  <2>2. doing[w] \in VendorsRequest /\ YoungCall(doing[w])
    BY <1>a, <2>1, VendorsKinds
  <2>3. CASE cache' = cache
    BY <1>0, <2>1, <2>3, IdleIsYoung, NoChange, AgedAfter
  <2>4. CASE Vendor[c] = "apns" /\ ~doing[w].cached /\ Vendors!Put(c, token)
    <3>1. Vendors!With("adapters", Vendors!Live("adapters"), c, token, Kept)
          /\ Vendors!Live("adapters") \in SUBSET DOMAIN cache["adapters"]
      BY <2>4 DEF Vendors!Put, Vendors!Live
    <3>2. token \in Vendors!Tokens /\ c \in Credential /\ token.of = Account[c]
          /\ time <= token.born + Timeout
      BY <2>1, <2>2, <2>4 DEF VendorsRequest, YoungCall
    <3> HIDE DEF c, token
    <3>3. Puts("adapters", c, e)
      BY <1>0, <3>1, WithPuts
    <3>4. e \in Stub /\ YoungStub("adapters", c, e)
      <4>1. Kept = IF "adapters" = "fcm" THEN Life - Early ELSE Kept
        OBVIOUS
      <4> QED
        BY <1>0, <3>2, <4>1, NewStub
    <3> HIDE DEF e
    <3> QED
      BY <1>0, <2>1, <3>3, <3>4, IdleIsYoung, AgedAfter
  <2> QED
    BY <1>6, <2>3, <2>4 DEF Vendors!Accepted
<1>7. ASSUME NEW w \in Worker, Vendors!SaidExpired(w)
      PROVE  Vendors!TypeOK' /\ Aged'
  <2>1. Becomes(w, Vendors!Idle) /\ time' = time /\ minted' = minted /\ doing[w].at = "sending"
    BY <1>7 DEF Vendors!SaidExpired
  <2>2. doing[w] \in VendorsRequest
    BY <1>a, <2>1, VendorsKinds
  <2>3. refused' \subseteq Vendors!Tokens
    BY <1>0, <1>7, <2>2 DEF Vendors!SaidExpired, VendorsRequest
  <2>4. Shrinks
    BY <1>0, <1>7, NoChange, RemoveShrinks DEF Vendors!SaidExpired
  <2> QED
    BY <1>0, <2>1, <2>3, <2>4, IdleIsYoung, AgedAfter
<1>8. ASSUME Vendors!Tick PROVE Vendors!TypeOK' /\ Aged'
  <2>1. time' = time + 1 /\ cache' = cache /\ doing' = doing /\ minted' = minted
        /\ refused' = refused
        /\ \A w \in Worker : doing[w] # Vendors!Idle => time < doing[w].since + Timeout
    BY <1>8 DEF Vendors!Tick
  <2>2. Vendors!TypeOK'
    BY <1>0, <2>1 DEF Vendors!TypeOK
  <2>3. EntriesAreYoung'
    BY <2>1 DEF Aged, EntriesAreYoung, YoungStub
  <2>4. ASSUME NEW w \in Worker PROVE YoungCall(doing[w])'
    <3>1. doing[w].at # "idle" => doing[w].since \in Nat /\ doing[w] # Vendors!Idle
      BY <1>a DEF Calls, Minting, VendorsRequest, Vendors!Idle
    <3>2. YoungCall(doing[w])
      BY <1>a
    <3> QED
      BY <1>0, <2>1, <3>1, <3>2 DEF YoungCall, VendorGiven
  <2>5. CallsAreYoung'
    BY <2>1, <2>4 DEF CallsAreYoung
  <2> QED
    BY <2>2, <2>3, <2>5 DEF Aged
<1>9. CASE UNCHANGED Vendors!vars
  BY <1>9 DEF Vendors!vars, Vendors!TypeOK, Aged, EntriesAreYoung, CallsAreYoung, YoungStub,
       YoungCall, Vendors!OnTheWay
<1> QED
  BY <1>1, <1>2, <1>3, <1>4, <1>5, <1>6, <1>7, <1>8, <1>9 DEF Vendors!Next


-----------------------------------------------------------------------------
(* Numbers.                                                                 *)
LEMMA FitSteps ==
  ASSUME VendorGiven, Vendors!TypeOK, CachesFit, [Vendors!Next]_(Vendors!vars)
  PROVE  CachesFit'
<1>1. DOMAIN cache = Vendors!Store /\ "fcm" \in Vendors!Store /\ "adapters" \in Vendors!Store
  BY DEF Vendors!TypeOK, Vendors!Store
<1>2. CASE cache' = cache
  BY <1>2 DEF CachesFit
<1>3. ASSUME NEW c, NEW token, Vendors!Put(c, token)
      PROVE  CachesFit'
  BY <1>1, <1>3, WithPuts DEF Vendors!Put, Vendors!Live
<1>4. ASSUME NEW c, NEW token, Vendors!StoreToken(c, token)
      PROVE  CachesFit'
  BY <1>1, <1>4, WithPuts DEF Vendors!StoreToken, Vendors!Live
<1>5. ASSUME NEW c, Vendors!Remove(c)
      PROVE  CachesFit'
  BY <1>1, <1>5, RemoveShrinks
<1>6. ASSUME NEW w \in Worker, NEW c \in Credential,
             \/ Vendors!TakeCached(w, c) \/ Vendors!MintHere(w, c) \/ Vendors!AskForToken(w, c)
             \/ \E t \in 0 .. time : Vendors!HuaweiToken(w, c, t) \/ Vendors!GoogleToken(w, c, t)
      PROVE  CachesFit'
  BY <1>2, <1>3, <1>4, <1>6 DEF Vendors!TakeCached, Vendors!MintHere, Vendors!AskForToken,
       Vendors!HuaweiToken, Vendors!GoogleToken
<1>7. ASSUME NEW w \in Worker, Vendors!Fails(w) \/ Vendors!Accepted(w) \/ Vendors!SaidExpired(w)
      PROVE  CachesFit'
  BY <1>2, <1>3, <1>5, <1>7 DEF Vendors!Fails, Vendors!Accepted, Vendors!SaidExpired
<1> QED
  BY <1>2, <1>6, <1>7 DEF Vendors!Next, Vendors!Tick, Vendors!vars

\* No token comes in: every entry and every send was there before.
Quiet(v) == doing'[v] = doing[v] \/ doing'[v].at # "sending"
LEMMA NumberedQuiet ==
  ASSUME Numbered, Shrinks, \A v \in Worker : Quiet(v), minted' = minted, refused' = refused
  PROVE  Numbered'
<1>1. \A s \in Vendors!Store : \A k \in DOMAIN cache'[s] : VendorsKeeps(s, k)
  BY DEF Shrinks
<1>2. \A v \in Vendors!OnTheWay' : v \in Vendors!OnTheWay /\ doing'[v] = doing[v]
  BY DEF Quiet, Vendors!OnTheWay
<1>3. \A v \in Worker : Apns(v)' => Apns(v) /\ doing'[v] = doing[v]
  BY <1>2 DEF Apns
<1>4. "adapters" \in Vendors!Store
  BY DEF Vendors!Store
<1>5. NumbersArePast'
  BY <1>1, <1>2 DEF Numbered, NumbersArePast, VendorsKeeps
<1>6. KeysApart'
  BY <1>1, <1>4 DEF Numbered, KeysApart, VendorsKeeps
<1>7. CachedIsOfKey'
  BY <1>1, <1>3, <1>4 DEF Numbered, CachedIsOfKey, VendorsKeeps
<1>8. FreshIsAlone'
  BY <1>1, <1>2, <1>3 DEF Numbered, FreshIsAlone, VendorsKeeps
<1>9. RefusedAreOut'
  BY <1>1, <1>4 DEF Numbered, RefusedAreOut, VendorsKeeps
<1> QED
  BY <1>5, <1>6, <1>7, <1>8, <1>9 DEF Numbered

\* A send takes what its key's cache holds.
LEMMA NumberedTake ==
  ASSUME Numbered, Vendors!TypeOK, NEW w \in Worker, NEW c \in Credential, Vendors!TakeCached(w, c)
  PROVE  Numbered'
<1> DEFINE s == IF Vendor[c] = "fcm" THEN "fcm" ELSE "adapters"
           r == Vendors!Sending(c, cache[s][Vendors!Key(c)].token, TRUE)
<1>1. s \in Vendors!Store /\ Vendors!Key(c) \in DOMAIN cache[s]
      /\ (Vendor[c] = "apns" => s = "adapters" /\ Vendors!Key(c) = c)
  BY DEF Vendors!TakeCached, Vendors!Fresh, Vendors!Get, Vendors!CachedToken, Vendors!Key,
         Vendors!Store
<1>2. r.at = "sending" /\ r.cred = c /\ r.token = cache[s][Vendors!Key(c)].token /\ r.cached = TRUE
  BY DEF Vendors!Sending
<1>3. doing' = [doing EXCEPT ![w] = r] /\ cache' = cache /\ minted' = minted /\ refused' = refused
  BY DEF Vendors!TakeCached
<1> HIDE DEF s, r
<1>4. doing'[w] = r /\ \A v \in Worker \ {w} : doing'[v] = doing[v]
  BY <1>3 DEF Vendors!TypeOK
<1>5. NumbersArePast'
  BY <1>1, <1>2, <1>3, <1>4 DEF Numbered, NumbersArePast, Vendors!OnTheWay
<1>6. CachedIsOfKey'
  <2> SUFFICES ASSUME NEW v \in Worker, Apns(v)', doing'[v].cached,
                      NEW k \in DOMAIN cache["adapters"],
                      cache["adapters"][k].token.no = doing'[v].token.no
               PROVE  k = doing'[v].cred
    BY <1>3 DEF CachedIsOfKey
  <2>1. CASE v = w
    BY <1>1, <1>2, <1>4, <2>1 DEF Numbered, KeysApart, Apns
  <2>2. CASE v # w
    BY <1>4, <2>2 DEF Numbered, CachedIsOfKey, Apns, Vendors!OnTheWay
  <2> QED
    BY <2>1, <2>2
<1>7. FreshIsAlone'
  <2>1. \A v \in Worker : Apns(v)' /\ ~doing'[v].cached => v # w /\ Apns(v) /\ doing'[v] = doing[v]
    BY <1>2, <1>4 DEF Apns, Vendors!OnTheWay
  <2>2. ASSUME NEW v \in Worker, Apns(v)', ~doing'[v].cached, NEW u \in Vendors!OnTheWay',
               doing'[u].token.no = doing'[v].token.no
        PROVE  u = v
    <3>1. CASE u = w
      BY <1>1, <1>2, <1>4, <2>1, <2>2, <3>1 DEF Numbered, FreshIsAlone
    <3>2. CASE u # w
      BY <1>4, <2>1, <2>2, <3>2 DEF Numbered, FreshIsAlone, Vendors!OnTheWay
    <3> QED
      BY <3>1, <3>2
  <2> QED
    BY <1>3, <2>1, <2>2 DEF Numbered, FreshIsAlone
<1>8. KeysApart' /\ RefusedAreOut'
  BY <1>3 DEF Numbered, KeysApart, RefusedAreOut
<1> QED
  BY <1>5, <1>6, <1>7, <1>8 DEF Numbered

\* The next token: a send has it, and a cache may, when it is no APNs one.
LEMMA NumberedMint ==
  ASSUME Numbered, Vendors!TypeOK, NEW w \in Worker, NEW r \in VendorsRequest, Becomes(w, r),
         r.token.no = minted, ~r.cached, minted' = minted + 1, refused' = refused,
         \/ Shrinks
         \/ /\ Vendor[r.cred] # "apns"
            /\ \E s \in Vendors!Store, e \in Stub : \E k : Puts(s, k, e) /\ e.token.no = minted
  PROVE  Numbered'
<1>1. r.at = "sending" /\ minted \in Nat /\ "adapters" \in Vendors!Store /\ r \in Calls
  BY DEF VendorsRequest, Vendors!TypeOK, Vendors!Store, Calls
<1>2. doing'[w] = r /\ \A v \in Worker \ {w} : doing'[v] = doing[v]
  BY <1>1, Becoming
<1>3. PICK s \in Vendors!Store : \E k : \A x \in Vendors!Store : \A j \in DOMAIN cache'[x] :
        \/ VendorsKeeps(x, j)
        \/ x = s /\ j = k /\ cache'[x][j].token.no = minted /\ Vendor[r.cred] # "apns"
  <2>1. CASE Shrinks
    BY <1>1, <2>1 DEF Shrinks
  <2>2. ASSUME NEW s \in Vendors!Store, NEW e \in Stub, NEW k, Puts(s, k, e), e.token.no = minted,
               Vendor[r.cred] # "apns"
        PROVE  \A x \in Vendors!Store : \A j \in DOMAIN cache'[x] :
                 \/ VendorsKeeps(x, j)
                 \/ x = s /\ j = k /\ cache'[x][j].token.no = minted /\ Vendor[r.cred] # "apns"
    BY <2>2 DEF Puts
  <2> QED
    BY <2>1, <2>2
<1>a. PICK k : \A x \in Vendors!Store : \A j \in DOMAIN cache'[x] :
        \/ VendorsKeeps(x, j)
        \/ x = s /\ j = k /\ cache'[x][j].token.no = minted /\ Vendor[r.cred] # "apns"
  BY <1>3
\* every number there was is below the new one
<1>4. /\ \A x \in Vendors!Store : \A j \in DOMAIN cache[x] : cache[x][j].token.no \in Nat
         /\ cache[x][j].token.no < minted
      /\ \A v \in Vendors!OnTheWay : doing[v].token.no \in Nat /\ doing[v].token.no < minted
      /\ \A x \in refused : x.no \in Nat /\ x.no < minted
  <2>1. \A v \in Vendors!OnTheWay : doing[v] \in VendorsRequest
    BY DEF Vendors!OnTheWay, Vendors!TypeOK, Vendors!Idle, VendorsRequest
  <2> QED
    BY <2>1 DEF Numbered, NumbersArePast, Vendors!TypeOK, Vendors!Tokens, VendorsRequest
<1>5. \A v \in Vendors!OnTheWay' : v = w \/ (v \in Vendors!OnTheWay /\ doing'[v] = doing[v])
  BY <1>2 DEF Vendors!OnTheWay
<1>6. \A v \in Worker : Apns(v)' /\ v # w => Apns(v) /\ doing'[v] = doing[v]
  BY <1>2 DEF Apns, Vendors!OnTheWay
<1>7. NumbersArePast'
  <2>1. ASSUME NEW x \in Vendors!Store, NEW j \in DOMAIN cache'[x]
        PROVE  cache'[x][j].token.no < minted'
    BY <1>1, <1>a, <1>4 DEF VendorsKeeps
  <2>2. ASSUME NEW v \in Vendors!OnTheWay'
        PROVE  doing'[v].token.no < minted'
    BY <1>1, <1>2, <1>4, <1>5
  <2>3. \A x \in refused' : x.no < minted'
    BY <1>1, <1>4
  <2> QED
    BY <2>1, <2>2, <2>3 DEF NumbersArePast
<1>8. KeysApart'
  <2> SUFFICES ASSUME NEW j \in DOMAIN cache'["adapters"], NEW l \in DOMAIN cache'["adapters"],
                      cache'["adapters"][j].token.no = cache'["adapters"][l].token.no
               PROVE  j = l
    BY DEF KeysApart
  <2>1. CASE VendorsKeeps("adapters", j) /\ VendorsKeeps("adapters", l)
    BY <2>1 DEF Numbered, KeysApart, VendorsKeeps
  <2>2. CASE ~VendorsKeeps("adapters", j) \/ ~VendorsKeeps("adapters", l)
    <3>1. (VendorsKeeps("adapters", j) =>
               cache'["adapters"][j].token.no < minted /\ cache'["adapters"][j].token.no \in Nat)
          /\ (VendorsKeeps("adapters", l) =>
               cache'["adapters"][l].token.no < minted /\ cache'["adapters"][l].token.no \in Nat)
      BY <1>1, <1>4 DEF VendorsKeeps
    <3>2. (VendorsKeeps("adapters", j) \/ (j = k /\ cache'["adapters"][j].token.no = minted))
          /\ (VendorsKeeps("adapters", l) \/ (l = k /\ cache'["adapters"][l].token.no = minted))
      BY <1>1, <1>a
    <3> QED
      BY <1>1, <2>2, <3>1, <3>2
  <2> QED
    BY <2>1, <2>2
<1>9. CachedIsOfKey'
  <2> SUFFICES ASSUME NEW v \in Worker, Apns(v)', doing'[v].cached,
                      NEW j \in DOMAIN cache'["adapters"],
                      cache'["adapters"][j].token.no = doing'[v].token.no
               PROVE  j = doing'[v].cred
    BY DEF CachedIsOfKey
  <2>1. v # w
    BY <1>2
  <2>2. Apns(v) /\ doing'[v] = doing[v] /\ v \in Vendors!OnTheWay
    BY <1>6, <2>1 DEF Apns
  <2>3. VendorsKeeps("adapters", j)
    BY <1>1, <1>a, <1>4, <2>2
  <2> QED
    BY <2>2, <2>3 DEF Numbered, CachedIsOfKey, VendorsKeeps
<1>10. FreshIsAlone'
  <2> SUFFICES ASSUME NEW v \in Worker, Apns(v)', ~doing'[v].cached
               PROVE  /\ \A x \in Vendors!Store : \A j \in DOMAIN cache'[x] :
                           cache'[x][j].token.no # doing'[v].token.no
                      /\ \A x \in refused' : x.no # doing'[v].token.no
                      /\ \A u \in Vendors!OnTheWay' : doing'[u].token.no = doing'[v].token.no
                           => u = v
    BY DEF FreshIsAlone
  <2>1. CASE v = w
    <3>1. Vendor[r.cred] = "apns" /\ doing'[v].token.no = minted
      BY <1>2, <2>1 DEF Apns
    <3>2. ASSUME NEW x \in Vendors!Store, NEW j \in DOMAIN cache'[x]
          PROVE  cache'[x][j].token.no # minted
      <4>1. VendorsKeeps(x, j)
        BY <1>a, <3>1
      <4> QED
        BY <1>1, <1>4, <4>1 DEF VendorsKeeps
    <3>3. \A x \in refused' : x.no # minted
      BY <1>1, <1>4
    <3>4. \A u \in Vendors!OnTheWay' : doing'[u].token.no = minted => u = v
      BY <1>1, <1>4, <1>5, <2>1
    <3> QED
      BY <3>1, <3>2, <3>3, <3>4
  <2>2. CASE v # w
    <3>1. Apns(v) /\ doing'[v] = doing[v] /\ v \in Vendors!OnTheWay /\ ~doing[v].cached
      BY <1>6, <2>2 DEF Apns
    <3>2. ASSUME NEW x \in Vendors!Store, NEW j \in DOMAIN cache'[x]
          PROVE  cache'[x][j].token.no # doing'[v].token.no
      <4>1. CASE VendorsKeeps(x, j)
        BY <3>1, <4>1 DEF Numbered, FreshIsAlone, VendorsKeeps
      <4>2. CASE cache'[x][j].token.no = minted
        BY <1>1, <1>4, <3>1, <4>2
      <4> QED
        BY <1>a, <4>1, <4>2
    <3>3. \A x \in refused' : x.no # doing'[v].token.no
      BY <3>1 DEF Numbered, FreshIsAlone
    <3>4. ASSUME NEW u \in Vendors!OnTheWay', doing'[u].token.no = doing'[v].token.no PROVE u = v
      <4>1. u # w
        BY <1>1, <1>2, <1>4, <3>1, <3>4
      <4> QED
        BY <1>5, <3>1, <3>4, <4>1 DEF Numbered, FreshIsAlone
    <3> QED
      BY <3>2, <3>3, <3>4
  <2> QED
    BY <2>1, <2>2
<1>11. RefusedAreOut'
  <2> SUFFICES ASSUME NEW j \in DOMAIN cache'["adapters"], NEW x \in refused
               PROVE  x.no # cache'["adapters"][j].token.no
    BY DEF RefusedAreOut
  <2>1. CASE VendorsKeeps("adapters", j)
    BY <2>1 DEF Numbered, RefusedAreOut, VendorsKeeps
  <2>2. CASE cache'["adapters"][j].token.no = minted
    BY <1>1, <1>4, <2>2
  <2> QED
    BY <1>1, <1>a, <2>1, <2>2
<1> QED
  BY <1>7, <1>8, <1>9, <1>10, <1>11 DEF Numbered

\* A JWT minted for a send that was delivered is kept: it was nowhere else.
LEMMA NumberedKept ==
  ASSUME VendorGiven, Vendors!TypeOK, CachesFit, Numbered, NEW w \in Worker, Vendors!Accepted(w),
         Apns(w), ~doing[w].cached
  PROVE  Numbered'
<1> DEFINE c == doing[w].cred
           token == doing[w].token
           n == token.no
<1>1. w \in Vendors!OnTheWay /\ Vendor[c] = "apns" /\ "adapters" \in Vendors!Store
      /\ DOMAIN cache = Vendors!Store
  BY DEF Apns, Vendors!TypeOK, Vendors!Store
<1>2. Vendors!Put(c, token) /\ doing' = [doing EXCEPT ![w] = Vendors!Idle] /\ minted' = minted
      /\ refused' = refused
  BY <1>1 DEF Vendors!Accepted
<1>3. doing'[w] = Vendors!Idle /\ \A v \in Worker \ {w} : doing'[v] = doing[v]
  BY <1>2 DEF Vendors!TypeOK
<1>4. \A v \in Vendors!OnTheWay' : v # w /\ v \in Vendors!OnTheWay /\ doing'[v] = doing[v]
  BY <1>3 DEF Vendors!OnTheWay, Vendors!Idle
<1>5. Vendors!With("adapters", Vendors!Live("adapters"), c, token, Kept)
      /\ Vendors!Live("adapters") \in SUBSET DOMAIN cache["adapters"]
  BY <1>2 DEF Vendors!Put, Vendors!Live
<1> HIDE DEF c, token
<1>6. Puts("adapters", c, [token |-> token, until |-> time + Kept])
  BY <1>1, <1>5, WithPuts
<1>7. \A x \in Vendors!Store : \A j \in DOMAIN cache'[x] :
         VendorsKeeps(x, j) \/ (x = "adapters" /\ j = c /\ cache'[x][j].token.no = n)
  BY <1>6 DEF Puts
<1>8. /\ \A x \in Vendors!Store : \A j \in DOMAIN cache[x] : cache[x][j].token.no # n
      /\ \A x \in refused : x.no # n
      /\ \A v \in Vendors!OnTheWay' : doing'[v].token.no # n
      /\ n < minted
  BY <1>1, <1>4 DEF Numbered, FreshIsAlone, NumbersArePast, token
<1> HIDE DEF n
<1>9. \A v \in Worker : Apns(v)' => Apns(v) /\ doing'[v] = doing[v] /\ v \in Vendors!OnTheWay'
  BY <1>4 DEF Apns
<1>10. NumbersArePast'
  BY <1>2, <1>4, <1>7, <1>8 DEF Numbered, NumbersArePast, VendorsKeeps
<1>11. KeysApart'
  BY <1>1, <1>7, <1>8 DEF Numbered, KeysApart, VendorsKeeps
<1>12. CachedIsOfKey'
  BY <1>1, <1>7, <1>8, <1>9 DEF Numbered, CachedIsOfKey, VendorsKeeps
<1>13. FreshIsAlone'
  BY <1>2, <1>4, <1>7, <1>8, <1>9 DEF Numbered, FreshIsAlone, VendorsKeeps
<1>14. RefusedAreOut'
  BY <1>1, <1>2, <1>7, <1>8 DEF Numbered, RefusedAreOut, VendorsKeeps
<1> QED
  BY <1>10, <1>11, <1>12, <1>13, <1>14 DEF Numbered

\* A cached JWT that was refused leaves its key, and no other key had it.
LEMMA NumberedRefused ==
  ASSUME VendorGiven, Vendors!TypeOK, CachesFit, Numbered, NEW w \in Worker, Vendors!SaidExpired(w),
         doing[w].cached
  PROVE  Numbered'
<1> DEFINE c == doing[w].cred
           n == doing[w].token.no
<1>1. w \in Vendors!OnTheWay /\ Apns(w) /\ "adapters" \in Vendors!Store
      /\ DOMAIN cache = Vendors!Store
  BY DEF Vendors!SaidExpired, Vendors!OnTheWay, Apns, Vendors!TypeOK, Vendors!Store
<1>2. Vendors!Remove(c) /\ doing' = [doing EXCEPT ![w] = Vendors!Idle] /\ minted' = minted
      /\ refused' = refused \cup {doing[w].token}
  BY DEF Vendors!SaidExpired
<1>3. doing'[w] = Vendors!Idle /\ \A v \in Worker \ {w} : doing'[v] = doing[v]
  BY <1>2 DEF Vendors!TypeOK
<1>4. \A v \in Vendors!OnTheWay' : v # w /\ v \in Vendors!OnTheWay /\ doing'[v] = doing[v]
  BY <1>3 DEF Vendors!OnTheWay, Vendors!Idle
<1>5. Shrinks /\ c \notin DOMAIN cache'["adapters"]
  BY <1>1, <1>2, RemoveShrinks
<1>6. \A x \in Vendors!Store : \A j \in DOMAIN cache'[x] : VendorsKeeps(x, j)
  BY <1>5 DEF Shrinks
<1>7. \A j \in DOMAIN cache'["adapters"] : cache'["adapters"][j].token.no # n
  BY <1>1, <1>5, <1>6 DEF Numbered, CachedIsOfKey, VendorsKeeps
<1>8. n < minted /\ \A v \in Worker : Apns(v) /\ ~doing[v].cached => doing[v].token.no # n
  BY <1>1 DEF Numbered, FreshIsAlone, NumbersArePast
<1>9. \A v \in Worker : Apns(v)' => Apns(v) /\ doing'[v] = doing[v] /\ v \in Vendors!OnTheWay'
  BY <1>4 DEF Apns
<1>10. \A x \in refused' : x \in refused \/ x.no = n
  BY <1>2
<1> HIDE DEF c, n
<1>11. NumbersArePast'
  BY <1>2, <1>4, <1>6, <1>8, <1>10 DEF Numbered, NumbersArePast, VendorsKeeps
<1>12. KeysApart'
  BY <1>1, <1>6 DEF Numbered, KeysApart, VendorsKeeps
<1>13. CachedIsOfKey'
  BY <1>1, <1>6, <1>9 DEF Numbered, CachedIsOfKey, VendorsKeeps
<1>14. FreshIsAlone'
  BY <1>4, <1>6, <1>8, <1>9, <1>10 DEF Numbered, FreshIsAlone, VendorsKeeps
<1>15. RefusedAreOut'
  BY <1>1, <1>6, <1>7, <1>10 DEF Numbered, RefusedAreOut, VendorsKeeps
<1> QED
  BY <1>11, <1>12, <1>13, <1>14, <1>15 DEF Numbered

LEMMA NumberedSteps ==
  ASSUME VendorGiven, Vendors!TypeOK, Aged, CachesFit, Numbered, [Vendors!Next]_(Vendors!vars)
  PROVE  Numbered'
<1>0. time \in Nat /\ minted \in Nat /\ DOMAIN cache = Vendors!Store /\ "fcm" \in Vendors!Store
      /\ "adapters" \in Vendors!Store
      /\ (cache' = cache => Shrinks)
  BY NoChange DEF Vendors!TypeOK, Vendors!Store
<1>1. ASSUME NEW w \in Worker, Becomes(w, Vendors!Idle)
      PROVE  \A v \in Worker : Quiet(v)
  BY <1>1 DEF Becomes, Quiet, Vendors!Idle, Vendors!TypeOK
<1>2. ASSUME NEW w \in Worker, NEW c \in Credential, Vendors!TakeCached(w, c)
      PROVE  Numbered'
  BY <1>2, NumberedTake
<1>3. ASSUME NEW w \in Worker, NEW c \in Credential, Vendors!MintHere(w, c)
      PROVE  Numbered'
  <2> DEFINE r == Vendors!Sending(c, Vendors!Minted(c, time), FALSE)
  <2>1. Becomes(w, r) /\ cache' = cache /\ minted' = minted + 1 /\ refused' = refused
    BY <1>3 DEF Vendors!MintHere, Vendors!Mint, Becomes
  <2>2. time \in 0 .. time /\ time <= time + Timeout
    BY <1>0 DEF VendorGiven
  <2>3. r \in VendorsRequest /\ r.token = Vendors!Minted(c, time)
        /\ Vendors!Minted(c, time).no = minted /\ ~r.cached
    BY <2>2, NewSend, ZenonT(40)
  <2> HIDE DEF r
  <2> QED
    BY <1>0, <2>1, <2>3, NumberedMint
<1>4. ASSUME NEW w \in Worker, NEW c \in Credential, Vendors!AskForToken(w, c)
      PROVE  Numbered'
  <2>1. \A v \in Worker : Quiet(v)
    BY <1>4 DEF Vendors!AskForToken, Quiet, Vendors!TypeOK
  <2> QED
    BY <1>0, <1>4, <2>1, NumberedQuiet DEF Vendors!AskForToken
<1>5. ASSUME NEW w \in Worker, NEW c \in Credential, NEW t \in 0 .. time,
             Vendors!HuaweiToken(w, c, t) \/ Vendors!GoogleToken(w, c, t)
      PROVE  Numbered'
  <2> DEFINE r == Vendors!Sending(c, Vendors!Minted(c, t), FALSE)
             s == IF Vendor[c] = "fcm" THEN "fcm" ELSE "adapters"
             ttl == IF s = "fcm" THEN Life - Early ELSE Kept
             ks == IF Vendor[c] = "fcm" THEN Vendors!Live("fcm") \ {Vendors!Key(c)}
                   ELSE Vendors!Live("adapters")
             e == [token |-> Vendors!Minted(c, t), until |-> time + ttl]
  <2>1. Vendors!TokenComes(w, c, t)
        /\ Vendors!With(s, ks, Vendors!Key(c), Vendors!Minted(c, t), ttl)
           /\ Vendor[c] \in {"hcm", "fcm"}
    BY <1>5 DEF Vendors!HuaweiToken, Vendors!GoogleToken, Vendors!Put, Vendors!StoreToken,
         Vendors!Key
  <2>2. s \in Vendors!Store /\ ks \in SUBSET DOMAIN cache[s] /\ ttl \in Nat
    BY <1>0 DEF Vendors!Live, VendorGiven
  <2>3. Becomes(w, r) /\ refused' = refused /\ minted' = minted + 1
    BY <2>1 DEF Vendors!TokenComes, Becomes, Vendors!Mint
  <2>4. time <= t + Timeout
    <3>1. doing[w].at = "minting" /\ t \in doing[w].since .. time
      BY <2>1 DEF Vendors!TokenComes
    <3>2. doing[w] \in Calls /\ YoungCall(doing[w])
      BY DEF Vendors!TypeOK, Calls, Minting, VendorsRequest, Aged, CallsAreYoung
    <3>3. doing[w].since \in Nat /\ time <= doing[w].since + Timeout
      BY <3>1, <3>2, VendorsKinds DEF YoungCall, Minting
    <3> QED
      BY <1>0, <3>1, <3>3 DEF VendorGiven
  <2>5. Vendor[c] # "apns"
    BY <2>1
  <2>a. r.token = Vendors!Minted(c, t) /\ ~r.cached /\ r.cred = c
    BY DEF Vendors!Sending
  <2>6. Vendors!Minted(c, t) \in Vendors!Tokens /\ Vendors!Minted(c, t).no = minted
    <3>1. time \in Nat /\ minted \in Nat /\ t \in Nat
      BY DEF Vendors!TypeOK
    <3> QED
      BY <3>1 DEF Vendors!Minted, Vendors!Tokens
  <2>b. r \in VendorsRequest
    BY <2>4, <2>5, NewSend
  <2> HIDE DEF r, s, ks, ttl
  <2>7. Puts(s, Vendors!Key(c), e)
    BY <1>0, <2>1, <2>2, WithPuts
  <2>8. e \in Stub /\ e.token.no = minted
    BY <1>0, <2>2, <2>6 DEF Stub
  <2> HIDE DEF e
  <2> QED
    BY <2>2, <2>3, <2>5, <2>6, <2>7, <2>8, <2>a, <2>b, NumberedMint
<1>6. ASSUME NEW w \in Worker, Vendors!Fails(w)
      PROVE  Numbered'
  BY <1>0, <1>1, <1>6, NumberedQuiet DEF Vendors!Fails, Becomes
<1>7. ASSUME NEW w \in Worker, Vendors!Accepted(w)
      PROVE  Numbered'
  <2>1. CASE Vendor[doing[w].cred] = "apns" /\ ~doing[w].cached
    <3>1. Apns(w)
      BY <1>7, <2>1 DEF Apns, Vendors!OnTheWay, Vendors!Accepted
    <3> QED
      BY <1>7, <2>1, <3>1, NumberedKept
  <2>2. CASE ~(Vendor[doing[w].cred] = "apns" /\ ~doing[w].cached)
    BY <1>0, <1>1, <1>7, <2>2, NumberedQuiet DEF Vendors!Accepted, Becomes
  <2> QED
    BY <2>1, <2>2
<1>8. ASSUME NEW w \in Worker, Vendors!SaidExpired(w)
      PROVE  Numbered'
  <2>1. CASE doing[w].cached
    BY <1>8, <2>1, NumberedRefused
  <2>2. CASE ~doing[w].cached
    BY <1>0, <1>1, <1>8, <2>2, NumberedQuiet DEF Vendors!SaidExpired, Becomes
  <2> QED
    BY <2>1, <2>2
<1>9. CASE Vendors!Tick \/ UNCHANGED Vendors!vars
  BY <1>0, <1>9, NumberedQuiet DEF Vendors!Tick, Vendors!vars, Quiet
<1> QED
  BY <1>2, <1>3, <1>4, <1>5, <1>6, <1>7, <1>8, <1>9 DEF Vendors!Next

-----------------------------------------------------------------------------
LEMMA VendorInvariant == ASSUME VendorGiven PROVE Vendors!Spec => []VendorIInv
<1>1. Vendors!Init => VendorIInv
  BY VendorInit
<1>2. VendorIInv /\ [Vendors!Next]_(Vendors!vars) => VendorIInv'
  BY AgedSteps, FitSteps, NumberedSteps DEF VendorIInv
<1> QED
  BY <1>1, <1>2, PTL DEF Vendors!Spec

\* A request never carries a token that dies before it can have arrived, nor one of
\* another account's (apns.rs, fcm.rs, hcm.rs: what a cache may hold, and for how long).
THEOREM TokensGood ==
  ASSUME VendorGiven
  PROVE Vendors!Spec => [](Vendors!AliveOnArrival /\ Vendors!TokenIsOwn)
<1>1. VendorIInv => Vendors!AliveOnArrival /\ Vendors!TokenIsOwn
  <2> SUFFICES ASSUME VendorIInv, NEW w \in Vendors!OnTheWay
               PROVE  time < doing[w].token.born + Life
                      /\ doing[w].token.of = Account[doing[w].cred]
    BY DEF Vendors!AliveOnArrival, Vendors!TokenIsOwn
  <2>1. w \in Worker /\ doing[w].at = "sending" /\ YoungCall(doing[w])
    BY DEF Vendors!OnTheWay, VendorIInv, Aged, CallsAreYoung
  <2>2. doing[w] \in VendorsRequest
    BY <2>1 DEF VendorIInv, Vendors!TypeOK, Vendors!Idle, VendorsRequest
  <2>3. doing[w].since \in Nat /\ doing[w].token.born \in Nat /\ time \in Nat
    BY <2>2 DEF VendorsRequest, Vendors!Tokens, VendorIInv, Vendors!TypeOK
  <2> QED
    BY <2>1, <2>3 DEF YoungCall, VendorGiven
<1> QED
  BY <1>1, VendorInvariant, PTL

\* A JWT that Apple called expired is out of the cache for good, and no cache outgrows
\* its capacity (push_worker.rs, token_cache.rs).
THEOREM CachesGood ==
  ASSUME VendorGiven
  PROVE Vendors!Spec => [](Vendors!RefusedStaysOut /\ Vendors!CachesAreBounded)
<1>1. VendorIInv => Vendors!RefusedStaysOut /\ Vendors!CachesAreBounded
  BY VendorsCounts DEF VendorIInv, Numbered, RefusedAreOut, Vendors!RefusedStaysOut, CachesFit,
       Vendors!CachesAreBounded
<1> QED
  BY <1>1, VendorInvariant, PTL

(***************************************************************************)
(* MonitorChecks.  The lease that is live is younger than every result, so *)
(* the result that it lets in is the newest one; a result belongs to the   *)
(* configuration in force or to an older one.                              *)
(***************************************************************************)
MonitorRow == [version : Nat, generation : Nat, enabled : BOOLEAN, due : BOOLEAN,
               lease : Nat \cup {None}, live : BOOLEAN, failures : Nat, incident : BOOLEAN]
Sample == [token : Nat, ok : BOOLEAN, version : Nat]
Probe == [id : Monitor, version : Nat, token : Nat]

\* The ends of a monitor, and of a worker's cycle, are no rows.
MonitorGiven ==
  /\ None # Gone /\ None \notin MonitorRow /\ Gone \notin MonitorRow
  /\ None \notin Probe

MonitorsTyped ==
  /\ monitor \in [Monitor -> {None, Gone} \cup MonitorRow]
  /\ samples \in [Monitor -> Seq(Sample)]
  /\ told \in [Monitor -> Seq({"down", "recovered"})]
  /\ cycle \in [Worker -> {None} \cup Probe]
  /\ probes \in Nat /\ generation \in Nat

\* Results come in the order of their probes, all of which have begun.
Ordered(m) ==
  /\ \A i, j \in DOMAIN samples[m] : i < j => samples[m][i].token < samples[m][j].token
  /\ \A i \in DOMAIN samples[m] : samples[m][i].token <= probes
LeaseIsNewest(m) == Checks!Exists(m) /\ monitor[m].live =>
  /\ monitor[m].lease \in Nat /\ monitor[m].lease <= probes
  /\ \A i \in DOMAIN samples[m] : samples[m][i].token < monitor[m].lease

\* A monitor that was never saved has no results; no result is of a later version.
VersionsArePast(m) ==
  /\ monitor[m] = None => samples[m] = <<>>
  /\ Checks!Exists(m) => \A i \in DOMAIN samples[m] : samples[m][i].version <= monitor[m].version
FailuresAreLast(m) == Checks!Exists(m) =>
  /\ monitor[m].failures <= Len(samples[m])
  /\ \A i \in 1 .. monitor[m].failures : ~samples[m][Len(samples[m]) + 1 - i].ok
Alternates(m) == Checks!Exists(m) =>
  /\ \A i \in DOMAIN told[m] : told[m][i] = IF i % 2 = 1 THEN "down" ELSE "recovered"
  /\ monitor[m].incident = (Len(told[m]) % 2 = 1)

Sampled(m) == Ordered(m) /\ LeaseIsNewest(m) /\ VersionsArePast(m) /\ FailuresAreLast(m)
MonitorIInv == MonitorsTyped /\ \A m \in Monitor : Sampled(m) /\ Alternates(m)

-----------------------------------------------------------------------------
LEMMA MonitorInit == ASSUME MonitorGiven PROVE Checks!Init => MonitorIInv
<1> SUFFICES ASSUME Checks!Init PROVE MonitorIInv
  OBVIOUS
<1>1. MonitorsTyped
  BY DEF Checks!Init, MonitorsTyped
<1>2. \A m \in Monitor : monitor[m] = None /\ samples[m] = <<>> /\ ~Checks!Exists(m)
  BY DEF Checks!Init, Checks!Exists
<1>3. \A m \in Monitor : DOMAIN samples[m] = {}
  <2>1. DOMAIN <<>> = {}
    OBVIOUS
  <2> QED
    BY <1>2, <2>1
<1> QED
  BY <1>1, <1>2, <1>3 DEF MonitorIInv, Sampled, Ordered, LeaseIsNewest, VersionsArePast,
     FailuresAreLast, Alternates

\* What a step does to one monitor: nothing that its results tell of, a new
\* configuration, or a result.
Stays(m) ==
  /\ samples'[m] = samples[m] /\ told'[m] = told[m]
  /\ \/ monitor'[m] = monitor[m]
     \/ Checks!Exists(m) /\ monitor'[m] = Gone
     \/ /\ Checks!Exists(m) /\ Checks!Exists(m)'
        /\ monitor'[m].version \in {monitor[m].version, monitor[m].version + 1}
        /\ monitor'[m].failures = monitor[m].failures
        /\ monitor'[m].incident = monitor[m].incident
        /\ monitor'[m].live => \/ monitor[m].live /\ monitor'[m].lease = monitor[m].lease
                               \/ monitor'[m].lease = probes + 1 /\ probes' = probes + 1
Starts(m) ==
  /\ monitor[m] # Gone /\ samples'[m] = samples[m] /\ told'[m] = <<>>
  /\ \E enabled \in BOOLEAN : monitor'[m] = Checks!Row(Checks!Version(m) + 1, enabled)
Records(m) == \E ok \in BOOLEAN :
  /\ Checks!Exists(m) /\ Checks!Exists(m)' /\ monitor[m].live /\ ~monitor'[m].live
  /\ monitor'[m].version = monitor[m].version
  /\ monitor'[m].failures = Checks!Failures(m, ok) /\ monitor'[m].incident = Checks!Incident(m, ok)
  /\ samples'[m] = Append(samples[m], [token |-> monitor[m].lease, ok |-> ok,
                                       version |-> monitor[m].version])
  /\ told'[m] = told[m] \o Checks!Transition(m, ok)
ChecksGoes == \A m \in Monitor : Stays(m) \/ Starts(m) \/ Records(m)

LEMMA RowThere ==
  ASSUME MonitorGiven, MonitorsTyped, NEW m \in Monitor
  PROVE  Checks!Exists(m) <=> monitor[m] \in MonitorRow
  BY DEF MonitorGiven, MonitorsTyped, Checks!Exists
LEMMA RowThereNext ==
  ASSUME MonitorGiven, MonitorsTyped', NEW m \in Monitor
  PROVE  Checks!Exists(m)' <=> monitor'[m] \in MonitorRow
  BY DEF MonitorGiven, MonitorsTyped, Checks!Exists

\* A monitor's row is replaced by another one.
LEMMA RowSet ==
  ASSUME MonitorGiven, MonitorsTyped, NEW m \in Monitor, NEW row \in MonitorRow \cup {Gone},
         monitor' = [monitor EXCEPT ![m] = row]
  PROVE  /\ monitor'[m] = row /\ \A x \in Monitor \ {m} : monitor'[x] = monitor[x]
         /\ monitor' \in [Monitor -> {None, Gone} \cup MonitorRow]
         /\ row # Gone => Checks!Exists(m)'
  BY DEF MonitorsTyped, MonitorGiven, Checks!Exists

LEMMA MonitorSteps ==
  ASSUME MonitorGiven, MonitorsTyped, [Checks!Next]_(Checks!vars)
  PROVE  MonitorsTyped' /\ ChecksGoes /\ probes' \in {probes, probes + 1}
<1>0. /\ probes \in Nat /\ generation \in Nat
      /\ \A m \in Monitor : Checks!Exists(m) => monitor[m] \in MonitorRow
      /\ \A m \in Monitor : Checks!Version(m) \in Nat
  <2>1. \A m \in Monitor : Checks!Exists(m) => monitor[m] \in MonitorRow
    BY RowThere
  <2> QED
    BY <2>1 DEF MonitorsTyped, Checks!Version, MonitorRow
<1>1. ASSUME NEW m \in Monitor, Checks!Save(m)
      PROVE  MonitorsTyped' /\ ChecksGoes /\ probes' = probes
  <2>1. PICK enabled \in BOOLEAN :
          monitor' = [monitor EXCEPT ![m] = Checks!Row(Checks!Version(m) + 1, enabled)]
    BY <1>1 DEF Checks!Save
  <2>2. Checks!Row(Checks!Version(m) + 1, enabled) \in MonitorRow
    BY <1>0 DEF Checks!Row, MonitorRow
  <2>3. /\ monitor'[m] = Checks!Row(Checks!Version(m) + 1, enabled)
        /\ \A x \in Monitor \ {m} : monitor'[x] = monitor[x]
        /\ monitor' \in [Monitor -> {None, Gone} \cup MonitorRow]
    BY <2>1, <2>2, RowSet
  <2>4. told' = [told EXCEPT ![m] = <<>>] /\ samples' = samples /\ cycle' = cycle
        /\ probes' = probes
        /\ generation' = generation /\ monitor[m] # Gone
    BY <1>1 DEF Checks!Save
  <2>5. told'[m] = <<>> /\ (\A x \in Monitor \ {m} : told'[x] = told[x])
        /\ told' \in [Monitor -> Seq({"down", "recovered"})]
    BY <2>4 DEF MonitorsTyped
  <2>6. MonitorsTyped'
    BY <2>3, <2>4, <2>5 DEF MonitorsTyped
  <2>7. Starts(m) /\ \A x \in Monitor \ {m} : Stays(x)
    BY <2>3, <2>4, <2>5 DEF Starts, Stays
  <2> QED
    BY <2>4, <2>6, <2>7 DEF ChecksGoes
<1>2. ASSUME NEW m \in Monitor, Checks!Delete(m)
      PROVE  MonitorsTyped' /\ ChecksGoes /\ probes' = probes
  <2>1. /\ monitor'[m] = Gone /\ \A x \in Monitor \ {m} : monitor'[x] = monitor[x]
        /\ monitor' \in [Monitor -> {None, Gone} \cup MonitorRow]
    BY <1>2, RowSet DEF Checks!Delete
  <2>2. Checks!Exists(m) /\ UNCHANGED <<samples, told, cycle, probes, generation>>
    BY <1>2 DEF Checks!Delete
  <2> QED
    BY <2>1, <2>2 DEF MonitorsTyped, ChecksGoes, Stays
<1>3. ASSUME NEW m \in Monitor, Checks!Check(m) \/ Checks!LeaseExpires(m)
      PROVE  MonitorsTyped' /\ ChecksGoes /\ probes' = probes
  <2>1. /\ Checks!Exists(m) /\ UNCHANGED <<samples, told, cycle, probes, generation>>
        /\ \/ monitor' = [monitor EXCEPT ![m].due = TRUE]
           \/ monitor' = [monitor EXCEPT ![m].live = FALSE]
    BY <1>3 DEF Checks!Check, Checks!LeaseExpires
  <2>2. PICK row \in MonitorRow :
          /\ monitor' = [monitor EXCEPT ![m] = row]
          /\ row.version = monitor[m].version /\ row.failures = monitor[m].failures
          /\ row.incident = monitor[m].incident
          /\ row.live => monitor[m].live /\ row.lease = monitor[m].lease
    <3>1. monitor[m] \in MonitorRow
      BY <1>0, <2>1
    <3>2. CASE monitor' = [monitor EXCEPT ![m].due = TRUE]
      <4> DEFINE row == [monitor[m] EXCEPT !.due = TRUE]
      <4>1. row \in MonitorRow /\ row.version = monitor[m].version
            /\ row.failures = monitor[m].failures
            /\ row.incident = monitor[m].incident /\ row.live = monitor[m].live
            /\ row.lease = monitor[m].lease
        BY <3>1 DEF MonitorRow
      <4> QED
        BY <3>2, <4>1
    <3>3. CASE monitor' = [monitor EXCEPT ![m].live = FALSE]
      <4> DEFINE row == [monitor[m] EXCEPT !.live = FALSE]
      <4>1. row \in MonitorRow /\ row.version = monitor[m].version
            /\ row.failures = monitor[m].failures
            /\ row.incident = monitor[m].incident /\ row.live = FALSE
        BY <3>1 DEF MonitorRow
      <4> QED
        BY <3>3, <4>1
    <3> QED
      BY <2>1, <3>2, <3>3
  <2>3. /\ monitor'[m] = row /\ \A x \in Monitor \ {m} : monitor'[x] = monitor[x]
        /\ monitor' \in [Monitor -> {None, Gone} \cup MonitorRow]
        /\ Checks!Exists(m)'
    BY <2>2, RowSet DEF MonitorGiven
  <2>4. Stays(m) /\ \A x \in Monitor \ {m} : Stays(x)
    BY <2>1, <2>2, <2>3 DEF Stays
  <2> QED
    BY <2>1, <2>3, <2>4 DEF MonitorsTyped, ChecksGoes
<1>4. ASSUME NEW w \in Worker, NEW m \in Monitor, Checks!Claim(w, m)
      PROVE  MonitorsTyped' /\ ChecksGoes /\ probes' = probes + 1
  <2> DEFINE row == [monitor[m] EXCEPT !.lease = probes + 1, !.live = TRUE]
  <2>1. monitor[m] \in MonitorRow /\ Checks!Exists(m)
    BY <1>0, <1>4 DEF Checks!Claim
  <2>2. row \in MonitorRow /\ row.version = monitor[m].version /\ row.failures = monitor[m].failures
        /\ row.incident = monitor[m].incident /\ row.lease = probes + 1
    <3>1. probes + 1 \in Nat /\ probes + 1 \in Nat \cup {None}
      BY <1>0
    <3> QED
      BY <2>1, <3>1 DEF MonitorRow
  <2>3. monitor' = [monitor EXCEPT ![m] = row] /\ UNCHANGED <<samples, told, generation>>
        /\ probes' = probes + 1
    BY <1>4 DEF Checks!Claim
  <2> HIDE DEF row
  <2>4. /\ monitor'[m] = row /\ \A x \in Monitor \ {m} : monitor'[x] = monitor[x]
        /\ monitor' \in [Monitor -> {None, Gone} \cup MonitorRow]
        /\ Checks!Exists(m)'
    BY <2>2, <2>3, RowSet DEF MonitorGiven
  <2>5. Stays(m) /\ \A x \in Monitor \ {m} : Stays(x)
    BY <2>1, <2>2, <2>3, <2>4 DEF Stays
  <2>6. [id |-> m, version |-> monitor[m].version, token |-> probes + 1] \in Probe
    BY <1>0, <2>1 DEF Probe, MonitorRow
  <2>7. cycle' \in [Worker -> {None} \cup Probe]
    BY <1>4, <2>6 DEF Checks!Claim, MonitorsTyped
  <2> QED
    BY <1>0, <2>3, <2>4, <2>5, <2>7 DEF MonitorsTyped, ChecksGoes
<1>5. ASSUME NEW w \in Worker, NEW ok \in BOOLEAN, Checks!Finish(w, ok)
      PROVE  MonitorsTyped' /\ ChecksGoes /\ probes' = probes
  <2>1. cycle[w] # None /\ cycle' = [cycle EXCEPT ![w] = None] /\ probes' = probes
        /\ generation' = generation
    BY <1>5 DEF Checks!Finish
  <2>2. cycle' \in [Worker -> {None} \cup Probe] /\ cycle[w] \in Probe
    BY <2>1 DEF MonitorsTyped
  <2>3. CASE ~Checks!Holds(w)
    BY <1>5, <2>1, <2>2, <2>3 DEF Checks!Finish, MonitorsTyped, ChecksGoes, Stays
  <2>4. CASE Checks!Holds(w)
    <3>0. PICK m \in Monitor : m = cycle[w].id
      BY <2>2 DEF Probe
    <3> DEFINE row == [monitor[m] EXCEPT !.failures = Checks!Failures(m, ok),
                         !.incident = Checks!Incident(m, ok),
                         !.lease = None, !.live = FALSE, !.due = FALSE]
               s == [token |-> cycle[w].token, ok |-> ok, version |-> cycle[w].version]
    <3>1. /\ Checks!Exists(m) /\ monitor[m] \in MonitorRow
          /\ monitor[m].version = cycle[w].version /\ monitor[m].lease = cycle[w].token
             /\ monitor[m].live
      BY <1>0, <2>2, <2>4, <3>0 DEF Checks!Holds, Probe
    <3>2. Checks!Failures(m, ok) \in Nat /\ Checks!Incident(m, ok) \in BOOLEAN
      BY <3>1 DEF Checks!Failures, Checks!Incident, MonitorRow
    <3>3. Checks!Transition(m, ok) \in Seq({"down", "recovered"})
      <4>1. /\ <<>> \in Seq({"down", "recovered"}) /\ <<"down">> \in Seq({"down", "recovered"})
            /\ <<"recovered">> \in Seq({"down", "recovered"})
        OBVIOUS
      <4> QED
        BY <4>1 DEF Checks!Transition
    <3>4. /\ monitor' = [monitor EXCEPT ![m] = row]
          /\ samples' = [samples EXCEPT ![m] = Append(samples[m], s)]
          /\ told' = [told EXCEPT ![m] = told[m] \o Checks!Transition(m, ok)]
      BY <1>5, <2>4, <3>0 DEF Checks!Finish
    <3>5. row \in MonitorRow /\ row.version = monitor[m].version
          /\ row.failures = Checks!Failures(m, ok)
          /\ row.incident = Checks!Incident(m, ok) /\ row.live = FALSE
      BY <3>1, <3>2 DEF MonitorRow
    <3>6. s \in Sample
      BY <2>2 DEF Probe, Sample
    <3>7. s = [token |-> monitor[m].lease, ok |-> ok, version |-> monitor[m].version]
      BY <3>1
    <3> HIDE DEF row, s
    <3>8. /\ monitor'[m] = row /\ \A x \in Monitor \ {m} : monitor'[x] = monitor[x]
          /\ monitor' \in [Monitor -> {None, Gone} \cup MonitorRow]
          /\ Checks!Exists(m)'
      <4>1. row \in MonitorRow \cup {Gone} /\ row # Gone
            /\ monitor' = [monitor EXCEPT ![m] = row]
        BY <3>1, <3>4, <3>5 DEF MonitorGiven
      <4> QED
        BY <4>1, RowSet
    <3>9. /\ samples'[m] = Append(samples[m], s)
             /\ \A x \in Monitor \ {m} : samples'[x] = samples[x]
          /\ samples' \in [Monitor -> Seq(Sample)]
      BY <3>1, <3>4, <3>6 DEF MonitorsTyped
    <3>10. /\ told'[m] = told[m] \o Checks!Transition(m, ok)
              /\ \A x \in Monitor \ {m} : told'[x] = told[x]
           /\ told' \in [Monitor -> Seq({"down", "recovered"})]
      BY <3>1, <3>3, <3>4 DEF MonitorsTyped
    <3>11. Records(m)
      BY <3>1, <3>5, <3>7, <3>8, <3>9, <3>10 DEF Records
    <3>12. \A x \in Monitor \ {m} : Stays(x)
      BY <3>8, <3>9, <3>10 DEF Stays
    <3>13. MonitorsTyped'
      BY <2>1, <2>2, <3>8, <3>9, <3>10 DEF MonitorsTyped
    <3> QED
      BY <2>1, <3>11, <3>12, <3>13 DEF ChecksGoes
  <2> QED
    BY <2>3, <2>4, SMTT(30)
<1>6. ASSUME NEW w \in Worker, Checks!Drop(w)
      PROVE  MonitorsTyped' /\ ChecksGoes /\ probes' = probes
  BY <1>6 DEF Checks!Drop, MonitorsTyped, ChecksGoes, Stays
<1>7. ASSUME Checks!Restore
      PROVE  MonitorsTyped' /\ ChecksGoes /\ probes' = probes
  <2>1. /\ UNCHANGED <<samples, told, probes>> /\ generation' = generation + 1
        /\ cycle' = [x \in Worker |-> None]
        /\ monitor' = [m \in Monitor |-> IF Checks!Exists(m)
             THEN [monitor[m] EXCEPT !.enabled = FALSE, !.generation = generation + 1,
                     !.version = monitor[m].version + 1, !.lease = None, !.live = FALSE]
             ELSE monitor[m]]
    BY <1>7 DEF Checks!Restore
  <2>2. ASSUME NEW m \in Monitor
        PROVE  Stays(m) /\ monitor'[m] \in {None, Gone} \cup MonitorRow
    <3>1. CASE ~Checks!Exists(m)
      BY <2>1, <3>1 DEF Stays, MonitorsTyped
    <3>2. CASE Checks!Exists(m)
      <4>1. monitor[m] \in MonitorRow
        BY <1>0, <3>2
      <4>2. monitor'[m] = [monitor[m] EXCEPT !.enabled = FALSE, !.generation = generation + 1,
                     !.version = monitor[m].version + 1, !.lease = None, !.live = FALSE]
        BY <2>1, <3>2
      <4>3. /\ monitor'[m] \in MonitorRow /\ monitor'[m].version = monitor[m].version + 1
            /\ monitor'[m].failures = monitor[m].failures
               /\ monitor'[m].incident = monitor[m].incident
            /\ monitor'[m].live = FALSE
        <5>1. generation + 1 \in Nat /\ monitor[m].version + 1 \in Nat
          BY <1>0, <4>1 DEF MonitorRow
        <5> QED
          BY <4>1, <4>2, <5>1 DEF MonitorRow
      <4>4. Checks!Exists(m)'
        BY <4>3 DEF Checks!Exists, MonitorGiven
      <4> QED
        BY <2>1, <3>2, <4>3, <4>4 DEF Stays
    <3> QED
      BY <3>1, <3>2
  <2>3. monitor' \in [Monitor -> {None, Gone} \cup MonitorRow]
    BY <2>1, <2>2
  <2>4. cycle' \in [Worker -> {None} \cup Probe] /\ generation' \in Nat
    <3>1. generation + 1 \in Nat
      BY <1>0
    <3>2. \A x \in Worker : cycle'[x] \in {None} \cup Probe
      BY <2>1
    <3> QED
      BY <2>1, <3>1, <3>2
  <2>5. MonitorsTyped'
    BY <2>1, <2>3, <2>4 DEF MonitorsTyped
  <2> QED
    BY <2>1, <2>2, <2>5 DEF ChecksGoes
<1>8. CASE UNCHANGED Checks!vars
  BY <1>8 DEF Checks!vars, MonitorsTyped, ChecksGoes, Stays
<1> QED
  BY <1>1, <1>2, <1>3, <1>4, <1>5, <1>6, <1>7, <1>8 DEF Checks!Next

-----------------------------------------------------------------------------
\* One monitor's part of the invariant, kept by what a step does to it.
LEMMA StaysKeeps ==
  ASSUME MonitorGiven, MonitorsTyped, MonitorsTyped', NEW m \in Monitor, Sampled(m), Alternates(m),
         Stays(m), probes' \in {probes, probes + 1}
  PROVE  Sampled(m)' /\ Alternates(m)'
<1>1. /\ samples'[m] = samples[m] /\ told'[m] = told[m] /\ probes \in Nat /\ probes' \in Nat
      /\ probes <= probes' /\ (Checks!Exists(m) <=> monitor[m] \in MonitorRow)
      /\ samples[m] \in Seq(Sample)
  BY RowThere DEF Stays, MonitorsTyped
<1>2. \A i \in DOMAIN samples[m] : samples[m][i].token \in Nat /\ samples[m][i].version \in Nat
  <2>1. \A i \in DOMAIN samples[m] : samples[m][i] \in Sample
    BY <1>1
  <2> QED
    BY <2>1 DEF Sample
<1>3. Ordered(m)'
  BY <1>1, <1>2 DEF Sampled, Ordered
<1>4. CASE monitor'[m] = monitor[m]
  <2>1. Checks!Exists(m)' <=> Checks!Exists(m)
    BY <1>4 DEF Checks!Exists
  <2>2. LeaseIsNewest(m)'
    BY <1>1, <1>4, <2>1 DEF Sampled, LeaseIsNewest
  <2>3. VersionsArePast(m)' /\ FailuresAreLast(m)'
    BY <1>1, <1>4, <2>1 DEF Sampled, VersionsArePast, FailuresAreLast
  <2>4. Alternates(m)'
    BY <1>1, <1>4, <2>1 DEF Alternates
  <2> QED
    BY <1>3, <2>2, <2>3, <2>4 DEF Sampled
<1>5. CASE monitor'[m] = Gone
  BY <1>3, <1>5 DEF Sampled, LeaseIsNewest, VersionsArePast, FailuresAreLast, Alternates,
       Checks!Exists,
     MonitorGiven
<1>6. CASE /\ Checks!Exists(m) /\ Checks!Exists(m)'
           /\ monitor'[m].version \in {monitor[m].version, monitor[m].version + 1}
           /\ monitor'[m].failures = monitor[m].failures
           /\ monitor'[m].incident = monitor[m].incident
           /\ monitor'[m].live => \/ monitor[m].live /\ monitor'[m].lease = monitor[m].lease
                                  \/ monitor'[m].lease = probes + 1 /\ probes' = probes + 1
  <2>1. monitor[m].version \in Nat
    BY <1>1, <1>6 DEF MonitorRow
  <2>2. VersionsArePast(m)'
    BY <1>1, <1>2, <1>6, <2>1 DEF Sampled, VersionsArePast, Checks!Exists
  <2>3. LeaseIsNewest(m)'
    BY <1>1, <1>2, <1>6 DEF Sampled, LeaseIsNewest, Ordered
  <2>4. FailuresAreLast(m)' /\ Alternates(m)'
    BY <1>1, <1>6 DEF Sampled, FailuresAreLast, Alternates
  <2> QED
    BY <1>3, <2>2, <2>3, <2>4 DEF Sampled
<1> QED
  BY <1>4, <1>5, <1>6 DEF Stays

LEMMA StartsKeeps ==
  ASSUME MonitorGiven, MonitorsTyped, MonitorsTyped', NEW m \in Monitor, Sampled(m), Starts(m),
         probes' \in {probes, probes + 1}
  PROVE  Sampled(m)' /\ Alternates(m)'
<1>1. /\ samples'[m] = samples[m] /\ told'[m] = <<>> /\ probes \in Nat /\ probes <= probes'
      /\ (Checks!Exists(m) <=> monitor[m] \in MonitorRow) /\ samples[m] \in Seq(Sample)
         /\ monitor[m] # Gone
  BY RowThere DEF Starts, MonitorsTyped
<1>2. \A i \in DOMAIN samples[m] : samples[m][i].token \in Nat /\ samples[m][i].version \in Nat
  <2>1. \A i \in DOMAIN samples[m] : samples[m][i] \in Sample
    BY <1>1
  <2> QED
    BY <2>1 DEF Sample
<1>3. PICK enabled \in BOOLEAN : monitor'[m] = Checks!Row(Checks!Version(m) + 1, enabled)
  BY DEF Starts
<1>4. monitor'[m].version = Checks!Version(m) + 1 /\ ~monitor'[m].live /\ monitor'[m].failures = 0
      /\ monitor'[m].incident = FALSE
  BY <1>3 DEF Checks!Row
<1>5. Checks!Version(m) \in Nat
  BY <1>1 DEF Checks!Version, MonitorRow
<1>6. Checks!Row(Checks!Version(m) + 1, enabled) \in MonitorRow
  BY <1>5 DEF Checks!Row, MonitorRow, MonitorsTyped
<1>7. monitor'[m] # None
  BY <1>3, <1>6 DEF MonitorGiven
<1>8. \A i \in DOMAIN samples[m] : samples[m][i].version <= Checks!Version(m) + 1
  <2>1. CASE Checks!Exists(m)
    BY <1>2, <1>5, <2>1 DEF Sampled, VersionsArePast, Checks!Version
  <2>2. CASE ~Checks!Exists(m)
    <3>1. samples[m] = <<>>
      BY <1>1, <2>2 DEF Sampled, VersionsArePast, Checks!Exists
    <3> QED
      BY <3>1
  <2> QED
    BY <2>1, <2>2
<1>9. VersionsArePast(m)'
  BY <1>1, <1>4, <1>7, <1>8 DEF VersionsArePast
<1>10. Ordered(m)' /\ LeaseIsNewest(m)'
  BY <1>1, <1>2, <1>4 DEF Sampled, Ordered, LeaseIsNewest, MonitorsTyped
<1>11. FailuresAreLast(m)'
  BY <1>1, <1>4 DEF FailuresAreLast
<1>12. Alternates(m)'
  <2>1. DOMAIN <<>> = {} /\ Len(<<>>) = 0 /\ 0 % 2 # 1
    OBVIOUS
  <2>2. \A i \in DOMAIN told'[m] : told'[m][i] = IF i % 2 = 1 THEN "down" ELSE "recovered"
    BY <1>1, <2>1
  <2>3. monitor'[m].incident = (Len(told'[m]) % 2 = 1)
    BY <1>1, <1>4, <2>1
  <2> QED
    BY <2>2, <2>3 DEF Alternates
<1> QED
  BY <1>9, <1>10, <1>11, <1>12 DEF Sampled

LEMMA OddEven == \A k \in Nat : (k + 1) % 2 = 1 <=> k % 2 # 1
  OBVIOUS
LEMMA RecordsKeeps ==
  ASSUME MonitorGiven, MonitorsTyped, MonitorsTyped', NEW m \in Monitor, Sampled(m), Alternates(m),
         Records(m), probes' \in {probes, probes + 1}
  PROVE  Sampled(m)' /\ Alternates(m)'
<1>1. PICK ok \in BOOLEAN :
        /\ Checks!Exists(m) /\ Checks!Exists(m)' /\ monitor[m].live /\ ~monitor'[m].live
        /\ monitor'[m].version = monitor[m].version
        /\ monitor'[m].failures = Checks!Failures(m, ok)
           /\ monitor'[m].incident = Checks!Incident(m, ok)
        /\ samples'[m] = Append(samples[m], [token |-> monitor[m].lease, ok |-> ok,
                                             version |-> monitor[m].version])
        /\ told'[m] = told[m] \o Checks!Transition(m, ok)
  BY DEF Records
<1> DEFINE s == [token |-> monitor[m].lease, ok |-> ok, version |-> monitor[m].version]
           n == Len(samples[m])
<1>2. /\ monitor[m] \in MonitorRow /\ probes \in Nat /\ probes' \in Nat /\ probes <= probes'
      /\ samples[m] \in Seq(Sample) /\ told[m] \in Seq({"down", "recovered"})
  BY <1>1, RowThere DEF MonitorsTyped
<1>3. \A i \in DOMAIN samples[m] : samples[m][i].token \in Nat /\ samples[m][i].version \in Nat
  <2>1. \A i \in DOMAIN samples[m] : samples[m][i] \in Sample
    BY <1>2
  <2> QED
    BY <2>1 DEF Sample
<1>4. /\ monitor[m].lease \in Nat /\ monitor[m].lease <= probes
      /\ \A i \in DOMAIN samples[m] : samples[m][i].token < monitor[m].lease
  BY <1>1 DEF Sampled, LeaseIsNewest
<1>5. /\ n \in Nat /\ DOMAIN samples[m] = 1 .. n /\ DOMAIN samples'[m] = 1 .. n + 1
      /\ Len(samples'[m]) = n + 1 /\ samples'[m][n + 1] = s
      /\ \A i \in 1 .. n : samples'[m][i] = samples[m][i]
  BY <1>1, <1>2
<1>6. s.token = monitor[m].lease /\ s.ok = ok /\ s.version = monitor[m].version
  OBVIOUS
<1> HIDE DEF s, n
<1>7. Ordered(m)'
  <2>1. ASSUME NEW i \in 1 .. n + 1, NEW j \in 1 .. n + 1, i < j
        PROVE  samples'[m][i].token < samples'[m][j].token
    <3>1. i \in 1 .. n
      BY <1>5, <2>1
    <3>2. CASE j = n + 1
      BY <1>4, <1>5, <1>6, <3>1, <3>2
    <3>3. CASE j # n + 1
      <4>1. j \in 1 .. n
        BY <1>5, <3>3
      <4>2. samples[m][i].token < samples[m][j].token
        BY <1>5, <2>1, <3>1, <4>1 DEF Sampled, Ordered
      <4> QED
        BY <1>5, <3>1, <4>1, <4>2
    <3> QED
      BY <3>2, <3>3
  <2>2. ASSUME NEW i \in 1 .. n + 1
        PROVE  samples'[m][i].token <= probes'
    <3>1. CASE i = n + 1
      BY <1>2, <1>4, <1>5, <1>6, <3>1
    <3>2. CASE i # n + 1
      BY <1>2, <1>3, <1>5, <3>2 DEF Sampled, Ordered
    <3> QED
      BY <3>1, <3>2
  <2> QED
    BY <1>5, <2>1, <2>2 DEF Ordered
<1>8. LeaseIsNewest(m)'
  BY <1>1 DEF LeaseIsNewest
<1>9. VersionsArePast(m)'
  <2>1. monitor'[m] # None
    BY <1>1 DEF Checks!Exists
  <2>2. ASSUME NEW i \in 1 .. n + 1
        PROVE  samples'[m][i].version <= monitor'[m].version
    <3>1. CASE i = n + 1
      BY <1>1, <1>2, <1>5, <1>6, <3>1 DEF MonitorRow
    <3>2. CASE i # n + 1
      BY <1>1, <1>5, <3>2 DEF Sampled, VersionsArePast
    <3> QED
      BY <3>1, <3>2
  <2> QED
    BY <1>5, <2>1, <2>2 DEF VersionsArePast
<1>10. FailuresAreLast(m)'
  <2>1. CASE ok
    BY <1>1, <1>5, <2>1 DEF FailuresAreLast, Checks!Failures
  <2>2. CASE ~ok
    <3>1. /\ monitor'[m].failures = monitor[m].failures + 1 /\ monitor[m].failures \in Nat
          /\ monitor[m].failures <= n
          /\ \A i \in 1 .. monitor[m].failures : ~samples[m][n + 1 - i].ok
      BY <1>1, <1>2, <2>2 DEF Checks!Failures, MonitorRow, Sampled, FailuresAreLast, n
    <3>2. ASSUME NEW i \in 1 .. monitor[m].failures + 1
          PROVE  ~samples'[m][n + 2 - i].ok
      <4>1. CASE i = 1
        BY <1>5, <1>6, <2>2, <4>1
      <4>2. CASE i # 1
        <5>1. i - 1 \in 1 .. monitor[m].failures /\ n + 1 - (i - 1) = n + 2 - i
              /\ n + 2 - i \in 1 .. n
          BY <1>5, <3>1, <4>2
        <5>2. ~samples[m][n + 1 - (i - 1)].ok
          BY <3>1, <5>1
        <5> QED
          BY <1>5, <5>1, <5>2
      <4> QED
        BY <4>1, <4>2
    <3>3. \A i \in 1 .. monitor'[m].failures : ~samples'[m][Len(samples'[m]) + 1 - i].ok
      <4>1. \A i \in 1 .. monitor[m].failures + 1 : n + 1 + 1 - i = n + 2 - i
        BY <1>5, <3>1
      <4> QED
        BY <1>5, <3>1, <3>2, <4>1
    <3> QED
      BY <1>5, <3>1, <3>3 DEF FailuresAreLast
  <2> QED
    BY <2>1, <2>2
<1>11. Alternates(m)'
  <2> DEFINE k == Len(told[m])
  <2>1. /\ \A i \in DOMAIN told[m] : told[m][i] = IF i % 2 = 1 THEN "down" ELSE "recovered"
        /\ monitor[m].incident = (k % 2 = 1) /\ k \in Nat /\ DOMAIN told[m] = 1 .. k
    <3>1. k \in Nat /\ DOMAIN told[m] = 1 .. k
      BY <1>2
    <3> QED
      BY <1>1, <3>1 DEF Alternates
  <2>2. CASE Checks!Transition(m, ok) = <<>> /\ monitor'[m].incident = monitor[m].incident
    <3>1. told'[m] = told[m]
      BY <1>1, <1>2, <2>2
    <3> QED
      BY <2>1, <2>2, <3>1 DEF Alternates
  <2>3. ASSUME NEW word, Checks!Transition(m, ok) = <<word>>, monitor'[m].incident = (k % 2 # 1),
               word = IF k % 2 # 1 THEN "down" ELSE "recovered"
        PROVE  Alternates(m)'
    <3>1. /\ DOMAIN told'[m] = 1 .. k + 1 /\ Len(told'[m]) = k + 1 /\ told'[m][k + 1] = word
          /\ \A i \in 1 .. k : told'[m][i] = told[m][i]
      <4>1. told'[m] = told[m] \o <<word>>
        BY <1>1, <2>3
      <4>2. told'[m] = Append(told[m], word)
        BY <1>2, <4>1
      <4> QED
        BY <1>2, <2>1, <4>2
    <3>2. (k + 1) % 2 = 1 <=> k % 2 # 1
      BY <2>1, OddEven
    <3> HIDE DEF k
    <3>3. \A i \in 1 .. k + 1 : told'[m][i] = IF i % 2 = 1 THEN "down" ELSE "recovered"
      <4> SUFFICES ASSUME NEW i \in 1 .. k + 1
                   PROVE  told'[m][i] = IF i % 2 = 1 THEN "down" ELSE "recovered"
        OBVIOUS
      <4>1. CASE i = k + 1
        BY <2>3, <3>1, <3>2, <4>1
      <4>2. CASE i # k + 1
        <5>1. i \in 1 .. k
          BY <2>1, <4>2
        <5> QED
          BY <2>1, <3>1, <5>1
      <4> QED
        BY <4>1, <4>2
    <3> QED
      BY <2>3, <3>1, <3>2, <3>3 DEF Alternates
  <2> HIDE DEF k
  <2>a. monitor[m].incident \in BOOLEAN /\ Checks!Incident(m, ok) \in BOOLEAN
        /\ monitor'[m].incident = Checks!Incident(m, ok)
    BY <1>1, <1>2 DEF MonitorRow, Checks!Incident
  <2>4. CASE monitor[m].incident /\ ok
    <3>1. Checks!Transition(m, ok) = <<"recovered">> /\ ~Checks!Incident(m, ok)
      BY <2>4 DEF Checks!Transition, Checks!Incident
    <3> QED
      BY <2>1, <2>3, <2>4, <2>a, <3>1
  <2>5. CASE monitor[m].incident /\ ~ok
    <3>1. Checks!Transition(m, ok) = <<>> /\ Checks!Incident(m, ok)
      BY <2>5 DEF Checks!Transition, Checks!Incident
    <3> QED
      BY <2>2, <2>5, <2>a, <3>1
  <2>6. CASE ~monitor[m].incident /\ Checks!Incident(m, ok)
    <3>1. Checks!Transition(m, ok) = <<"down">>
      BY <2>6 DEF Checks!Transition
    <3> QED
      BY <2>1, <2>3, <2>6, <2>a, <3>1
  <2>7. CASE ~monitor[m].incident /\ ~Checks!Incident(m, ok)
    <3>1. Checks!Transition(m, ok) = <<>>
      BY <2>7 DEF Checks!Transition
    <3> QED
      BY <2>2, <2>7, <2>a, <3>1
  <2> QED
    BY <2>4, <2>5, <2>6, <2>7
<1> QED
  BY <1>7, <1>8, <1>9, <1>10, <1>11 DEF Sampled

LEMMA MonitorInvariant == ASSUME MonitorGiven PROVE Checks!Spec => []MonitorIInv
<1>1. Checks!Init => MonitorIInv
  BY MonitorInit
<1>2. MonitorIInv /\ [Checks!Next]_(Checks!vars) => MonitorIInv'
  <2> SUFFICES ASSUME MonitorIInv, [Checks!Next]_(Checks!vars) PROVE MonitorIInv'
    OBVIOUS
  <2>1. MonitorsTyped /\ MonitorsTyped' /\ ChecksGoes /\ probes' \in {probes, probes + 1}
    BY MonitorSteps DEF MonitorIInv
  <2>2. ASSUME NEW m \in Monitor PROVE Sampled(m)' /\ Alternates(m)'
    BY <2>1, StaysKeeps, StartsKeeps, RecordsKeeps DEF ChecksGoes, MonitorIInv
  <2> QED
    BY <2>1, <2>2 DEF MonitorIInv
<1> QED
  BY <1>1, <1>2, PTL DEF Checks!Spec

\* No result of an older probe counts after that of a newer one, and the failures that
\* decide about an incident are the last results (monitors.rs: configuration and
\* generation fence late results).
THEOREM MonitorResults == ASSUME MonitorGiven PROVE Checks!Spec => []Checks!ResultsInOrder
<1>1. MonitorIInv => Checks!ResultsInOrder
  <2> SUFFICES ASSUME MonitorIInv, NEW m \in Monitor
               PROVE  /\ \A i, j \in DOMAIN samples[m] : i < j
                           => samples[m][i].token < samples[m][j].token
                      /\ Checks!Exists(m) => /\ monitor[m].failures <= Len(samples[m])
                                             /\ Checks!Streak(m, monitor[m].failures)
    BY DEF Checks!ResultsInOrder
  <2>1. Sampled(m) /\ MonitorsTyped
    BY DEF MonitorIInv
  <2>2. ASSUME Checks!Exists(m), NEW i \in 1 .. monitor[m].failures
        PROVE  LET s == samples[m][Len(samples[m]) + 1 - i] IN
                 ~s.ok /\ s.version <= monitor[m].version
    <3>1. monitor[m].failures \in Nat /\ samples[m] \in Seq(Sample)
          /\ monitor[m].failures <= Len(samples[m])
      BY <2>1, <2>2, RowThere DEF MonitorsTyped, MonitorRow, Sampled, FailuresAreLast
    <3>2. Len(samples[m]) + 1 - i \in DOMAIN samples[m]
      BY <3>1
    <3> QED
      BY <2>1, <2>2, <3>2 DEF Sampled, FailuresAreLast, VersionsArePast
  <2> QED
    BY <2>1, <2>2 DEF Sampled, Ordered, FailuresAreLast, Checks!Streak
<1> QED
  BY <1>1, MonitorInvariant, PTL

\* The team hears of an incident once, and once of its end (monitors.rs, finish).
THEOREM MonitorIncidents == ASSUME MonitorGiven PROVE Checks!Spec => []Checks!IncidentsAlternate
<1>1. MonitorIInv => Checks!IncidentsAlternate
  BY DEF MonitorIInv, Alternates, Checks!IncidentsAlternate
<1> QED
  BY <1>1, MonitorInvariant, PTL

(***************************************************************************)
(* WebChecks.  A check has finitely many runs, and its health is what the  *)
(* run says that was created last of those that finished; an incident is   *)
(* told when it opens and when it ends.                                    *)
(***************************************************************************)
Healths == {"unknown", "healthy", "degraded", "failing", "monitor-error"}
CheckRow == [version : Nat \ {0}, enabled : BOOLEAN, alerts : BOOLEAN, health : Healths,
             incident : BOOLEAN, due : BOOLEAN]
RunRow == [check : Check, version : Nat \ {0}, generation : Nat,
           status : Web!Active \cup Web!Finished \cup {"cancelled"}, late : BOOLEAN, kept : BOOLEAN]

\* A project has finitely many checks, and None and Gone are none of their rows.
WebGiven ==
    /\ IsFiniteSet(Check) /\ Home \in [Check -> Project] /\ MaxPending \in Nat
    /\ MaxVersion \in Nat \ {0} /\ MaxGeneration \in Nat \ {0}
    /\ None # Gone /\ None \notin CheckRow /\ Gone \notin CheckRow

WebDataOK ==
    /\ check \in [Check -> CheckRow \cup {None, Gone}] /\ runs \in Seq(RunRow)
    /\ notified \in [Check -> Seq({"down", "recovered"})]
    /\ round \in 1..MaxGeneration
    /\ \A c \in Check : check[c] = None => notified[c] = <<>>
    /\ \A c \in Check : Web!Exists(c) => check[c].version <= MaxVersion + round - 1

\* A run that was dropped is older than every run under way.
DroppedAreOld ==
    \A r \in DOMAIN runs : ~runs[r].kept => \A s \in 1..r : runs[s].status \notin Web!Active

\* A run is of a version that its check has or had.
RunsAreOfChecks ==
    \A r \in DOMAIN runs :
        /\ check[runs[r].check] # None
        /\ Web!Exists(runs[r].check) => runs[r].version <= check[runs[r].check].version

\* Answers(c, m): m is the run of check c that was created last of those that finished.
Done(c) == {r \in Web!Current(c) : runs[r].status \in Web!Finished}
Answers(c, m) == m \in Done(c) /\ \A s \in Done(c) : s <= m
Agrees(health, status) ==
    health \in CASE status = "passed" -> {"healthy"}
                 [] status = "error"  -> {"monitor-error"}
                 [] status = "failed" -> {"degraded", "failing"}
HealthIsOfAnswer ==
    \A c \in Check : Web!Exists(c) /\ check[c].health # "unknown" =>
        \A m \in DOMAIN runs : Answers(c, m) => Agrees(check[c].health, runs[m].status)

PendingBounded == \A p \in Project : Cardinality(Web!Pending(runs, p)) <= MaxPending

WebIInv ==
    /\ WebDataOK /\ DroppedAreOld /\ RunsAreOfChecks /\ HealthIsOfAnswer
    /\ Web!IncidentsAlternate /\ PendingBounded

-----------------------------------------------------------------------------
\* Rows of a sequence.
LEMMA WebRows ==
  ASSUME WebDataOK
  PROVE  /\ \A r \in DOMAIN runs : runs[r] \in RunRow /\ runs[r].check \in Check
         /\ DOMAIN runs = 1..Len(runs) /\ Len(runs) \in Nat
         /\ \A c \in Check : Web!Exists(c) => check[c] \in CheckRow
<1>1. runs \in Seq(RunRow)
  BY DEF WebDataOK
<1>2. DOMAIN runs = 1..Len(runs) /\ Len(runs) \in Nat
  BY <1>1
<1>3. \A r \in DOMAIN runs : runs[r] \in RunRow
  BY <1>1, <1>2
<1>4. \A r \in DOMAIN runs : runs[r].check \in Check
  BY <1>3 DEF RunRow
<1>5. \A c \in Check : Web!Exists(c) => check[c] \in CheckRow
  BY DEF WebDataOK, Web!Exists
<1> QED
  BY <1>2, <1>3, <1>4, <1>5

\* What is under way in a project is a finite set.
LEMMA PendingFinite ==
  ASSUME NEW rs, NEW n \in Nat, DOMAIN rs = 1..n, NEW p
  PROVE  IsFiniteSet(Web!Pending(rs, p)) /\ Cardinality(Web!Pending(rs, p)) \in Nat
<1>1. IsFiniteSet(1..n)
  BY FS_Interval
<1>2. Web!Pending(rs, p) \in SUBSET (1..n)
  BY DEF Web!Pending
<1> QED
  BY <1>1, <1>2, FS_Subset, FS_CardinalityType

\* A set of numbers up to n that is not empty has a greatest one: the set of those from
\* it on is minimal among such sets.
LEMMA Greatest ==
  ASSUME NEW n \in Nat, NEW S \in SUBSET (1..n), S # {}
  PROVE  \E x \in S : \A y \in S : x >= y
<1> DEFINE From(x) == {y \in S : y >= x}
           T == {From(x) : x \in S}
           R == StrictSubsetOrdering(S)
<1>0. IsFiniteSet(S)
  <2>1. IsFiniteSet(1..n)
    BY FS_Interval
  <2> QED
    BY <2>1, FS_Subset
<1>1. T \subseteq FiniteSubsetsOf(S)
  <2> SUFFICES ASSUME NEW x \in S PROVE From(x) \in FiniteSubsetsOf(S)
    OBVIOUS
  <2>1. From(x) \in SUBSET S
    OBVIOUS
  <2>2. IsFiniteSet(From(x))
    <3> HIDE DEF From
    <3> QED
      BY <1>0, <2>1, FS_Subset
  <2> QED
    <3> HIDE DEF From
    <3> QED
      BY <2>1, <2>2 DEF FiniteSubsetsOf
<1>2. IsWellFoundedOn(R, FiniteSubsetsOf(S))
  BY FS_StrictSubsetOrderingWellFounded
<1>3. T # {}
  OBVIOUS
<1>4. \E U \in T : \A V \in T : ~ (<<V, U>> \in R)
  <2> HIDE DEF T, R
  <2> QED
    BY <1>1, <1>2, <1>3, WFMin
<1>5. PICK x \in S : \A V \in T : ~ (<<V, From(x)>> \in R)
  BY <1>4
<1>6. ASSUME NEW y \in S, ~(x >= y) PROVE FALSE
  <2>1. x \in Nat /\ y \in Nat /\ y > x
    BY <1>6
  <2>2. From(y) \in SUBSET S /\ From(x) \in SUBSET S
    OBVIOUS
  <2>3. From(y) \subseteq From(x)
    <3> SUFFICES ASSUME NEW z \in S, z >= y PROVE z >= x
      OBVIOUS
    <3>1. z \in Nat
      OBVIOUS
    <3> QED
      BY <2>1, <3>1
  <2>4. x \in From(x) /\ x \notin From(y)
    BY <2>1
  <2>5. <<From(y), From(x)>> \in R
    <3> HIDE DEF From
    <3> QED
      BY <2>2, <2>3, <2>4 DEF StrictSubsetOrdering
  <2> QED
    BY <1>5, <2>5
<1> QED
  BY <1>6

\* A set of numbers up to n that is not empty has a least one: the set of those up to
\* it is minimal among such sets.
LEMMA Least ==
  ASSUME NEW n \in Nat, NEW S \in SUBSET (1..n), S # {}
  PROVE  \E x \in S : \A y \in S : x <= y
<1> DEFINE UpTo(x) == {y \in S : y <= x}
           T == {UpTo(x) : x \in S}
           R == StrictSubsetOrdering(S)
<1>0. IsFiniteSet(S)
  <2>1. IsFiniteSet(1..n)
    BY FS_Interval
  <2> QED
    BY <2>1, FS_Subset
<1>1. T \subseteq FiniteSubsetsOf(S)
  <2> SUFFICES ASSUME NEW x \in S PROVE UpTo(x) \in FiniteSubsetsOf(S)
    OBVIOUS
  <2>1. UpTo(x) \in SUBSET S
    OBVIOUS
  <2>2. IsFiniteSet(UpTo(x))
    <3> HIDE DEF UpTo
    <3> QED
      BY <1>0, <2>1, FS_Subset
  <2> QED
    <3> HIDE DEF UpTo
    <3> QED
      BY <2>1, <2>2 DEF FiniteSubsetsOf
<1>2. IsWellFoundedOn(R, FiniteSubsetsOf(S))
  BY FS_StrictSubsetOrderingWellFounded
<1>3. T # {}
  OBVIOUS
<1>4. \E U \in T : \A V \in T : ~ (<<V, U>> \in R)
  <2> HIDE DEF T, R
  <2> QED
    BY <1>1, <1>2, <1>3, WFMin
<1>5. PICK x \in S : \A V \in T : ~ (<<V, UpTo(x)>> \in R)
  BY <1>4
<1>6. ASSUME NEW y \in S, ~(x <= y) PROVE FALSE
  <2>1. x \in Nat /\ y \in Nat /\ y < x
    BY <1>6
  <2>2. UpTo(y) \in SUBSET S /\ UpTo(x) \in SUBSET S
    OBVIOUS
  <2>3. UpTo(y) \subseteq UpTo(x)
    <3> SUFFICES ASSUME NEW z \in S, z <= y PROVE z <= x
      OBVIOUS
    <3>1. z \in Nat
      OBVIOUS
    <3> QED
      BY <2>1, <3>1
  <2>4. x \in UpTo(x) /\ x \notin UpTo(y)
    BY <2>1
  <2>5. <<UpTo(y), UpTo(x)>> \in R
    <3> HIDE DEF UpTo
    <3> QED
      BY <2>2, <2>3, <2>4 DEF StrictSubsetOrdering
  <2> QED
    BY <1>5, <2>5
<1> QED
  BY <1>6

\* The one member of a set that no other exceeds is its maximum.
LEMMA MaxIs ==
  ASSUME NEW S \in SUBSET Nat, NEW m \in S, \A y \in S : y <= m
  PROVE  Web!Max(S) = m
<1>1. \A y \in S : m >= y
  OBVIOUS
<1>2. Web!Max(S) \in S /\ \A y \in S : Web!Max(S) >= y
  BY <1>1 DEF Web!Max
<1>3. m >= Web!Max(S) /\ Web!Max(S) >= m /\ m \in Nat /\ Web!Max(S) \in Nat
  BY <1>1, <1>2
<1> QED
  BY <1>3

\* There are no checks, no runs and no incidents.
LEMMA WebInit == ASSUME WebGiven, Web!Init PROVE WebIInv
<1>1. WebDataOK /\ DroppedAreOld /\ RunsAreOfChecks /\ HealthIsOfAnswer /\ Web!IncidentsAlternate
  BY DEF Web!Init, WebGiven, WebDataOK, DroppedAreOld, RunsAreOfChecks, HealthIsOfAnswer,
  Web!Exists,
         Web!IncidentsAlternate
<1>2. \A p \in Project : Web!Pending(runs, p) = {}
  BY DEF Web!Init, Web!Pending
<1>3. PendingBounded
  BY <1>2, FS_EmptySet DEF PendingBounded, WebGiven
<1> QED
  BY <1>1, <1>3 DEF WebIInv

\* An action that adds no run and drops none leaves no more under way.
Fewer ==
    /\ runs' \in Seq(RunRow) /\ Len(runs') = Len(runs)
    /\ \A r \in DOMAIN runs : /\ runs'[r].check = runs[r].check
                              /\ runs'[r].version = runs[r].version
                              /\ runs'[r].kept = runs[r].kept
                              /\ runs'[r].status \in Web!Active => runs[r].status \in Web!Active

\* Then the bound on the runs under way holds, and what is dropped stays old.
LEMMA FewerPending ==
  ASSUME WebGiven, WebIInv, Fewer
  PROVE  PendingBounded' /\ DroppedAreOld'
<1>1. DOMAIN runs = 1..Len(runs) /\ DOMAIN runs' = DOMAIN runs /\ Len(runs) \in Nat
  BY DEF Fewer, WebIInv, WebDataOK
<1>2. DroppedAreOld'
  <2> SUFFICES ASSUME NEW r \in DOMAIN runs, ~runs'[r].kept, NEW s \in 1..r
               PROVE  runs'[s].status \notin Web!Active
    BY <1>1 DEF DroppedAreOld
  <2>1. s \in DOMAIN runs
    BY <1>1
  <2> QED
    BY <2>1 DEF WebIInv, DroppedAreOld, Fewer
<1>3. PendingBounded'
  <2> SUFFICES ASSUME NEW p \in Project PROVE Cardinality(Web!Pending(runs', p)) <= MaxPending
    BY DEF PendingBounded, Web!Pending
  <2>1. Web!Pending(runs', p) \in SUBSET Web!Pending(runs, p)
    BY <1>1 DEF Web!Pending, Fewer
  <2>2. IsFiniteSet(Web!Pending(runs, p)) /\ Cardinality(Web!Pending(runs, p)) \in Nat
    BY <1>1, PendingFinite
  <2>3. /\ Cardinality(Web!Pending(runs', p)) <= Cardinality(Web!Pending(runs, p))
        /\ Cardinality(Web!Pending(runs', p)) \in Nat
    BY <2>1, <2>2, FS_Subset, FS_CardinalityType
  <2> QED
    BY <2>2, <2>3 DEF WebIInv, PendingBounded, WebGiven
<1> QED
  BY <1>2, <1>3

\* Nor does such an action change what a check answers with, if its finished runs stay.
LEMMA SameAnswers ==
  ASSUME WebIInv, Fewer, NEW c \in Check, Web!Exists(c), Web!Exists(c)',
         check'[c].version = check[c].version,
         \A r \in DOMAIN runs : runs[r].check = c
         /\ (runs[r].status \in Web!Finished \/ runs'[r].status \in Web!Finished)
                                  => runs'[r].status = runs[r].status
  PROVE  \A m \in DOMAIN runs' : Answers(c, m)' => Answers(c, m) /\ runs'[m].status = runs[m].status
<1>1. DOMAIN runs = 1..Len(runs) /\ DOMAIN runs' = DOMAIN runs
  BY DEF Fewer, WebIInv, WebDataOK
<1>2. Web!Current(c)' = Web!Current(c)
  BY <1>1 DEF Web!Current, Web!Of, Fewer
<1>3. \A r \in Web!Current(c) : r \in DOMAIN runs /\ runs[r].check = c
  BY DEF Web!Current, Web!Of
<1>4. Done(c)' = Done(c)
  BY <1>2, <1>3 DEF Done
<1> QED
  BY <1>3, <1>4 DEF Answers, Done

\* What a new version of a check answers: nothing, it has no run yet.
LEMMA NewVersion ==
  ASSUME WebIInv, Fewer, NEW c \in Check, Web!Exists(c), Web!Exists(c)',
         check'[c].version > check[c].version
  PROVE  Web!Current(c)' = {}
<1>1. DOMAIN runs' = DOMAIN runs
  BY DEF Fewer, WebIInv, WebDataOK
<1> SUFFICES ASSUME NEW r \in DOMAIN runs, runs'[r].check = c, runs'[r].version = check'[c].version
             PROVE  FALSE
  BY <1>1 DEF Web!Current, Web!Of
<1>2. runs[r].version <= check[c].version
  BY DEF WebIInv, RunsAreOfChecks, Fewer
<1>3. runs[r].version \in Nat /\ check[c].version \in Nat
  BY WebRows DEF WebIInv, RunRow, CheckRow
<1> QED
  BY <1>2, <1>3 DEF Fewer

\* Cancelling changes the runs under way only.
LEMMA CancelledRuns ==
  ASSUME WebDataOK, NEW which
  PROVE  /\ Web!Cancelled(which) \in Seq(RunRow) /\ Len(Web!Cancelled(which)) = Len(runs)
         /\ \A r \in DOMAIN runs :
              LET n == Web!Cancelled(which)[r] IN
              /\ n.check = runs[r].check /\ n.version = runs[r].version /\ n.kept = runs[r].kept
              /\ n.status \in Web!Active => runs[r].status \in Web!Active
              /\ runs[r].status \in Web!Finished \/ n.status \in Web!Finished
                   => n.status = runs[r].status
<1>0. DOMAIN runs = 1..Len(runs) /\ Len(runs) \in Nat
  BY WebRows
<1>1. \A r \in DOMAIN runs :
        /\ Web!Cancelled(which)[r] \in RunRow
        /\ Web!Cancelled(which)[r].check = runs[r].check
           /\ Web!Cancelled(which)[r].version = runs[r].version
        /\ Web!Cancelled(which)[r].kept = runs[r].kept
        /\ Web!Cancelled(which)[r].status \in Web!Active => runs[r].status \in Web!Active
        /\ runs[r].status \in Web!Finished \/ Web!Cancelled(which)[r].status \in Web!Finished
             => Web!Cancelled(which)[r].status = runs[r].status
  <2> SUFFICES ASSUME NEW r \in DOMAIN runs
               PROVE  /\ Web!Cancelled(which)[r] \in RunRow
                      /\ Web!Cancelled(which)[r].check = runs[r].check
                      /\ Web!Cancelled(which)[r].version = runs[r].version
                      /\ Web!Cancelled(which)[r].kept = runs[r].kept
                      /\ Web!Cancelled(which)[r].status \in Web!Active
                           => runs[r].status \in Web!Active
                      /\ runs[r].status \in Web!Finished
                           \/ Web!Cancelled(which)[r].status \in Web!Finished
                           => Web!Cancelled(which)[r].status = runs[r].status
    OBVIOUS
  <2>1. runs[r] \in RunRow
    BY WebRows
  <2>2. Web!Cancelled(which)[r] = IF r \in which /\ runs[r].status \in Web!Active
                              THEN [runs[r] EXCEPT !.status = "cancelled"] ELSE runs[r]
    BY DEF Web!Cancelled
  <2> QED
    BY <2>1, <2>2 DEF RunRow, Web!Active, Web!Finished
<1>2. Web!Cancelled(which) \in Seq(RunRow) /\ Len(Web!Cancelled(which)) = Len(runs)
  <2>1. Web!Cancelled(which) = [r \in 1..Len(runs) |-> Web!Cancelled(which)[r]]
    BY <1>0 DEF Web!Cancelled
  <2> QED
    BY <1>0, <1>1, <2>1
<1> QED
  BY <1>1, <1>2

\* An unchanged table.
LEMMA SameRuns ==
  ASSUME WebDataOK, runs' = runs
  PROVE  Fewer
  BY DEF Fewer, WebDataOK

\* Rows of runs follow their checks while the checks grow no younger.
LEMMA ChecksGrow ==
  ASSUME WebIInv, Fewer,
         \A c \in Check : check[c] # None =>
            check'[c] # None
            /\ (Web!Exists(c)' => Web!Exists(c) /\ check'[c].version >= check[c].version),
         check' \in [Check -> CheckRow \cup {None, Gone}]
  PROVE  RunsAreOfChecks'
<1>1. DOMAIN runs' = DOMAIN runs
  BY DEF Fewer, WebIInv, WebDataOK
<1>2. \A r \in DOMAIN runs : runs'[r].check = runs[r].check /\ runs'[r].version = runs[r].version
  BY DEF Fewer
<1> SUFFICES ASSUME NEW r \in DOMAIN runs, NEW c, c = runs[r].check
             PROVE  /\ check'[c] # None
                    /\ check'[c] \notin {None, Gone} => runs[r].version <= check'[c].version
  BY <1>1, <1>2 DEF RunsAreOfChecks, Web!Exists
<1>3. /\ c \in Check /\ check[c] # None
      /\ Web!Exists(c) => runs[r].version <= check[c].version
  BY WebRows DEF WebIInv, RunsAreOfChecks
<1>4. check'[c] # None
  BY <1>3
<1>5. ASSUME check'[c] \notin {None, Gone} PROVE runs[r].version <= check'[c].version
  <2>1. Web!Exists(c)'
    BY <1>5 DEF Web!Exists
  <2>2. Web!Exists(c) /\ check'[c].version >= check[c].version
    BY <1>3, <2>1
  <2>3. runs[r].version \in Nat
    BY WebRows DEF WebIInv, RunRow
  <2>4. check[c].version \in Nat
    BY <1>3, <2>2, WebRows DEF WebIInv, CheckRow
  <2>5. check'[c] \in CheckRow
    <3>1. check'[c] \in CheckRow \cup {None, Gone}
      BY <1>3
    <3> QED
      BY <1>5, <3>1
  <2>6. check'[c].version \in Nat
    BY <2>5 DEF CheckRow
  <2> QED
    BY <1>3, <2>2, <2>3, <2>4, <2>6
<1> QED
  BY <1>4, <1>5

\* What the team was told of one check alternates; it does so while nothing is told and
\* the check keeps its incident and its alerts, and when nothing was told as yet.
WebAlternates(c) ==
  Web!Exists(c) /\ check[c].alerts =>
    /\ \A i \in DOMAIN notified[c] : notified[c][i] = IF i % 2 = 1 THEN "down" ELSE "recovered"
    /\ check[c].incident = (Len(notified[c]) % 2 = 1)

\* Said check by check.
LEMMA AllAlternate == WebIInv => \A c \in Check : WebAlternates(c)
  BY DEF WebIInv, Web!IncidentsAlternate, WebAlternates

\* A check whose incident and notices stay alternates as before.
LEMMA StillAlternates ==
  ASSUME NEW c \in Check, WebAlternates(c), Web!Exists(c)' <=> Web!Exists(c),
         notified'[c] = notified[c],
         Web!Exists(c) => check'[c].incident = check[c].incident
         /\ check'[c].alerts = check[c].alerts
  PROVE  WebAlternates(c)'
  BY DEF WebAlternates

\* A check of which nobody was told has no incident.
LEMMA NobodyTold ==
  ASSUME NEW c \in Check, notified'[c] = <<>>, check'[c].incident = FALSE
  PROVE  WebAlternates(c)'
<1>1. Len(notified'[c]) % 2 # 1 /\ DOMAIN notified'[c] = {}
  OBVIOUS
<1>2. check'[c].incident = (Len(notified'[c]) % 2 = 1)
  BY <1>1
<1> QED
  BY <1>1, <1>2 DEF WebAlternates

-----------------------------------------------------------------------------
\* A row as it is created or edited: unknown, and without incident.
LEMMA NewRow ==
  ASSUME NEW v \in Nat \ {0}, NEW e \in BOOLEAN, NEW a \in BOOLEAN
  PROVE  /\ Web!Row(v, e, a) \in CheckRow /\ Web!Row(v, e, a).version = v
            /\ Web!Row(v, e, a).alerts = a
         /\ Web!Row(v, e, a).health = "unknown" /\ Web!Row(v, e, a).incident = FALSE
  BY DEF Web!Row, CheckRow, Healths

\* A check is created.
LEMMA CreateStep == ASSUME WebGiven, WebIInv, NEW c \in Check, Web!Create(c) PROVE WebIInv'
<1>1. PICK e \in BOOLEAN, a \in BOOLEAN :
        check[c] = None /\ check' = [check EXCEPT ![c] = Web!Row(1, e, a)]
  BY DEF Web!Create
<1>2. UNCHANGED <<runs, notified, fence, paused, round>>
  BY DEF Web!Create
<1>3. /\ Web!Row(1, e, a) \in CheckRow /\ Web!Row(1, e, a).version = 1
         /\ Web!Row(1, e, a).health = "unknown"
      /\ Web!Row(1, e, a).incident = FALSE
  <2>1. 1 \in Nat \ {0}
    OBVIOUS
  <2> QED
    BY <2>1, NewRow, ZenonT(40)
<1>4. /\ check' \in [Check -> CheckRow \cup {None, Gone}] /\ check'[c] = Web!Row(1, e, a)
      /\ \A d \in Check : d # c => check'[d] = check[d] /\ (Web!Exists(d)' <=> Web!Exists(d))
      /\ Web!Exists(c)'
  BY <1>1, <1>3 DEF WebIInv, WebDataOK, Web!Exists, WebGiven
<1>5. Fewer
  BY <1>2, SameRuns DEF WebIInv
<1>6. WebDataOK'
  BY <1>1, <1>2, <1>3, <1>4 DEF WebIInv, WebDataOK, WebGiven
<1>7. RunsAreOfChecks'
  BY <1>1, <1>4, <1>5, ChecksGrow DEF WebIInv, WebDataOK, CheckRow, Web!Exists
<1>8. HealthIsOfAnswer'
  <2> SUFFICES ASSUME NEW d \in Check, Web!Exists(d)', check'[d].health # "unknown",
                      NEW m \in DOMAIN runs', Answers(d, m)'
               PROVE  Agrees(check'[d].health, runs'[m].status)
    BY DEF HealthIsOfAnswer, Agrees
  <2>1. d # c
    BY <1>3, <1>4
  <2> QED
    BY <1>2, <1>4, <1>5, <2>1, SameAnswers DEF WebIInv, HealthIsOfAnswer
<1>9. Web!IncidentsAlternate'
  <2>1. notified[c] = <<>>
    BY <1>1 DEF WebIInv, WebDataOK
  <2>2. WebAlternates(c)'
    BY <1>2, <1>3, <1>4, <2>1, NobodyTold
  <2>3. \A d \in Check : d # c => WebAlternates(d)'
    BY <1>2, <1>4, AllAlternate, StillAlternates
  <2> QED
    BY <2>2, <2>3 DEF Web!IncidentsAlternate, WebAlternates
<1> QED
  BY <1>5, <1>6, <1>7, <1>8, <1>9, FewerPending DEF WebIInv

\* A check is edited: its runs are cancelled and its history begins anew.
LEMMA UpdateStep == ASSUME WebGiven, WebIInv, NEW c \in Check, Web!Update(c) PROVE WebIInv'
<1>1. PICK e \in BOOLEAN, a \in BOOLEAN :
        check' = [check EXCEPT ![c] = Web!Row(check[c].version + 1, e, a)]
  BY DEF Web!Update
<1>2. /\ Web!Exists(c) /\ check[c].version < MaxVersion /\ runs' = Web!Cancelled(Web!Of(c))
      /\ notified' = [notified EXCEPT ![c] = <<>>] /\ UNCHANGED <<fence, paused, round>>
  BY DEF Web!Update
<1>3. check[c].version \in Nat \ {0} /\ check[c] \in CheckRow
  BY <1>2, WebRows DEF WebIInv, CheckRow
<1> DEFINE row == Web!Row(check[c].version + 1, e, a)
<1>4. /\ row \in CheckRow /\ row.version = check[c].version + 1 /\ row.health = "unknown"
      /\ row.incident = FALSE
  <2>1. PICK v \in Nat \ {0} : v = check[c].version + 1
    BY <1>3
  <2>2. /\ Web!Row(v, e, a) \in CheckRow /\ Web!Row(v, e, a).version = v
        /\ Web!Row(v, e, a).health = "unknown" /\ Web!Row(v, e, a).incident = FALSE
    BY NewRow, ZenonT(40)
  <2> QED
    BY <2>1, <2>2
<1>5. /\ check' \in [Check -> CheckRow \cup {None, Gone}] /\ check'[c] = row
      /\ \A d \in Check : d # c => check'[d] = check[d] /\ (Web!Exists(d)' <=> Web!Exists(d))
      /\ Web!Exists(c)'
  BY <1>1, <1>4 DEF WebIInv, WebDataOK, Web!Exists, WebGiven
<1> HIDE DEF row
<1>6. Fewer
  BY <1>2, CancelledRuns DEF Fewer, WebIInv
<1>7. /\ notified' \in [Check -> Seq({"down", "recovered"})] /\ notified'[c] = <<>>
      /\ \A d \in Check : d # c => notified'[d] = notified[d]
  BY <1>2 DEF WebIInv, WebDataOK
<1>8. WebDataOK'
  <2>1. \A d \in Check : Web!Exists(d)' => check'[d].version <= MaxVersion + round - 1
    <3>1. MaxVersion \in Nat /\ round \in Nat /\ round >= 1
      BY DEF WebIInv, WebDataOK, WebGiven
    <3>2. check'[c].version <= MaxVersion + round - 1
      BY <1>2, <1>3, <1>4, <1>5, <3>1
    <3>3. \A d \in Check : Web!Exists(d) => check[d].version <= MaxVersion + round - 1
      BY DEF WebIInv, WebDataOK
    <3> QED
      BY <1>5, <3>2, <3>3
  <2>2. \A d \in Check : check'[d] = None => notified'[d] = <<>>
    BY <1>5, <1>7 DEF WebIInv, WebDataOK
  <2> QED
    BY <1>2, <1>5, <1>6, <1>7, <2>1, <2>2 DEF WebIInv, WebDataOK, Fewer
<1>9. RunsAreOfChecks'
  <2>1. \A d \in Check : check[d] # None =>
            check'[d] # None
            /\ (Web!Exists(d)' => Web!Exists(d) /\ check'[d].version >= check[d].version)
    <3> SUFFICES ASSUME NEW d \in Check, check[d] # None
                 PROVE  check'[d] # None
                        /\ (Web!Exists(d)' => Web!Exists(d) /\ check'[d].version >= check[d].version)
      OBVIOUS
    <3>1. CASE d = c
      BY <1>2, <1>3, <1>4, <1>5, <3>1 DEF Web!Exists
    <3>2. CASE d # c
      <4>1. Web!Exists(d) => check[d].version \in Nat
        BY WebRows DEF WebIInv, CheckRow
      <4> QED
        BY <1>5, <3>2, <4>1
    <3> QED
      BY <3>1, <3>2
  <2> QED
    BY <1>5, <1>6, <2>1, ChecksGrow
<1>10. HealthIsOfAnswer'
  <2> SUFFICES ASSUME NEW d \in Check, Web!Exists(d)', check'[d].health # "unknown",
                      NEW m \in DOMAIN runs', Answers(d, m)'
               PROVE  Agrees(check'[d].health, runs'[m].status)
    BY DEF HealthIsOfAnswer, Agrees
  <2>1. d # c
    BY <1>4, <1>5
  <2>2. \A r \in DOMAIN runs : runs[r].status \in Web!Finished \/ runs'[r].status \in Web!Finished
                                 => runs'[r].status = runs[r].status
    BY <1>2, CancelledRuns DEF WebIInv
  <2>3. Answers(d, m) /\ runs'[m].status = runs[m].status
    BY <1>5, <1>6, <2>1, <2>2, SameAnswers
  <2> QED
    BY <1>5, <2>1, <2>3 DEF WebIInv, HealthIsOfAnswer, Answers, Done, Web!Current, Web!Of
<1>11. Web!IncidentsAlternate'
  <2>1. WebAlternates(c)'
    BY <1>4, <1>5, <1>7, NobodyTold
  <2>2. \A d \in Check : d # c => WebAlternates(d)'
    BY <1>5, <1>7, AllAlternate, StillAlternates
  <2> QED
    BY <2>1, <2>2 DEF Web!IncidentsAlternate, WebAlternates
<1> QED
  BY <1>6, <1>8, <1>9, <1>10, <1>11, FewerPending DEF WebIInv

\* A check is deleted, and no run of it is left under way.
LEMMA WebDeleteStep == ASSUME WebGiven, WebIInv, NEW c \in Check, Web!Delete(c) PROVE WebIInv'
<1>1. /\ Web!Exists(c) /\ check' = [check EXCEPT ![c] = Gone] /\ runs' = Web!Cancelled(Web!Of(c))
      /\ UNCHANGED <<notified, fence, paused, round>>
  BY DEF Web!Delete
<1>2. /\ check' \in [Check -> CheckRow \cup {None, Gone}] /\ check'[c] = Gone /\ ~Web!Exists(c)'
      /\ \A d \in Check : d # c => check'[d] = check[d] /\ (Web!Exists(d)' <=> Web!Exists(d))
  BY <1>1 DEF WebIInv, WebDataOK, Web!Exists
<1>3. Fewer
  BY <1>1, CancelledRuns DEF Fewer, WebIInv
<1>4. WebDataOK'
  BY <1>1, <1>2, <1>3 DEF WebIInv, WebDataOK, Fewer, WebGiven
<1>5. RunsAreOfChecks'
  <2>1. \A d \in Check : Web!Exists(d) => check[d].version \in Nat
    BY WebRows DEF WebIInv, CheckRow
  <2>2. \A d \in Check : check[d] # None =>
          check'[d] # None
          /\ (Web!Exists(d)' => Web!Exists(d) /\ check'[d].version >= check[d].version)
    BY <1>2, <2>1 DEF WebGiven
  <2> QED
    BY <1>2, <1>3, <2>2, ChecksGrow
<1>6. HealthIsOfAnswer'
  <2> SUFFICES ASSUME NEW d \in Check, Web!Exists(d)', check'[d].health # "unknown",
                      NEW m \in DOMAIN runs', Answers(d, m)'
               PROVE  Agrees(check'[d].health, runs'[m].status)
    BY DEF HealthIsOfAnswer, Agrees
  <2>1. d # c
    BY <1>2
  <2>2. \A r \in DOMAIN runs : runs[r].status \in Web!Finished \/ runs'[r].status \in Web!Finished
                                 => runs'[r].status = runs[r].status
    BY <1>1, CancelledRuns DEF WebIInv
  <2>3. Answers(d, m) /\ runs'[m].status = runs[m].status
    BY <1>2, <1>3, <2>1, <2>2, SameAnswers
  <2> QED
    BY <1>2, <2>1, <2>3 DEF WebIInv, HealthIsOfAnswer, Answers, Done, Web!Current, Web!Of
<1>7. Web!IncidentsAlternate'
  <2>1. \A d \in Check : d # c => WebAlternates(d)'
    BY <1>1, <1>2, AllAlternate, StillAlternates
  <2>2. WebAlternates(c)'
    BY <1>2 DEF WebAlternates
  <2> QED
    BY <2>1, <2>2 DEF Web!IncidentsAlternate, WebAlternates
<1> QED
  BY <1>3, <1>4, <1>5, <1>6, <1>7, FewerPending DEF WebIInv

\* Checks that keep version, health, incident and alerts, and runs that keep what has
\* finished.
LEMMA QuietStep ==
  ASSUME WebGiven, WebIInv, Fewer, UNCHANGED <<notified, round>>,
         check' \in [Check -> CheckRow \cup {None, Gone}],
         \A c \in Check : /\ Web!Exists(c)' <=> Web!Exists(c)
                          /\ check'[c] = None <=> check[c] = None
                          /\ Web!Exists(c) => /\ check'[c].version = check[c].version
                                              /\ check'[c].health = check[c].health
                                              /\ check'[c].incident = check[c].incident
                                              /\ check'[c].alerts = check[c].alerts,
         \A r \in DOMAIN runs : runs[r].status \in Web!Finished \/ runs'[r].status \in Web!Finished
                                  => runs'[r].status = runs[r].status
  PROVE  WebIInv'
<1>1. WebDataOK'
  BY DEF WebIInv, WebDataOK, Fewer
<1>2. RunsAreOfChecks'
  <2>1. \A d \in Check : Web!Exists(d) => check[d].version \in Nat
    BY WebRows DEF WebIInv, CheckRow
  <2>2. \A d \in Check : check[d] # None =>
          check'[d] # None
          /\ (Web!Exists(d)' => Web!Exists(d) /\ check'[d].version >= check[d].version)
    BY <2>1
  <2> QED
    BY <2>2, ChecksGrow
<1>3. HealthIsOfAnswer'
  <2> SUFFICES ASSUME NEW d \in Check, Web!Exists(d)', check'[d].health # "unknown",
                      NEW m \in DOMAIN runs', Answers(d, m)'
               PROVE  Agrees(check'[d].health, runs'[m].status)
    BY DEF HealthIsOfAnswer, Agrees
  <2>1. Answers(d, m) /\ runs'[m].status = runs[m].status
    BY SameAnswers
  <2> QED
    BY <2>1 DEF WebIInv, HealthIsOfAnswer, Answers, Done, Web!Current, Web!Of
<1>4. Web!IncidentsAlternate'
  <2>1. \A d \in Check : WebAlternates(d)'
    BY AllAlternate, StillAlternates DEF WebAlternates
  <2> QED
    BY <2>1 DEF Web!IncidentsAlternate, WebAlternates
<1> QED
  BY <1>1, <1>2, <1>3, <1>4, FewerPending DEF WebIInv

\* A row of a run that changes otherwise than by its end.
LEMMA RowMoves ==
  ASSUME WebIInv, NEW r \in DOMAIN runs, NEW n \in RunRow, runs' = [runs EXCEPT ![r] = n],
         n.check = runs[r].check, n.version = runs[r].version, n.kept = runs[r].kept,
         n.status \in Web!Active => runs[r].status \in Web!Active
  PROVE  /\ Fewer
         /\ runs'[r] = n /\ \A s \in DOMAIN runs : s # r => runs'[s] = runs[s]
<1>1. runs \in Seq(RunRow)
  BY DEF WebIInv, WebDataOK
<1> QED
  BY <1>1 DEF Fewer

\* A worker claims the next run of a project.
LEMMA ClaimStep == ASSUME WebGiven, WebIInv, NEW p \in Project, Web!Claim(p) PROVE WebIInv'
<1>1. PICK r \in DOMAIN runs :
        /\ Web!Claimable(r) /\ runs' = [runs EXCEPT ![r].status = "running", ![r].late = FALSE]
        /\ UNCHANGED <<check, notified, fence, paused, round>>
  <2> DEFINE mine == {r \in DOMAIN runs : Home[runs[r].check] = p /\ Web!Claimable(r)}
             least == CHOOSE x \in mine : \A y \in mine : x <= y
  <2>1. /\ mine # {} /\ runs' = [runs EXCEPT ![least].status = "running", ![least].late = FALSE]
        /\ UNCHANGED <<check, notified, fence, paused, round>>
    BY DEF Web!Claim
  <2>2. \E x \in mine : \A y \in mine : x <= y
    <3>1. mine \in SUBSET (1..Len(runs)) /\ Len(runs) \in Nat
      BY WebRows DEF WebIInv
    <3> HIDE DEF mine
    <3> QED
      BY <2>1, <3>1, Least
  <2>3. least \in mine
    BY <2>2
  <2> QED
    BY <2>1, <2>3
<1> DEFINE n == [runs[r] EXCEPT !.status = "running", !.late = FALSE]
<1>2. runs[r] \in RunRow /\ runs[r].status = "queued" /\ runs' = [runs EXCEPT ![r] = n]
  BY <1>1, WebRows DEF Web!Claimable, WebIInv
<1>3. /\ n \in RunRow /\ n.check = runs[r].check /\ n.version = runs[r].version
      /\ n.kept = runs[r].kept /\ n.status = "running"
  BY <1>2 DEF RunRow, Web!Active
<1> HIDE DEF n
<1>4. /\ Fewer
      /\ runs'[r] = n /\ \A s \in DOMAIN runs : s # r => runs'[s] = runs[s]
  BY <1>2, <1>3, RowMoves DEF Web!Active
<1>5. \A s \in DOMAIN runs : runs[s].status \in Web!Finished \/ runs'[s].status \in Web!Finished
                               => runs'[s].status = runs[s].status
  BY <1>2, <1>3, <1>4 DEF Web!Finished
<1>6. check' \in [Check -> CheckRow \cup {None, Gone}]
  BY <1>1 DEF WebIInv, WebDataOK
<1> QED
  BY <1>1, <1>4, <1>5, <1>6, QuietStep, SMTT(30) DEF Web!Exists

\* The deadline of a run passes.
LEMMA LateStep == ASSUME WebGiven, WebIInv, NEW r \in DOMAIN runs, Web!Late(r) PROVE WebIInv'
<1> DEFINE n == [runs[r] EXCEPT !.late = TRUE]
<1>1. /\ runs[r] \in RunRow /\ runs' = [runs EXCEPT ![r] = n]
      /\ UNCHANGED <<check, notified, fence, paused, round>>
  BY WebRows DEF Web!Late, WebIInv
<1>2. /\ n \in RunRow /\ n.check = runs[r].check /\ n.version = runs[r].version
      /\ n.kept = runs[r].kept /\ n.status = runs[r].status
  BY <1>1 DEF RunRow
<1> HIDE DEF n
<1>3. /\ Fewer
      /\ runs'[r] = n /\ \A s \in DOMAIN runs : s # r => runs'[s] = runs[s]
  BY <1>1, <1>2, RowMoves
<1>4. \A s \in DOMAIN runs : runs'[s].status = runs[s].status
  BY <1>2, <1>3
<1>5. check' \in [Check -> CheckRow \cup {None, Gone}]
  BY <1>1 DEF WebIInv, WebDataOK
<1> QED
  BY <1>1, <1>3, <1>4, <1>5, QuietStep DEF Web!Exists

\* A check falls due.
LEMMA NextRunStep == ASSUME WebGiven, WebIInv, NEW c \in Check, Web!NextRun(c) PROVE WebIInv'
<1> DEFINE n == [check[c] EXCEPT !.due = TRUE]
<1>1. /\ Web!Exists(c) /\ check[c] \in CheckRow /\ check' = [check EXCEPT ![c] = n]
      /\ UNCHANGED <<runs, notified, fence, paused, round>>
  BY WebRows DEF Web!NextRun, WebIInv
<1>2. /\ n \in CheckRow /\ n.version = check[c].version /\ n.health = check[c].health
      /\ n.incident = check[c].incident /\ n.alerts = check[c].alerts
  BY <1>1 DEF CheckRow
<1> HIDE DEF n
<1>3. /\ check' \in [Check -> CheckRow \cup {None, Gone}] /\ check'[c] = n
      /\ \A d \in Check : d # c => check'[d] = check[d]
  BY <1>1, <1>2 DEF WebIInv, WebDataOK
<1>4. Fewer
  BY <1>1, SameRuns DEF WebIInv
<1>5. n # None /\ n # Gone
  BY <1>2 DEF WebGiven
<1> QED
  BY <1>1, <1>2, <1>3, <1>4, <1>5, QuietStep DEF Web!Exists

\* Fences, pauses and what else happens around the checks leave them alone.
LEMMA OutsideStep ==
  ASSUME WebGiven, WebIInv, UNCHANGED <<check, runs, notified, round>>
  PROVE  WebIInv'
<1>1. Fewer
  BY SameRuns DEF WebIInv
<1>2. check' \in [Check -> CheckRow \cup {None, Gone}]
  BY DEF WebIInv, WebDataOK
<1> QED
  BY <1>1, <1>2, QuietStep DEF Web!Exists

\* A restore makes every check a new version, which nothing has answered yet.
LEMMA WebRestoreStep == ASSUME WebGiven, WebIInv, Web!Restore PROVE WebIInv'
<1>1. /\ round < MaxGeneration /\ round' = round + 1
      /\ check' = [c \in Check |-> IF Web!Exists(c)
                 THEN [check[c] EXCEPT !.enabled = FALSE, !.version = check[c].version + 1]
                     ELSE check[c]]
      /\ runs' = Web!Cancelled(DOMAIN runs) /\ UNCHANGED <<notified, fence>>
  BY DEF Web!Restore
<1>2. \A c \in Check : Web!Exists(c) =>
        /\ check[c] \in CheckRow /\ check'[c] \in CheckRow
        /\ check'[c].version = check[c].version + 1 /\ check[c].version \in Nat
        /\ check'[c].incident = check[c].incident /\ check'[c].alerts = check[c].alerts
        /\ check'[c].health = check[c].health
  <2> SUFFICES ASSUME NEW c \in Check, Web!Exists(c)
               PROVE  /\ check[c] \in CheckRow /\ check'[c] \in CheckRow
                      /\ check'[c].version = check[c].version + 1 /\ check[c].version \in Nat
                      /\ check'[c].incident = check[c].incident
                         /\ check'[c].alerts = check[c].alerts
                      /\ check'[c].health = check[c].health
    OBVIOUS
  <2>1. check[c] \in CheckRow
    BY WebRows DEF WebIInv
  <2>2. check'[c] = [check[c] EXCEPT !.enabled = FALSE, !.version = check[c].version + 1]
    BY <1>1
  <2>3. check[c].version + 1 \in Nat \ {0} /\ check[c].version \in Nat
    BY <2>1 DEF CheckRow
  <2>4. check'[c] \in CheckRow /\ check'[c].version = check[c].version + 1
    BY <2>1, <2>2, <2>3 DEF CheckRow
  <2>5. /\ check'[c].incident = check[c].incident /\ check'[c].alerts = check[c].alerts
        /\ check'[c].health = check[c].health
    BY <2>1, <2>2 DEF CheckRow
  <2> QED
    BY <2>1, <2>3, <2>4, <2>5
<1>3. /\ \A c \in Check : ~Web!Exists(c) => check'[c] = check[c]
      /\ \A c \in Check : Web!Exists(c)' <=> Web!Exists(c)
      /\ \A c \in Check : check'[c] = None <=> check[c] = None
      /\ check' \in [Check -> CheckRow \cup {None, Gone}]
  <2>1. \A c \in Check : ~Web!Exists(c) => check'[c] = check[c]
    BY <1>1
  <2>2. \A c \in Check : Web!Exists(c) => Web!Exists(c)' /\ check'[c] # None
    BY <1>2 DEF Web!Exists, WebGiven
  <2> QED
    BY <1>1, <1>2, <2>1, <2>2 DEF Web!Exists, WebIInv, WebDataOK
<1>4. Fewer
  BY <1>1, CancelledRuns DEF Fewer, WebIInv
<1>5. WebDataOK'
  <2>1. \A c \in Check : Web!Exists(c)' => check'[c].version <= MaxVersion + round' - 1
    <3> SUFFICES ASSUME NEW c \in Check, Web!Exists(c)
                 PROVE  check'[c].version <= MaxVersion + round' - 1
      BY <1>3
    <3>1. /\ MaxVersion \in Nat /\ round \in Nat /\ check[c].version \in Nat
          /\ check[c].version <= MaxVersion + round - 1
      BY <1>2 DEF WebIInv, WebDataOK, WebGiven
    <3>2. round' = round + 1 /\ check'[c].version = check[c].version + 1
      BY <1>1, <1>2
    <3> QED
      BY <3>1, <3>2
  <2>2. round' \in 1..MaxGeneration
    <3>1. round \in 1..MaxGeneration /\ MaxGeneration \in Nat
      BY DEF WebIInv, WebDataOK, WebGiven
    <3>2. round < MaxGeneration /\ round' = round + 1
      BY <1>1
    <3> QED
      BY <3>1, <3>2
  <2>3. /\ notified' \in [Check -> Seq({"down", "recovered"})] /\ runs' \in Seq(RunRow)
        /\ \A c \in Check : check'[c] = None => notified'[c] = <<>>
    BY <1>1, <1>3, <1>4 DEF WebIInv, WebDataOK, Fewer
  <2> QED
    BY <1>3, <2>1, <2>2, <2>3 DEF WebDataOK
<1>6. RunsAreOfChecks'
  <2>1. \A d \in Check : check[d] # None =>
          check'[d] # None
          /\ (Web!Exists(d)' => Web!Exists(d) /\ check'[d].version >= check[d].version)
    BY <1>2, <1>3
  <2> QED
    BY <1>3, <1>4, <2>1, ChecksGrow
<1>7. HealthIsOfAnswer'
  <2> SUFFICES ASSUME NEW d \in Check, Web!Exists(d)', NEW m \in DOMAIN runs', Answers(d, m)'
               PROVE  FALSE
    BY DEF HealthIsOfAnswer, Agrees
  <2>1. Web!Current(d)' = {}
    BY <1>2, <1>3, <1>4, NewVersion
  <2> QED
    BY <2>1 DEF Answers, Done
<1>8. Web!IncidentsAlternate'
  <2> SUFFICES ASSUME NEW d \in Check PROVE WebAlternates(d)'
    BY DEF Web!IncidentsAlternate, WebAlternates
  <2>1. CASE Web!Exists(d)
    BY <1>1, <1>2, <1>3, <2>1, AllAlternate, StillAlternates
  <2>2. CASE ~Web!Exists(d)
    BY <1>3, <2>2 DEF WebAlternates
  <2> QED
    BY <2>1, <2>2
<1> QED
  BY <1>4, <1>5, <1>6, <1>7, <1>8, FewerPending DEF WebIInv

-----------------------------------------------------------------------------
\* Runs that are added at the end of those that are there.
Joins(rs, q, all) ==
  /\ all \in Seq(RunRow) /\ DOMAIN all = 1..(Len(rs) + Len(q)) /\ DOMAIN rs = 1..Len(rs)
  /\ \A r \in DOMAIN rs : r \in DOMAIN all /\ all[r] = rs[r]
  /\ \A r \in DOMAIN all : r \notin DOMAIN rs =>
       r \in (Len(rs) + 1)..(Len(rs) + Len(q)) /\ \E i \in DOMAIN q : all[r] = q[i]

\* Runs joined to those that are there.
LEMMA Grown ==
  ASSUME NEW rs \in Seq(RunRow), NEW q \in Seq(RunRow)
  PROVE  Joins(rs, q, rs \o q)
<1> DEFINE all == rs \o q
<1>1. /\ all \in Seq(RunRow) /\ Len(all) = Len(rs) + Len(q)
      /\ Len(rs) \in Nat /\ Len(q) \in Nat /\ DOMAIN q = 1..Len(q)
      /\ DOMAIN all = 1..Len(all) /\ DOMAIN rs = 1..Len(rs)
  OBVIOUS
<1>2. \A r \in 1..(Len(rs) + Len(q)) :
        all[r] = IF r <= Len(rs) THEN rs[r] ELSE q[r - Len(rs)]
  OBVIOUS
<1>3. \A r \in DOMAIN rs : r \in DOMAIN all /\ all[r] = rs[r]
  BY <1>1, <1>2
<1>4. ASSUME NEW r \in DOMAIN all, r \notin DOMAIN rs
      PROVE  r \in (Len(rs) + 1)..(Len(rs) + Len(q)) /\ \E i \in DOMAIN q : all[r] = q[i]
  <2>1. r \in 1..(Len(rs) + Len(q)) /\ ~(r <= Len(rs))
    BY <1>1, <1>4
  <2>2. r - Len(rs) \in DOMAIN q
    BY <1>1, <2>1
  <2>3. all[r] = q[r - Len(rs)]
    BY <1>2, <2>1
  <2> QED
    BY <1>1, <2>1, <2>2, <2>3
<1> QED
  BY <1>1, <1>3, <1>4 DEF Joins

\* The runs that change as a maintenance changes them, and some that are queued: what a
\* check answers with is to agree with its health.
Grows(p, rs, q) ==
  /\ rs \in Seq(RunRow) /\ Len(rs) = Len(runs) /\ q \in Seq(RunRow) /\ runs' = rs \o q
  /\ UNCHANGED <<notified, round>>
  /\ \A r \in DOMAIN runs :
       /\ rs[r].check = runs[r].check /\ rs[r].version = runs[r].version
       /\ rs[r].status \in Web!Active => runs[r].status \in Web!Active
       /\ ~rs[r].kept => \A s \in 1..r : rs[s].status \notin Web!Active
  /\ \A i \in DOMAIN q :
       /\ q[i].status = "queued" /\ q[i].kept
       /\ Web!Exists(q[i].check) /\ q[i].version = check[q[i].check].version
       /\ Home[q[i].check] = p
  /\ Cardinality(Web!Pending(rs, p)) + Len(q) <= MaxPending
  /\ check' \in [Check -> CheckRow \cup {None, Gone}]
  /\ \A c \in Check : /\ Web!Exists(c)' <=> Web!Exists(c)
                      /\ check'[c] = None <=> check[c] = None
                      /\ Web!Exists(c) => /\ check'[c].version = check[c].version
                                          /\ check'[c].incident = check[c].incident
                                          /\ check'[c].alerts = check[c].alerts
  /\ \A c \in Check, m \in DOMAIN runs :
       /\ Web!Exists(c) /\ check'[c].health # "unknown"
       /\ m \in Web!Current(c) /\ rs[m].status \in Web!Finished
       /\ \A s \in Web!Current(c) : rs[s].status \in Web!Finished => s <= m
       => Agrees(check'[c].health, rs[m].status)

\* A step that adds runs no more than there is room for keeps the invariant.
LEMMA GrowStep ==
  ASSUME WebGiven, WebIInv, NEW p \in Project, NEW rs, NEW q, Grows(p, rs, q)
  PROVE  WebIInv'
<1> USE DEF Grows
<1>1. /\ runs' \in Seq(RunRow) /\ DOMAIN runs' = 1..(Len(rs) + Len(q)) /\ DOMAIN rs = 1..Len(rs)
      /\ \A r \in DOMAIN rs : r \in DOMAIN runs' /\ runs'[r] = rs[r]
      /\ \A r \in DOMAIN runs' : r \notin DOMAIN rs =>
           r \in (Len(rs) + 1)..(Len(rs) + Len(q)) /\ \E i \in DOMAIN q : runs'[r] = q[i]
  <2>1. Joins(rs, q, rs \o q)
    BY Grown
  <2>2. Joins(rs, q, runs')
    BY <2>1
  <2> QED
    BY <2>2 DEF Joins
<1>2. DOMAIN runs = DOMAIN rs /\ DOMAIN runs = 1..Len(runs) /\ Len(rs) \in Nat /\ Len(q) \in Nat
  BY <1>1, WebRows DEF WebIInv
<1>3. \A r \in DOMAIN runs' : r \notin DOMAIN runs =>
        /\ runs'[r].status = "queued" /\ runs'[r].kept /\ Web!Exists(runs'[r].check)
        /\ runs'[r].version = check[runs'[r].check].version /\ Home[runs'[r].check] = p
  BY <1>1, <1>2
<1>4. WebDataOK'
  <2>1. \A c \in Check : Web!Exists(c)' => check'[c].version <= MaxVersion + round - 1
    BY DEF WebIInv, WebDataOK
  <2> QED
    BY <1>1, <2>1 DEF WebIInv, WebDataOK
<1>5. DroppedAreOld'
  <2> SUFFICES ASSUME NEW r \in DOMAIN runs', ~runs'[r].kept, NEW s \in 1..r
               PROVE  runs'[s].status \notin Web!Active
    BY DEF DroppedAreOld
  <2>1. r \in DOMAIN runs
    BY <1>3
  <2>2. s \in DOMAIN runs
    BY <1>2, <2>1
  <2> QED
    BY <1>1, <1>2, <2>1, <2>2
<1>6. RunsAreOfChecks'
  <2> SUFFICES ASSUME NEW r \in DOMAIN runs', NEW c, c = runs'[r].check
               PROVE  /\ check'[c] # None
                      /\ check'[c] \notin {None, Gone} => runs'[r].version <= check'[c].version
    BY DEF RunsAreOfChecks, Web!Exists
  <2>0. c \in Check
    <3>1. runs'[r] \in RunRow
      BY <1>1
    <3> QED
      BY <3>1 DEF RunRow
  <2>1. CASE r \in DOMAIN runs
    <3>1. c = runs[r].check /\ runs'[r].version = runs[r].version
      BY <1>1, <1>2, <2>1
    <3>2. /\ check[c] # None
          /\ Web!Exists(c) => runs[r].version <= check[c].version
      BY <2>1, <3>1 DEF WebIInv, RunsAreOfChecks
    <3>3. check'[c] \notin {None, Gone} <=> Web!Exists(c)
      BY <2>0 DEF Web!Exists
    <3> QED
      BY <2>0, <3>1, <3>2, <3>3
  <2>2. CASE r \notin DOMAIN runs
    <3>1. Web!Exists(c) /\ runs'[r].version = check[c].version
      BY <1>3, <2>2
    <3>2. check[c] # None /\ check'[c].version = check[c].version
      BY <2>0, <3>1 DEF Web!Exists
    <3>3. check[c].version \in Nat
      BY <2>0, <3>1, WebRows DEF WebIInv, CheckRow
    <3> QED
      BY <2>0, <3>1, <3>2, <3>3
  <2> QED
    BY <2>1, <2>2
<1>7. HealthIsOfAnswer'
  <2> SUFFICES ASSUME NEW c \in Check, Web!Exists(c)', check'[c].health # "unknown",
                      NEW m \in DOMAIN runs', Answers(c, m)'
               PROVE  Agrees(check'[c].health, runs'[m].status)
    BY DEF HealthIsOfAnswer, Agrees
  <2>1. Web!Exists(c) /\ check'[c].version = check[c].version
    OBVIOUS
  <2>2. /\ m \in Web!Current(c)' /\ runs'[m].status \in Web!Finished
        /\ \A s \in Web!Current(c)' : runs'[s].status \in Web!Finished => s <= m
    BY DEF Answers, Done
  <2>3. m \in DOMAIN runs
    BY <1>3, <2>2 DEF Web!Finished
  <2>4. \A s \in DOMAIN runs : s \in Web!Current(c)' <=> s \in Web!Current(c)
    BY <1>1, <1>2, <2>1 DEF Web!Current, Web!Of
  <2>5. \A s \in Web!Current(c) : s \in DOMAIN runs
    BY DEF Web!Current, Web!Of
  <2>6. \A s \in Web!Current(c) : rs[s].status \in Web!Finished => s <= m
    BY <1>1, <1>2, <2>2, <2>4, <2>5
  <2>7. m \in Web!Current(c) /\ rs[m].status \in Web!Finished /\ runs'[m].status = rs[m].status
    BY <1>1, <1>2, <2>2, <2>3, <2>4
  <2>8. Agrees(check'[c].health, rs[m].status)
    BY <2>1, <2>3, <2>6, <2>7
  <2> QED
    BY <2>7, <2>8
<1>8. Web!IncidentsAlternate'
  <2>1. \A d \in Check : WebAlternates(d)'
    BY AllAlternate, StillAlternates DEF WebAlternates
  <2> QED
    BY <2>1 DEF Web!IncidentsAlternate, WebAlternates
<1>9. PendingBounded'
  <2> SUFFICES ASSUME NEW h \in Project PROVE Cardinality(Web!Pending(runs', h)) <= MaxPending
    BY DEF PendingBounded, Web!Pending
  <2> DEFINE new == (Len(rs) + 1)..(Len(rs) + Len(q))
  <2>1. /\ IsFiniteSet(Web!Pending(rs, h)) /\ Cardinality(Web!Pending(rs, h)) \in Nat
        /\ IsFiniteSet(Web!Pending(runs, h)) /\ Cardinality(Web!Pending(runs, h)) \in Nat
        /\ IsFiniteSet(Web!Pending(runs', h)) /\ Cardinality(Web!Pending(runs', h)) \in Nat
    <3>1. Len(rs) + Len(q) \in Nat /\ Len(runs) \in Nat
      BY <1>2
    <3> QED
      BY <1>1, <1>2, <3>1, PendingFinite
  <2>2. Web!Pending(rs, h) \in SUBSET Web!Pending(runs, h)
    BY <1>2 DEF Web!Pending
  <2>3. Cardinality(Web!Pending(rs, h)) <= MaxPending /\ MaxPending \in Nat
    <3>1. Cardinality(Web!Pending(runs, h)) <= MaxPending /\ MaxPending \in Nat
      BY DEF WebIInv, PendingBounded, WebGiven
    <3>2. Cardinality(Web!Pending(rs, h)) <= Cardinality(Web!Pending(runs, h))
      BY <2>1, <2>2, FS_Subset
    <3> QED
      BY <2>1, <3>1, <3>2
  <2>4. CASE h = p
    <3>1. IsFiniteSet(new) /\ Cardinality(new) = Len(q)
      <4>1. Len(rs) + 1 \in Int /\ Len(rs) + Len(q) \in Int
        BY <1>2
      <4>2. IsFiniteSet(new) /\ Cardinality(new) = IF Len(rs) + 1 > Len(rs) + Len(q) THEN 0
                                    ELSE (Len(rs) + Len(q)) - (Len(rs) + 1) + 1
        BY <4>1, FS_Interval
      <4> QED
        BY <1>2, <4>2
    <3>2. Web!Pending(runs', h) \in SUBSET (Web!Pending(rs, h) \cup new)
      BY <1>1, <1>2 DEF Web!Pending
    <3> HIDE DEF new
    <3>3. /\ IsFiniteSet(Web!Pending(rs, h) \cup new)
          /\ Cardinality(Web!Pending(rs, h) \cup new)
               = Cardinality(Web!Pending(rs, h)) + Cardinality(new)
                   - Cardinality(Web!Pending(rs, h) \cap new)
      BY <2>1, <3>1, FS_Union
    <3>4. /\ Cardinality(Web!Pending(rs, h) \cap new) \in Nat
          /\ Cardinality(Web!Pending(rs, h) \cup new) \in Nat
      <4>1. IsFiniteSet(Web!Pending(rs, h) \cap new)
        BY <3>1, FS_Intersection
      <4> QED
        BY <3>3, <4>1, FS_CardinalityType
    <3>5. Cardinality(Web!Pending(runs', h)) <= Cardinality(Web!Pending(rs, h) \cup new)
      BY <3>2, <3>3, FS_Subset
    <3>6. Cardinality(Web!Pending(rs, h)) + Len(q) <= MaxPending
      BY <2>4
    <3> QED
      BY <1>2, <2>1, <2>3, <3>1, <3>3, <3>4, <3>5, <3>6
  <2>5. CASE h # p
    <3>1. Web!Pending(runs', h) = Web!Pending(rs, h)
      BY <1>1, <1>2, <1>3, <2>5 DEF Web!Pending
    <3> QED
      BY <2>3, <3>1
  <2> QED
    BY <2>4, <2>5
<1> QED
  BY <1>4, <1>5, <1>6, <1>7, <1>8, <1>9 DEF WebIInv

\* A command queues one run.
LEMMA RunStep == ASSUME WebGiven, WebIInv, NEW c \in Check, Web!Run(c) PROVE WebIInv'
<1>1. /\ Web!Exists(c) /\ Cardinality(Web!Pending(runs, Home[c])) < MaxPending
      /\ runs' = Append(runs, Web!Queued(c)) /\ UNCHANGED <<check, notified, fence, paused, round>>
  BY WebCounts DEF Web!Run
<1>2. check[c] \in CheckRow /\ round \in Nat /\ Home[c] \in Project
  BY <1>1, WebRows DEF WebIInv, WebDataOK, WebGiven
<1>3. /\ Web!Queued(c) \in RunRow /\ Web!Queued(c).status = "queued" /\ Web!Queued(c).kept
      /\ Web!Queued(c).check = c /\ Web!Queued(c).version = check[c].version
  <2>1. check[c].version \in Nat \ {0}
    BY <1>2 DEF CheckRow
  <2> QED
    BY <1>2, <2>1 DEF Web!Queued, RunRow, Web!Active
<1> DEFINE q == <<Web!Queued(c)>>
<1>4. /\ q \in Seq(RunRow) /\ Len(q) = 1 /\ \A i \in DOMAIN q : q[i] = Web!Queued(c)
  BY <1>3
<1>5. runs \in Seq(RunRow) /\ check' \in [Check -> CheckRow \cup {None, Gone}]
  BY <1>1 DEF WebIInv, WebDataOK
<1>6. runs' = runs \o q
  BY <1>1, <1>3, <1>5
<1>7. Cardinality(Web!Pending(runs, Home[c])) + Len(q) <= MaxPending
  <2>1. DOMAIN runs = 1..Len(runs) /\ Len(runs) \in Nat
    BY <1>5
  <2>2. Cardinality(Web!Pending(runs, Home[c])) \in Nat /\ MaxPending \in Nat
    BY <2>1, PendingFinite DEF WebGiven
  <2> QED
    BY <1>1, <1>4, <2>2
<1>8. \A d \in Check, m \in DOMAIN runs :
        /\ Web!Exists(d) /\ check'[d].health # "unknown"
        /\ m \in Web!Current(d) /\ runs[m].status \in Web!Finished
        /\ \A s \in Web!Current(d) : runs[s].status \in Web!Finished => s <= m
        => Agrees(check'[d].health, runs[m].status)
  <2> SUFFICES ASSUME NEW d \in Check, NEW m \in DOMAIN runs,
                      Web!Exists(d), check'[d].health # "unknown",
                      m \in Web!Current(d), runs[m].status \in Web!Finished,
                      \A s \in Web!Current(d) : runs[s].status \in Web!Finished => s <= m
               PROVE  Agrees(check'[d].health, runs[m].status)
    OBVIOUS
  <2>1. Answers(d, m) /\ check[d].health # "unknown"
    BY <1>1 DEF Answers, Done
  <2>2. Agrees(check[d].health, runs[m].status)
    BY <2>1 DEF WebIInv, HealthIsOfAnswer
  <2> QED
    BY <1>1, <2>2
<1>9. \A r \in DOMAIN runs : ~runs[r].kept => \A s \in 1..r : runs[s].status \notin Web!Active
  BY DEF WebIInv, DroppedAreOld
<1>10. \A i \in DOMAIN q :
         /\ q[i].status = "queued" /\ q[i].kept
         /\ Web!Exists(q[i].check) /\ q[i].version = check[q[i].check].version
         /\ Home[q[i].check] = Home[c]
  BY <1>1, <1>3, <1>4
<1>11. \A d \in Check : Web!Exists(d)' <=> Web!Exists(d)
  BY <1>1 DEF Web!Exists
<1> HIDE DEF q
<1>12. Grows(Home[c], runs, q)
  BY <1>1, <1>2, <1>4, <1>5, <1>6, <1>7, <1>8, <1>9, <1>10, <1>11 DEF Grows
<1> QED
  BY <1>2, <1>12, GrowStep

-----------------------------------------------------------------------------
\* A completion.  The run that answers is the last one, the one that is completed or a
\* newer one: neither was dropped.
LEMMA StatusAgrees ==
  ASSUME NEW status \in Web!Finished, NEW failures
  PROVE  /\ Agrees(Web!Health(status, failures), status)
         /\ Web!Health(status, failures) \in Healths \ {"unknown"}
<1>1. CASE status = "error"
  BY <1>1 DEF Agrees, Web!Health, Healths
<1>2. CASE status = "passed"
  BY <1>2 DEF Agrees, Web!Health, Healths
<1>3. CASE status = "failed"
  BY <1>3 DEF Agrees, Web!Health, Healths
<1> QED
  BY <1>1, <1>2, <1>3 DEF Web!Finished

\* After one more notice the number of notices has changed parity.
LEMMA Parity == \A n \in Nat : (n + 1) % 2 = 1 <=> n % 2 # 1
  OBVIOUS

\* A result that opens or closes an incident tells of it, once.
LEMMA Tells ==
  ASSUME NEW c \in Check, WebDataOK, Web!Exists(c), WebAlternates(c),
         NEW health, NEW incident, incident = Web!Incident(check[c].incident, health),
         notified'[c] = notified[c] \o Web!Notice(c, incident, health), Web!Exists(c)',
         check'[c].incident = incident, check'[c].alerts = check[c].alerts
  PROVE  notified'[c] \in Seq({"down", "recovered"}) /\ WebAlternates(c)'
<1>1. /\ notified[c] \in Seq({"down", "recovered"}) /\ Len(notified[c]) \in Nat
      /\ DOMAIN notified[c] = 1..Len(notified[c])
  BY DEF WebDataOK
<1>2. check[c].incident \in BOOLEAN /\ check[c].alerts \in BOOLEAN
  BY WebRows DEF CheckRow
<1>3. CASE ~check[c].alerts
  <2>1. notified'[c] = notified[c]
    BY <1>1, <1>3 DEF Web!Notice
  <2> QED
    BY <1>1, <1>3, <2>1 DEF WebAlternates
<1>4. CASE check[c].alerts /\ ~check[c].incident /\ incident
  <2>1. notified'[c] = notified[c] \o <<"down">>
    BY <1>4 DEF Web!Notice
  <2>2. /\ notified'[c] \in Seq({"down", "recovered"}) /\ Len(notified'[c]) = Len(notified[c]) + 1
        /\ DOMAIN notified'[c] = 1..(Len(notified[c]) + 1)
           /\ notified'[c][Len(notified[c]) + 1] = "down"
        /\ \A i \in 1..Len(notified[c]) : notified'[c][i] = notified[c][i]
    BY <1>1, <2>1
  <2>3. Len(notified[c]) % 2 # 1
    BY <1>4 DEF WebAlternates
  <2>4. (Len(notified[c]) + 1) % 2 = 1
    BY <1>1, <2>3, Parity
  <2>5. \A i \in DOMAIN notified'[c] : notified'[c][i] = IF i % 2 = 1 THEN "down" ELSE "recovered"
    <3> SUFFICES ASSUME NEW i \in 1..(Len(notified[c]) + 1)
                 PROVE  notified'[c][i] = IF i % 2 = 1 THEN "down" ELSE "recovered"
      BY <2>2
    <3>1. CASE i = Len(notified[c]) + 1
      BY <2>2, <2>4, <3>1
    <3>2. CASE i # Len(notified[c]) + 1
      <4>1. i \in DOMAIN notified[c]
        BY <1>1, <3>2
      <4>2. notified[c][i] = IF i % 2 = 1 THEN "down" ELSE "recovered"
        BY <1>4, <4>1 DEF WebAlternates
      <4> QED
        BY <1>1, <2>2, <4>1, <4>2
    <3> QED
      BY <3>1, <3>2
  <2>6. check'[c].incident = (Len(notified'[c]) % 2 = 1)
    BY <1>4, <2>2, <2>4
  <2> QED
    BY <2>2, <2>5, <2>6 DEF WebAlternates
<1>5. CASE check[c].alerts /\ check[c].incident /\ health = "healthy"
  <2>0. incident = FALSE
    BY <1>5 DEF Web!Incident
  <2>1. notified'[c] = notified[c] \o <<"recovered">>
    BY <1>5, <2>0 DEF Web!Notice
  <2>2. /\ notified'[c] \in Seq({"down", "recovered"}) /\ Len(notified'[c]) = Len(notified[c]) + 1
        /\ DOMAIN notified'[c] = 1..(Len(notified[c]) + 1)
           /\ notified'[c][Len(notified[c]) + 1] = "recovered"
        /\ \A i \in 1..Len(notified[c]) : notified'[c][i] = notified[c][i]
    BY <1>1, <2>1
  <2>3. Len(notified[c]) % 2 = 1
    BY <1>5 DEF WebAlternates
  <2>4. (Len(notified[c]) + 1) % 2 # 1
    BY <1>1, <2>3, Parity
  <2>5. \A i \in DOMAIN notified'[c] : notified'[c][i] = IF i % 2 = 1 THEN "down" ELSE "recovered"
    <3> SUFFICES ASSUME NEW i \in 1..(Len(notified[c]) + 1)
                 PROVE  notified'[c][i] = IF i % 2 = 1 THEN "down" ELSE "recovered"
      BY <2>2
    <3>1. CASE i = Len(notified[c]) + 1
      BY <2>2, <2>4, <3>1
    <3>2. CASE i # Len(notified[c]) + 1
      <4>1. i \in DOMAIN notified[c]
        BY <1>1, <3>2
      <4>2. notified[c][i] = IF i % 2 = 1 THEN "down" ELSE "recovered"
        BY <1>5, <4>1 DEF WebAlternates
      <4> QED
        BY <1>1, <2>2, <4>1, <4>2
    <3> QED
      BY <3>1, <3>2
  <2>6. check'[c].incident = (Len(notified'[c]) % 2 = 1)
    BY <2>0, <2>2, <2>4
  <2> QED
    BY <2>2, <2>5, <2>6 DEF WebAlternates
<1>6. CASE /\ check[c].alerts /\ ~(~check[c].incident /\ incident)
           /\ ~(check[c].incident /\ health = "healthy")
  <2>0. Web!Notice(c, incident, health) = <<>>
    BY <1>6 DEF Web!Notice
  <2>1. notified'[c] = notified[c]
    BY <1>1, <2>0
  <2>2. incident = check[c].incident
    BY <1>2, <1>6 DEF Web!Incident
  <2> QED
    BY <1>1, <2>1, <2>2 DEF WebAlternates
<1> QED
  BY <1>2, <1>3, <1>4, <1>5, <1>6

\* A run is finished: its check judges by it, unless a later run has spoken.
LEMMA CompleteStep ==
  ASSUME WebGiven, WebIInv, NEW r \in DOMAIN runs, NEW status \in Web!Finished,
         Web!Complete(r, status)
  PROVE  WebIInv'
<1>0. PICK c : c = runs[r].check
  OBVIOUS
<1> DEFINE rs == [runs EXCEPT ![r].status = status]
           failures == Web!Failures(rs, c)
           health == Web!Health(Web!HealthStatus(rs, c, r), failures)
           incident == Web!Incident(check[c].incident, health)
<1>1. /\ runs[r].status = "running" /\ r \in Web!Current(c) /\ runs' = rs
      /\ check' = [check EXCEPT ![c].health = health, ![c].incident = incident]
      /\ notified' = [notified EXCEPT ![c] = notified[c] \o Web!Notice(c, incident, health)]
      /\ UNCHANGED <<fence, paused, round>>
  BY <1>0 DEF Web!Complete, Web!Holds
<1>2. c \in Check /\ Web!Exists(c) /\ check[c] \in CheckRow /\ runs[r] \in RunRow
  BY <1>0, <1>1, WebRows DEF WebIInv, Web!Current
<1>3. /\ rs \in Seq(RunRow) /\ Len(rs) = Len(runs) /\ DOMAIN rs = DOMAIN runs
      /\ DOMAIN runs = 1..Len(runs) /\ Len(runs) \in Nat
      /\ rs[r].status = status /\ rs[r].check = c /\ rs[r].version = runs[r].version
      /\ rs[r].kept = runs[r].kept
      /\ \A s \in DOMAIN runs : s # r => rs[s] = runs[s]
  <2>1. runs \in Seq(RunRow)
    BY DEF WebIInv, WebDataOK
  <2>2. rs[r] = [runs[r] EXCEPT !.status = status] /\ rs[r] \in RunRow
    BY <1>2, <2>1 DEF RunRow
  <2>3. /\ rs[r].status = status /\ rs[r].check = c /\ rs[r].version = runs[r].version
        /\ rs[r].kept = runs[r].kept
    BY <1>0, <1>2, <2>2 DEF RunRow
  <2>4. DOMAIN runs = 1..Len(runs) /\ Len(runs) \in Nat
    BY <2>1
  <2>5. \A s \in DOMAIN runs : rs[s] \in RunRow
    BY <2>1, <2>2
  <2>6. rs = [s \in 1..Len(runs) |-> rs[s]]
    BY <2>4
  <2>7. rs \in Seq(RunRow) /\ Len(rs) = Len(runs)
    <3> HIDE DEF rs
    <3> QED
      BY <2>4, <2>5, <2>6
  <2> QED
    BY <2>3, <2>4, <2>7
<1>4. \A s \in DOMAIN runs : /\ rs[s].check = runs[s].check /\ rs[s].version = runs[s].version
                             /\ rs[s].kept = runs[s].kept
                             /\ rs[s].status \in Web!Active => runs[s].status \in Web!Active
  BY <1>1, <1>3 DEF Web!Active
<1> DEFINE R == {x \in Web!Current(c) : rs[x].status \in Web!Finished}
<1>5. R \in SUBSET (1..Len(runs)) /\ r \in R
  BY <1>1, <1>3 DEF Web!Current, Web!Of
<1>6. PICK m \in R : \A y \in R : m >= y
  <2> HIDE DEF R
  <2> QED
    BY <1>3, <1>5, Greatest
<1>7. m \in Nat /\ r \in Nat /\ r <= m /\ m \in DOMAIN runs
  BY <1>3, <1>5, <1>6
<1>8. rs[m].kept
  <2>1. runs[m].kept
    <3> SUFFICES ASSUME ~runs[m].kept PROVE FALSE
      OBVIOUS
    <3>1. r \in 1..m
      BY <1>3, <1>7
    <3> QED
      BY <1>1, <1>7, <3>1 DEF WebIInv, DroppedAreOld, Web!Active
  <2> QED
    BY <1>4, <1>7, <2>1
<1>9. rs[m].status \in Web!Finished /\ Web!HealthStatus(rs, c, r) = rs[m].status
  <2>1. /\ Web!Recent(rs, c) \in SUBSET Nat /\ m \in Web!Recent(rs, c)
        /\ \A y \in Web!Recent(rs, c) : y <= m
    <3>1. Web!Recent(rs, c) \subseteq R /\ m \in Web!Recent(rs, c)
      BY <1>6, <1>8 DEF Web!Recent
    <3> HIDE DEF R
    <3>2. \A y \in R : y \in Nat
      BY <1>5
    <3> QED
      BY <1>6, <1>7, <3>1, <3>2
  <2>2. Web!Max(Web!Recent(rs, c)) = m
    BY <2>1, MaxIs
  <2> QED
    BY <1>6, <2>2 DEF Web!HealthStatus
<1>10. Agrees(health, rs[m].status) /\ health \in Healths \ {"unknown"}
  <2> HIDE DEF rs, failures, R
  <2> QED
    BY <1>9, StatusAgrees
<1>11. incident \in BOOLEAN
  BY DEF Web!Incident
<1> HIDE DEF rs, R, health, incident, failures
<1>12. /\ check'[c] \in CheckRow /\ check'[c].version = check[c].version
       /\ check'[c].health = health /\ check'[c].incident = incident
       /\ check'[c].alerts = check[c].alerts
  <2>1. check'[c] = [check[c] EXCEPT !.health = health, !.incident = incident]
    BY <1>1, <1>2 DEF WebIInv, WebDataOK
  <2> QED
    BY <1>2, <1>10, <1>11, <2>1 DEF CheckRow
<1>13. /\ \A d \in Check : d # c => check'[d] = check[d] /\ notified'[d] = notified[d]
       /\ notified'[c] = notified[c] \o Web!Notice(c, incident, health)
       /\ DOMAIN notified' = Check /\ DOMAIN check' = Check
  BY <1>1, <1>2 DEF WebIInv, WebDataOK
<1>14. check' \in [Check -> CheckRow \cup {None, Gone}]
  <2>1. check' = [d \in Check |-> check'[d]]
    BY <1>1 DEF WebIInv, WebDataOK
  <2>2. \A d \in Check : check'[d] \in CheckRow \cup {None, Gone}
    BY <1>12, <1>13 DEF WebIInv, WebDataOK
  <2> QED
    BY <2>1, <2>2
<1>15. \A d \in Check : (Web!Exists(d)' <=> Web!Exists(d)) /\ (check'[d] = None <=> check[d] = None)
  <2>1. check'[c] \notin {None, Gone}
    BY <1>12 DEF WebGiven
  <2> QED
    BY <1>2, <1>13, <2>1 DEF Web!Exists
<1>16. notified'[c] \in Seq({"down", "recovered"}) /\ WebAlternates(c)'
  <2>1. WebDataOK /\ WebAlternates(c) /\ Web!Exists(c)'
    BY <1>2, <1>15, AllAlternate DEF WebIInv
  <2>2. incident = Web!Incident(check[c].incident, health)
    BY DEF incident
  <2> QED
    BY <1>2, <1>12, <1>13, <2>1, <2>2, Tells
<1>17. WebDataOK'
  <2>1. \A d \in Check : notified'[d] \in Seq({"down", "recovered"})
    BY <1>13, <1>16 DEF WebIInv, WebDataOK
  <2>2. notified' = [d \in Check |-> notified'[d]]
    BY <1>1 DEF WebIInv, WebDataOK
  <2>3. notified' \in [Check -> Seq({"down", "recovered"})]
    BY <2>1, <2>2
  <2>4. \A d \in Check : Web!Exists(d)' => check'[d].version <= MaxVersion + round - 1
    BY <1>12, <1>13, <1>15 DEF WebIInv, WebDataOK
  <2>5. \A d \in Check : check'[d] = None => notified'[d] = <<>>
    BY <1>2, <1>13, <1>15 DEF WebIInv, WebDataOK, Web!Exists
  <2> QED
    BY <1>1, <1>3, <1>14, <2>3, <2>4, <2>5 DEF WebIInv, WebDataOK
<1>18. Fewer
  BY <1>1, <1>3, <1>4 DEF Fewer
<1>19. RunsAreOfChecks'
  <2>1. \A d \in Check : Web!Exists(d) => check[d].version \in Nat
    BY WebRows DEF WebIInv, CheckRow
  <2>2. \A d \in Check : check[d] # None =>
          check'[d] # None
          /\ (Web!Exists(d)' => Web!Exists(d) /\ check'[d].version >= check[d].version)
    BY <1>12, <1>13, <1>15, <2>1
  <2> QED
    BY <1>14, <1>18, <2>2, ChecksGrow
<1>20. HealthIsOfAnswer'
  <2> SUFFICES ASSUME NEW d \in Check, Web!Exists(d)', check'[d].health # "unknown",
                      NEW n \in DOMAIN runs', Answers(d, n)'
               PROVE  Agrees(check'[d].health, runs'[n].status)
    BY DEF HealthIsOfAnswer, Agrees
  <2>1. /\ n \in Web!Current(d)' /\ runs'[n].status \in Web!Finished
        /\ \A s \in Web!Current(d)' : runs'[s].status \in Web!Finished => s <= n
    BY DEF Answers, Done
  <2>2. Web!Current(d)' = Web!Current(d)
    BY <1>1, <1>3, <1>4, <1>12, <1>13, <1>15 DEF Web!Current, Web!Of
  <2>3. CASE d = c
    <3>1. n \in R /\ \A s \in R : s <= n
      BY <1>1, <2>1, <2>2, <2>3 DEF R
    <3>2. n = m
      <4>1. n \in Nat /\ n <= m /\ m <= n
        BY <1>5, <1>6, <1>7, <3>1
      <4> QED
        BY <1>7, <4>1
    <3> QED
      BY <1>1, <1>10, <1>12, <2>3, <3>2
  <2>4. CASE d # c
    <3>1. \A s \in Web!Current(d) : s # r /\ s \in DOMAIN runs
      BY <1>0, <2>4 DEF Web!Current, Web!Of
    <3>2. Answers(d, n) /\ runs'[n].status = runs[n].status
      BY <1>1, <1>3, <2>1, <2>2, <3>1 DEF Answers, Done
    <3> QED
      BY <1>3, <1>13, <1>15, <2>1, <2>2, <2>4, <3>1, <3>2 DEF WebIInv, HealthIsOfAnswer
  <2> QED
    BY <2>3, <2>4
<1>21. Web!IncidentsAlternate'
  <2>1. \A d \in Check : d # c => WebAlternates(d)'
    BY <1>13, <1>15, AllAlternate, StillAlternates
  <2> QED
    BY <1>16, <2>1 DEF Web!IncidentsAlternate, WebAlternates
<1> QED
  BY <1>17, <1>18, <1>19, <1>20, <1>21, FewerPending DEF WebIInv

-----------------------------------------------------------------------------
\* The maintenance queues one run for each check that it picks.
LEMMA SeqOfSet ==
  ASSUME NEW T, IsFiniteSet(T)
  PROVE  Web!SetToSeq(T) \in [1..Cardinality(T) -> T]
<1>1. ExistsBijection(1..Cardinality(T), T)
  BY FS_CardinalityType
<1> DEFINE N == 1..Cardinality(T)
<1> HIDE DEF N
<1>2. PICK f : f \in Bijection(N, T)
  BY <1>1 DEF ExistsBijection, N
<1>3. f \in [N -> T] /\ \A a, b \in N : f[a] = f[b] => a = b
  BY <1>2 DEF Bijection, Injection, IsInjective
<1>4. Web!IsInjective(f)
  BY <1>3 DEF Web!IsInjective
<1> QED
  BY <1>3, <1>4, WebCounts DEF Web!SetToSeq, N

\* No more runs are queued than there are checks to queue.
LEMMA QueuedAreFew ==
  ASSUME NEW S, IsFiniteSet(S)
  PROVE  /\ IsFiniteSet({Web!Queued(c) : c \in S})
         /\ Cardinality({Web!Queued(c) : c \in S}) \in Nat
         /\ Cardinality({Web!Queued(c) : c \in S}) <= Cardinality(S)
<1> DEFINE T == {Web!Queued(c) : c \in S}
           f == [c \in S |-> Web!Queued(c)]
<1>1. f \in [S -> T] /\ \A t \in T : \E c \in S : f[c] = t
  OBVIOUS
<1> HIDE DEF f, T
<1>2. f \in Surjection(S, T)
  BY <1>1 DEF Surjection
<1>3. IsFiniteSet(T) /\ Cardinality(T) <= Cardinality(S)
  BY <1>2, FS_Surjection
<1>4. Cardinality(T) \in Nat
  BY <1>3, FS_CardinalityType
<1> QED
  BY <1>3, <1>4 DEF T

\* What the pass makes of the runs that are there, and of the checks.
WebKept(p, old) == Web!Pruned(Web!Expired(p), old)
LEMMA KeptRuns ==
  ASSUME WebIInv, NEW p, NEW old \in SUBSET Web!Prunable(p)
  PROVE  /\ WebKept(p, old) \in Seq(RunRow) /\ Len(WebKept(p, old)) = Len(runs)
         /\ \A r \in DOMAIN runs :
              /\ WebKept(p, old)[r].check = runs[r].check
              /\ WebKept(p, old)[r].version = runs[r].version
              /\ WebKept(p, old)[r].status = IF r \in Web!Overdue(p) THEN "error" ELSE runs[r].status
              /\ WebKept(p, old)[r].kept = (runs[r].kept /\ r \notin old)
<1>0. DOMAIN runs = 1..Len(runs) /\ Len(runs) \in Nat
  BY WebRows DEF WebIInv
<1>1. ASSUME NEW r \in DOMAIN runs
      PROVE  /\ WebKept(p, old)[r] \in RunRow
             /\ WebKept(p, old)[r].check = runs[r].check
             /\ WebKept(p, old)[r].version = runs[r].version
             /\ WebKept(p, old)[r].status = IF r \in Web!Overdue(p) THEN "error" ELSE runs[r].status
             /\ WebKept(p, old)[r].kept = (runs[r].kept /\ r \notin old)
  <2>1. runs[r] \in RunRow
    BY WebRows DEF WebIInv
  <2>2. Web!Expired(p)[r] = IF r \in Web!Overdue(p) THEN [runs[r] EXCEPT !.status = "error"]
            ELSE runs[r]
    BY DEF Web!Expired
  <2>3. /\ Web!Expired(p)[r] \in RunRow /\ Web!Expired(p)[r].check = runs[r].check
        /\ Web!Expired(p)[r].version = runs[r].version /\ Web!Expired(p)[r].kept = runs[r].kept
        /\ Web!Expired(p)[r].status = IF r \in Web!Overdue(p) THEN "error" ELSE runs[r].status
    BY <2>1, <2>2 DEF RunRow, Web!Finished
  <2>4. DOMAIN Web!Expired(p) = DOMAIN runs
    BY DEF Web!Expired
  <2>5. WebKept(p, old)[r] = IF r \in old THEN [Web!Expired(p)[r] EXCEPT !.kept = FALSE]
            ELSE Web!Expired(p)[r]
    BY <2>4 DEF WebKept, Web!Pruned
  <2>6. Web!Expired(p)[r].kept \in BOOLEAN
    BY <2>3 DEF RunRow
  <2>7. CASE r \in old
    BY <2>3, <2>5, <2>7, ZenonT(40) DEF RunRow
  <2>8. CASE r \notin old
    BY <2>3, <2>5, <2>6, <2>8
  <2> QED
    BY <2>7, <2>8
<1>2. WebKept(p, old) = [r \in 1..Len(runs) |-> WebKept(p, old)[r]]
  BY <1>0 DEF WebKept, Web!Pruned, Web!Expired
<1>3. WebKept(p, old) \in Seq(RunRow) /\ Len(WebKept(p, old)) = Len(runs)
  BY <1>0, <1>1, <1>2
<1> QED
  BY <1>1, <1>3

Judged(p, S) ==
  [c \in Check |->
     IF Web!Exists(c)
     THEN [check[c] EXCEPT !.due = check[c].due /\ c \notin S,
             !.health = IF c \in Web!Blamed(p) THEN "monitor-error" ELSE check[c].health]
     ELSE check[c]]

\* The checks that a maintenance pass leaves are checks, with the incidents they had.
LEMMA JudgedChecks ==
  ASSUME WebGiven, WebIInv, NEW p, NEW S
  PROVE  /\ Judged(p, S) \in [Check -> CheckRow \cup {None, Gone}]
         /\ \A c \in Check :
              /\ ~Web!Exists(c) => Judged(p, S)[c] = check[c]
              /\ Web!Exists(c) =>
                   /\ Judged(p, S)[c] \in CheckRow
                   /\ Judged(p, S)[c].version = check[c].version
                   /\ Judged(p, S)[c].incident = check[c].incident
                   /\ Judged(p, S)[c].alerts = check[c].alerts
                   /\ Judged(p, S)[c].health
                        = IF c \in Web!Blamed(p) THEN "monitor-error" ELSE check[c].health
<1>1. ASSUME NEW c \in Check, Web!Exists(c)
      PROVE  /\ Judged(p, S)[c] \in CheckRow
             /\ Judged(p, S)[c].version = check[c].version
             /\ Judged(p, S)[c].incident = check[c].incident
             /\ Judged(p, S)[c].alerts = check[c].alerts
             /\ Judged(p, S)[c].health = IF c \in Web!Blamed(p)
                    THEN "monitor-error" ELSE check[c].health
  <2> DEFINE due == check[c].due /\ c \notin S
             health == IF c \in Web!Blamed(p) THEN "monitor-error" ELSE check[c].health
  <2>1. check[c] \in CheckRow
    BY <1>1, WebRows DEF WebIInv
  <2>2. Judged(p, S)[c] = [check[c] EXCEPT !.due = due, !.health = health]
    BY <1>1 DEF Judged
  <2>3. due \in BOOLEAN /\ health \in Healths
    BY <2>1 DEF CheckRow, Healths
  <2> HIDE DEF due, health
  <2>4. /\ Judged(p, S)[c] \in CheckRow
        /\ Judged(p, S)[c].version = check[c].version
        /\ Judged(p, S)[c].incident = check[c].incident
        /\ Judged(p, S)[c].alerts = check[c].alerts
        /\ Judged(p, S)[c].health = health
    BY <2>1, <2>2, <2>3 DEF CheckRow
  <2> QED
    BY <2>4 DEF health
<1>2. \A c \in Check : ~Web!Exists(c) => Judged(p, S)[c] = check[c]
  BY DEF Judged
<1>3. Judged(p, S) = [c \in Check |-> Judged(p, S)[c]]
  BY DEF Judged
<1>4. \A c \in Check : Judged(p, S)[c] \in CheckRow \cup {None, Gone}
  BY <1>1, <1>2 DEF WebIInv, WebDataOK
<1>5. Judged(p, S) \in [Check -> CheckRow \cup {None, Gone}]
  BY <1>3, <1>4
<1> QED
  BY <1>1, <1>2, <1>5

\* A maintenance pass: runs out of time end in error, old ones are dropped, and what is due
\* is queued while there is room.
LEMMA MaintainStep == ASSUME WebGiven, WebIInv, NEW p \in Project, Web!Maintain(p) PROVE WebIInv'
<1>1. PICK old \in SUBSET Web!Prunable(p), S \in SUBSET Web!Due(p) :
        /\ Web!Fits(WebKept(p, old), p, S)
        /\ runs' = WebKept(p, old) \o Web!SetToSeq({Web!Queued(c) : c \in S})
           /\ check' = Judged(p, S)
  BY DEF Web!Maintain, WebKept, Judged
<1>2. UNCHANGED <<notified, fence, paused, round>>
  BY DEF Web!Maintain
<1> DEFINE rs == WebKept(p, old)
           T == {Web!Queued(c) : c \in S}
           q == Web!SetToSeq(T)
<1>3. /\ rs \in Seq(RunRow) /\ Len(rs) = Len(runs)
      /\ \A r \in DOMAIN runs :
           /\ rs[r].check = runs[r].check /\ rs[r].version = runs[r].version
           /\ rs[r].status = IF r \in Web!Overdue(p) THEN "error" ELSE runs[r].status
           /\ rs[r].kept = (runs[r].kept /\ r \notin old)
  BY KeptRuns
<1>4. /\ check' \in [Check -> CheckRow \cup {None, Gone}]
      /\ \A c \in Check :
           /\ ~Web!Exists(c) => check'[c] = check[c]
           /\ Web!Exists(c) =>
                /\ check'[c] \in CheckRow
                /\ check'[c].version = check[c].version
                /\ check'[c].incident = check[c].incident
                /\ check'[c].alerts = check[c].alerts
                /\ check'[c].health = IF c \in Web!Blamed(p) THEN "monitor-error" ELSE check[c].health
  BY <1>1, JudgedChecks
<1>5. \A c \in S : /\ c \in Check /\ Web!Exists(c) /\ Home[c] = p
                  /\ Web!Queued(c) \in RunRow /\ Web!Queued(c).status = "queued"
                     /\ Web!Queued(c).kept
                  /\ Web!Queued(c).check = c /\ Web!Queued(c).version = check[c].version
  <2> SUFFICES ASSUME NEW c \in S
               PROVE  /\ c \in Check /\ Web!Exists(c) /\ Home[c] = p
                      /\ Web!Queued(c) \in RunRow /\ Web!Queued(c).status = "queued"
                         /\ Web!Queued(c).kept
                      /\ Web!Queued(c).check = c /\ Web!Queued(c).version = check[c].version
    OBVIOUS
  <2>1. c \in Check /\ Web!Exists(c) /\ Home[c] = p
    BY DEF Web!Due
  <2>2. check[c].version \in Nat \ {0} /\ round \in Nat
    BY <2>1, WebRows DEF WebIInv, WebDataOK, CheckRow
  <2> QED
    BY <2>1, <2>2 DEF Web!Queued, RunRow, Web!Active
<1>6. /\ q \in Seq(RunRow) /\ Len(q) = Cardinality(T) /\ Cardinality(T) \in Nat
      /\ Cardinality(T) <= Cardinality(S) /\ Cardinality(S) \in Nat
      /\ \A i \in DOMAIN q : \E c \in S : q[i] = Web!Queued(c)
  <2>1. S \in SUBSET Check
    BY <1>5
  <2>2. IsFiniteSet(S) /\ Cardinality(S) \in Nat
    BY <2>1, FS_Subset, FS_CardinalityType DEF WebGiven
  <2>3. IsFiniteSet(T) /\ Cardinality(T) \in Nat /\ Cardinality(T) <= Cardinality(S)
    BY <2>2, QueuedAreFew
  <2>4. \A t \in T : t \in RunRow /\ \E c \in S : t = Web!Queued(c)
    BY <1>5
  <2> HIDE DEF T
  <2>5. q \in [1..Cardinality(T) -> T]
    BY <2>3, SeqOfSet
  <2> HIDE DEF q
  <2>6. q \in Seq(RunRow) /\ Len(q) = Cardinality(T) /\ DOMAIN q = 1..Cardinality(T)
    BY <2>3, <2>4, <2>5
  <2> QED
    BY <2>2, <2>3, <2>4, <2>5, <2>6
<1>7. Cardinality(Web!Pending(rs, p)) + Len(q) <= MaxPending
  <2>1. Cardinality(S) <= MaxPending - Cardinality(Web!Pending(rs, p))
    BY <1>1, WebCounts DEF Web!Fits
  <2>2. Cardinality(Web!Pending(rs, p)) \in Nat /\ MaxPending \in Nat
    <3>1. DOMAIN rs = 1..Len(rs) /\ Len(rs) \in Nat
      BY <1>3
    <3> HIDE DEF rs
    <3> QED
      BY <3>1, PendingFinite DEF WebGiven
  <2> HIDE DEF rs, q, T
  <2> QED
    BY <1>6, <2>1, <2>2
<1> HIDE DEF rs, q, T
<1>8. \A i \in DOMAIN q :
        /\ q[i].status = "queued" /\ q[i].kept
        /\ Web!Exists(q[i].check) /\ q[i].version = check[q[i].check].version
        /\ Home[q[i].check] = p
  BY <1>5, <1>6
<1>9. \A c \in Check : (Web!Exists(c)' <=> Web!Exists(c)) /\ (check'[c] = None <=> check[c] = None)
  BY <1>4 DEF Web!Exists, WebGiven
<1>10. \A r \in DOMAIN runs : r \in Web!Overdue(p) => runs[r].status \in Web!Active
  BY DEF Web!Overdue, Web!Pending
<1>11. \A r \in DOMAIN runs : rs[r].status \in Web!Active => runs[r].status \in Web!Active
  BY <1>3 DEF Web!Active
<1>12. \A r \in DOMAIN runs : ~rs[r].kept => \A s \in 1..r : rs[s].status \notin Web!Active
  <2> SUFFICES ASSUME NEW r \in DOMAIN runs, ~rs[r].kept, NEW s \in 1..r
               PROVE  rs[s].status \notin Web!Active
    OBVIOUS
  <2>1. s \in DOMAIN runs
    BY WebRows DEF WebIInv
  <2>2. CASE ~runs[r].kept
    BY <1>11, <2>1, <2>2 DEF WebIInv, DroppedAreOld
  <2>3. CASE runs[r].kept
    <3>1. r \in Web!Prunable(p)
      BY <1>3, <2>3
    <3> QED
      BY <1>11, <2>1, <3>1 DEF Web!Prunable
  <2> QED
    BY <2>2, <2>3
<1>13. \A c \in Check, m \in DOMAIN runs :
         /\ Web!Exists(c) /\ check'[c].health # "unknown"
         /\ m \in Web!Current(c) /\ rs[m].status \in Web!Finished
         /\ \A s \in Web!Current(c) : rs[s].status \in Web!Finished => s <= m
         => Agrees(check'[c].health, rs[m].status)
  <2> SUFFICES ASSUME NEW c \in Check, NEW m \in DOMAIN runs,
                      Web!Exists(c), check'[c].health # "unknown",
                      m \in Web!Current(c), rs[m].status \in Web!Finished,
                      \A s \in Web!Current(c) : rs[s].status \in Web!Finished => s <= m
               PROVE  Agrees(check'[c].health, rs[m].status)
    OBVIOUS
  <2>0. \A s \in Web!Current(c) : s \in DOMAIN runs /\ s \in Nat /\ runs[s].check = c
    BY WebRows DEF Web!Current, Web!Of, WebIInv
  <2>1. CASE m \in Web!Overdue(p)
    <3>1. Web!Newest(m)
      <4> SUFFICES ASSUME NEW s \in Web!Current(runs[m].check), s > m,
                          runs[s].status \in Web!Finished
                   PROVE  FALSE
        BY DEF Web!Newest
      <4>1. s \in Web!Current(c) /\ s \in DOMAIN runs /\ s \in Nat /\ m \in Nat
        BY <2>0
      <4>2. rs[s].status \in Web!Finished
        BY <1>3, <4>1 DEF Web!Finished
      <4> QED
        BY <4>1, <4>2
    <3>2. c \in Web!Blamed(p)
      BY <2>0, <2>1, <3>1 DEF Web!Blamed
    <3>3. check'[c].health = "monitor-error" /\ rs[m].status = "error"
      BY <1>3, <1>4, <2>1, <3>2
    <3> QED
      BY <3>3 DEF Agrees
  <2>2. CASE m \notin Web!Overdue(p)
    <3>1. rs[m].status = runs[m].status /\ runs[m].status \in Web!Finished
      BY <1>3, <2>2
    <3>2. Answers(c, m)
      <4> SUFFICES ASSUME NEW s \in Web!Current(c), runs[s].status \in Web!Finished PROVE s <= m
        BY <3>1 DEF Answers, Done
      <4>1. rs[s].status \in Web!Finished
        BY <1>3, <2>0 DEF Web!Finished
      <4> QED
        BY <4>1
    <3>3. c \notin Web!Blamed(p)
      <4> SUFFICES ASSUME NEW x \in Web!Overdue(p), runs[x].check = c, x \in Web!Current(c),
                          Web!Newest(x)
                   PROVE  FALSE
        BY DEF Web!Blamed
      <4>1. x \in DOMAIN runs /\ x \in Nat /\ m \in Nat /\ rs[x].status = "error"
        BY <1>3, <2>0
      <4>2. x <= m /\ x # m
        BY <2>2, <4>1 DEF Web!Finished
      <4>3. ~runs[m].kept
        BY <3>1, <4>1, <4>2 DEF Web!Newest
      <4>4. x \in 1..m
        <5>1. x \in 1..Len(runs)
          BY <4>1, WebRows DEF WebIInv
        <5> QED
          BY <4>1, <4>2, <5>1
      <4> QED
        BY <1>10, <4>1, <4>3, <4>4 DEF WebIInv, DroppedAreOld
    <3>4. check'[c].health = check[c].health
      BY <1>4, <3>3
    <3>5. Agrees(check[c].health, runs[m].status)
      BY <3>2, <3>4 DEF WebIInv, HealthIsOfAnswer
    <3> QED
      BY <3>1, <3>4, <3>5
  <2> QED
    BY <2>1, <2>2
<1>14. runs' = rs \o q
  BY <1>1 DEF rs, q, T
<1> QED
  <2>1. \A r \in DOMAIN runs :
          /\ rs[r].check = runs[r].check /\ rs[r].version = runs[r].version
          /\ rs[r].status \in Web!Active => runs[r].status \in Web!Active
          /\ ~rs[r].kept => \A s \in 1..r : rs[s].status \notin Web!Active
    BY <1>3, <1>11, <1>12
  <2>2. \A c \in Check : /\ Web!Exists(c)' <=> Web!Exists(c)
                         /\ check'[c] = None <=> check[c] = None
                         /\ Web!Exists(c) => /\ check'[c].version = check[c].version
                                             /\ check'[c].incident = check[c].incident
                                             /\ check'[c].alerts = check[c].alerts
    BY <1>4, <1>9
  <2>3. /\ rs \in Seq(RunRow) /\ Len(rs) = Len(runs) /\ q \in Seq(RunRow)
        /\ check' \in [Check -> CheckRow \cup {None, Gone}] /\ UNCHANGED <<notified, round>>
    BY <1>2, <1>3, <1>4, <1>6
  <2>4. Grows(p, rs, q)
    BY <1>7, <1>8, <1>13, <1>14, <2>1, <2>2, <2>3, SMTT(30) DEF Grows
  <2> QED
    BY <2>4, GrowStep

-----------------------------------------------------------------------------
\* Every step of the checks keeps the invariant.
LEMMA WebStep == ASSUME WebGiven PROVE WebIInv /\ [Web!Next]_(Web!vars) => WebIInv'
<1> SUFFICES ASSUME WebIInv, [Web!Next]_(Web!vars) PROVE WebIInv'
  OBVIOUS
<1>1. ASSUME NEW c \in Check, Web!Create(c) \/ Web!Update(c) \/ Web!Delete(c) \/ Web!Run(c)
               \/ Web!NextRun(c)
      PROVE  WebIInv'
  BY <1>1, CreateStep, UpdateStep, WebDeleteStep, RunStep, NextRunStep
<1>2. ASSUME NEW p \in Project, Web!Claim(p) \/ Web!Maintain(p) \/ Web!Fence(p) PROVE WebIInv'
  <2>1. Web!Fence(p) => UNCHANGED <<check, runs, notified, round>>
    BY DEF Web!Fence
  <2> QED
    BY <1>2, <2>1, ClaimStep, MaintainStep, OutsideStep
<1>3. ASSUME NEW r \in DOMAIN runs, NEW s \in Web!Finished, Web!Complete(r, s) PROVE WebIInv'
  BY <1>3, CompleteStep
<1>4. ASSUME NEW r \in DOMAIN runs, Web!Late(r) PROVE WebIInv'
  BY <1>4, LateStep
<1>5. CASE Web!Pause \/ UNCHANGED Web!vars
  <2>1. UNCHANGED <<check, runs, notified, round>>
    BY <1>5 DEF Web!Pause, Web!vars
  <2> QED
    BY <2>1, OutsideStep
<1>6. CASE Web!Restore
  BY <1>6, WebRestoreStep
<1> QED
  BY <1>1, <1>2, <1>3, <1>4, <1>5, <1>6 DEF Web!Next

\* The invariant holds from the first state on.
LEMMA WebInvariance == ASSUME WebGiven PROVE Web!Spec => []WebIInv
<1>1. Web!Init => WebIInv
  BY WebInit
<1>2. WebIInv /\ [Web!Next]_(Web!vars) => WebIInv'
  BY WebStep
<1> QED
  BY <1>1, <1>2, PTL DEF Web!Spec

\* "An old result cannot overwrite a newer recovery" (web_checks.rs:493): whatever order
\* runs finish, expire or are dropped in, a check has the health of the last created of
\* its finished runs.
THEOREM HealthFollows == ASSUME WebGiven PROVE Web!Spec => []Web!HealthFollowsRuns
<1>1. WebIInv => Web!HealthFollowsRuns
  <2> SUFFICES ASSUME WebIInv, NEW c \in Check, Web!Exists(c), check[c].health # "unknown",
                      Done(c) # {}
               PROVE  check[c].health \in
                        CASE runs[Web!Max(Done(c))].status = "passed" -> {"healthy"}
                          [] runs[Web!Max(Done(c))].status = "error"  -> {"monitor-error"}
                          [] runs[Web!Max(Done(c))].status = "failed" -> {"degraded", "failing"}
    BY DEF Web!HealthFollowsRuns, Done
  <2>1. Done(c) \in SUBSET (1..Len(runs)) /\ Len(runs) \in Nat
    BY WebRows DEF WebIInv, Done, Web!Current, Web!Of
  <2>2. PICK m \in Done(c) : \A y \in Done(c) : m >= y
    BY <2>1, Greatest
  <2>3. Web!Max(Done(c)) = m
    <3>1. Done(c) \in SUBSET Nat /\ \A y \in Done(c) : y <= m
      BY <2>1, <2>2
    <3> QED
      BY <2>2, <3>1, MaxIs
  <2>4. Answers(c, m) /\ m \in DOMAIN runs
    BY <2>1, <2>2 DEF Answers, Done, Web!Current, Web!Of
  <2> QED
    BY <2>3, <2>4 DEF WebIInv, HealthIsOfAnswer, Agrees
<1> QED
  BY <1>1, WebInvariance, PTL

\* The team hears "down" once for an incident and "recovered" once for its end, and the
\* last word agrees with the check.
THEOREM IncidentsTold == ASSUME WebGiven PROVE Web!Spec => []Web!IncidentsAlternate
<1>1. WebIInv => Web!IncidentsAlternate
  BY DEF WebIInv
<1> QED
  BY <1>1, WebInvariance, PTL

\* A project has no more runs under way than there is room for, whatever commands and
\* maintenance passes queue; and what is stored is of its type.
THEOREM RunsAreBounded == ASSUME WebGiven PROVE Web!Spec => []Web!TypeOK
<1>1. WebIInv => Web!TypeOK
  <2> SUFFICES ASSUME WebIInv PROVE Web!TypeOK
    OBVIOUS
  <2>1. \A c \in Check : Web!Exists(c) =>
          /\ check[c].health \in {"unknown", "healthy", "degraded", "failing", "monitor-error"}
          /\ check[c].version \in 1..(MaxVersion + MaxGeneration - 1)
    <3> SUFFICES ASSUME NEW c \in Check, Web!Exists(c)
                 PROVE  /\ check[c].health \in Healths
                        /\ check[c].version \in 1..(MaxVersion + MaxGeneration - 1)
      BY DEF Healths
    <3>1. check[c].version \in Nat \ {0} /\ check[c].health \in Healths
      BY WebRows DEF WebIInv, CheckRow
    <3>2. check[c].version <= MaxVersion + round - 1
      BY DEF WebIInv, WebDataOK
    <3>3. round \in 1..MaxGeneration /\ MaxVersion \in Nat /\ MaxGeneration \in Nat
      BY DEF WebIInv, WebDataOK, WebGiven
    <3> QED
      BY <3>1, <3>2, <3>3
  <2>2. \A r \in DOMAIN runs : runs[r].status \in Web!Active \cup Web!Finished \cup {"cancelled"}
    BY WebRows DEF WebIInv, RunRow
  <2> QED
    BY <2>1, <2>2, WebCounts DEF Web!TypeOK, WebIInv, PendingBounded
<1> QED
  BY <1>1, WebInvariance, PTL

(***************************************************************************)
(* NotificationDelivery.  The argument is a budget: the messages that a    *)
(* delivery of this generation may still cause without anybody's consent,  *)
(* one for each worker that may still send and one for a row that waits,   *)
(* are never more than those that are left to it.                          *)
(***************************************************************************)
NoticesStates == Notices!Pending \cup Notices!Final \cup {"running"}
NoticesOutcome == {"check", "send", "retry_wait"} \cup Notices!Final
EventRow == [kind : Kind \cup {Notices!Sent}, target : User \cup {None}, generation : Nat,
             routed : BOOLEAN, seen : SUBSET Notices!Integration, drill : BOOLEAN]
DeliveryRow == [state : NoticesStates, attempt : 0..MaxAttempt, version : Nat, lease : BOOLEAN]
Claimed == [lane : Notices!Lane, attempt : Nat, outcome : NoticesOutcome]
Snapshot == [event : [Notices!Source -> EventRow \cup {None}], receipt : SUBSET Command,
             delivery : [Notices!Lane -> DeliveryRow \cup {None}]]

\* A delivery has an attempt; the source keys of events are not ids of commands; the
\* workers of a process are finitely many; and no row is none.
NoticesGiven ==
    /\ MaxAttempt \in Nat \ {0} /\ MaxGeneration \in Nat \ {0}
    /\ Event \cap Command = {} /\ IsFiniteSet(Worker)
    /\ None \notin EventRow \cup DeliveryRow \cup Claimed \cup Snapshot

NoticesTyped ==
    /\ event \in [Notices!Source -> EventRow \cup {None}]
    /\ delivery \in [Notices!Lane -> DeliveryRow \cup {None}]
    /\ config \in [Notices!Integration \cup Legacy ->
                    [version : Nat, on : BOOLEAN, kinds : SUBSET (Kind \cup {Notices!Issue})]]
    /\ owner \subseteq User /\ muted \subseteq User /\ receipt \subseteq Command
    /\ work \in [Worker -> Claimed \cup {None}]
    /\ mode \in {"normal", "restore_validation"} /\ era \in 1..MaxGeneration
    /\ backup \in Snapshot \cup {None}
    /\ spare \in [Notices!Lane -> Int]

\* What the rows of an instance, or of a snapshot of it, say of one another: a delivery
\* is of an event that was routed, a command's event has its receipt, events are of
\* this generation or an earlier one, and a drill's deliveries are never failed.
Consistent(ev, dl, rc) ==
    /\ \A l \in Notices!Lane : dl[l] # None =>
         /\ ev[l[1]] # None /\ ev[l[1]].routed
         /\ dl[l].lease => dl[l].state = "running"
         /\ dl[l].state \in Notices!Pending => dl[l].attempt < MaxAttempt
         /\ ev[l[1]].drill => dl[l].state \in {"queued", "cancelled"}
    /\ \A s \in Notices!Source : ev[s] # None =>
         /\ ev[s].generation \in 1..era
         /\ s \in Command => s \in rc
Settled(ev, dl) ==
    /\ \A s \in Notices!Source : ev[s] # None /\ ev[s].drill => ev[s].routed
    /\ \A l \in Notices!Lane : dl[l] # None /\ ev[l[1]].drill => dl[l].state = "cancelled"

\* An instance that is in service has closed its drills, and so has its snapshot; what
\* was delivered since then is of this generation and no drill.
DrillsAreClosed == mode = "normal" => Settled(event, delivery)
SnapshotIsOlder ==
    backup # None =>
        /\ mode = "normal" /\ era < MaxGeneration
        /\ Consistent(backup.event, backup.delivery, backup.receipt)
        /\ Settled(backup.event, backup.delivery)
        /\ \A l \in Notices!Lane : Notices!Exists(l) /\ backup.delivery[l] = None =>
             Notices!Current(l) /\ ~event[l[1]].drill

\* Work is on deliveries that exist, in an instance in service, and is sent only for
\* events of this generation; only a receiver that deduplicates is asked again.
WorkIsCurrent ==
    \A w \in Worker : work[w] # None =>
        LET l == work[w].lane IN
        /\ mode = "normal" /\ Notices!Exists(l) /\ ~event[l[1]].drill
        /\ work[w].outcome = "send" => Notices!Current(l)
        /\ work[w].outcome = "retry_wait" => l[2] \in Webhook \cup Legacy

\* The budget of a delivery.
Spends(w, l) == work[w] # None /\ work[w].lane = l
/\ work[w].outcome \in {"check", "send", "failed"}
Spenders(l) == {w \in Worker : Spends(w, l)}
Waits(l) == IF ~Notices!Exists(l)
  \/ delivery[l].state \in Notices!Pending \cup {"failed"} THEN 1 ELSE 0
Deduplicated(l) == l[2] \in Webhook \cup Legacy
UntouchedIsWhole == \A l \in Notices!Lane : ~Notices!Exists(l) => spare[l] = 1
WithinBudget ==
    \A l \in Notices!Lane : Notices!Exists(l) /\ ~Deduplicated(l) =>
        /\ spare[l] >= 0
        /\ Notices!Current(l) => Cardinality(Spenders(l)) + Waits(l) <= spare[l]

NoticesIInv ==
    /\ NoticesTyped /\ Consistent(event, delivery, receipt) /\ DrillsAreClosed /\ SnapshotIsOlder
    /\ WorkIsCurrent /\ UntouchedIsWhole /\ WithinBudget

-----------------------------------------------------------------------------
LEMMA LaneParts ==
  /\ \A l \in Notices!Lane : l[1] \in Notices!Source /\ l[2] \in Notices!Destination
  /\ \A s \in Notices!Source, d \in Notices!Destination : <<s, d>> \in Notices!Lane
     /\ <<s, d>>[1] = s /\ <<s, d>>[2] = d
BY DEF Notices!Lane

LEMMA NewEventType ==
  ASSUME NoticesGiven, NoticesTyped, NEW kind \in Kind \cup {Notices!Sent},
         NEW target \in User \cup {None}
  PROVE  Notices!NewEvent(kind, target) \in EventRow
BY DEF Notices!NewEvent, EventRow, NoticesGiven, NoticesTyped

LEMMA RowType ==
  ASSUME NoticesGiven, NEW v \in Nat
  PROVE  Notices!Row(v) \in DeliveryRow
BY DEF Notices!Row, DeliveryRow, NoticesStates, Notices!Pending, NoticesGiven

\* A row whose state and lease change, and which may have been claimed once more.
LEMMA RowChange ==
  ASSUME NEW row \in DeliveryRow, NEW st \in NoticesStates, NEW ls \in BOOLEAN,
         NEW n \in 0..MaxAttempt
  PROVE  /\ [row EXCEPT !.state = st, !.lease = ls, !.attempt = n] \in DeliveryRow
         /\ [row EXCEPT !.state = st, !.lease = ls] \in DeliveryRow
         /\ [row EXCEPT !.lease = ls, !.state = st] \in DeliveryRow
         /\ [row EXCEPT !.state = st] \in DeliveryRow
         /\ [row EXCEPT !.lease = ls] \in DeliveryRow
BY DEF DeliveryRow

LEMMA ExistingRow ==
  ASSUME NoticesTyped, NEW l \in Notices!Lane, Notices!Exists(l)
  PROVE  delivery[l] \in DeliveryRow
BY DEF NoticesTyped, Notices!Exists, Notices!NoDelivery

LEMMA WorkRow ==
  ASSUME NoticesTyped, NEW w \in Worker, work[w] # Notices!NoWork
  PROVE  work[w] \in Claimed
BY DEF NoticesTyped, Notices!NoWork

-----------------------------------------------------------------------------
LEMMA NoticesTypedInit == ASSUME NoticesGiven PROVE Notices!Init => NoticesTyped
<1> SUFFICES ASSUME Notices!Init PROVE NoticesTyped
  OBVIOUS
<1>1. /\ event \in [Notices!Source -> EventRow \cup {None}]
      /\ delivery \in [Notices!Lane -> DeliveryRow \cup {None}]
      /\ work \in [Worker -> Claimed \cup {None}]
      /\ spare \in [Notices!Lane -> Int]
  BY DEF Notices!Init, Notices!NoEvent, Notices!NoDelivery, Notices!NoWork
<1>2. config \in [Notices!Integration \cup Legacy ->
                   [version : Nat, on : BOOLEAN, kinds : SUBSET (Kind \cup {Notices!Issue})]]
  BY DEF Notices!Init
<1> QED
  BY <1>1, <1>2 DEF Notices!Init, NoticesTyped, NoticesGiven, Notices!NoEvent

\* The owner's commands: their rows, configurations and receipts.
LEMMA NoticesTypedOwner ==
  ASSUME NoticesGiven, NoticesTyped, SnapshotIsOlder, Notices!OwnerStep PROVE NoticesTyped'
<1> USE DEF NoticesTyped
<1>1. ASSUME NEW c \in Command, NEW d \in Notices!Integration, Notices!Configure(c, d)
      PROVE  NoticesTyped'
  <2>1. config[d].version + 1 \in Nat
    OBVIOUS
  <2>2. config' \in [Notices!Integration \cup Legacy ->
                      [version : Nat, on : BOOLEAN, kinds : SUBSET (Kind \cup {Notices!Issue})]]
    BY <1>1, <2>1 DEF Notices!Configure
  <2> QED
    BY <1>1, <2>2 DEF Notices!Configure, Notices!people, Notices!instance
<1>2. ASSUME NEW d \in Legacy, Notices!UpdateProject(d) PROVE NoticesTyped'
  <2>1. config[d].version + 1 \in Nat
    OBVIOUS
  <2>2. PICK on \in BOOLEAN :
          config' = [config EXCEPT ![d].version = config[d].version + 1, ![d].on = on]
    BY <1>2 DEF Notices!UpdateProject
  <2> DEFINE new == [config[d] EXCEPT !.version = config[d].version + 1, !.on = on]
  <2>3. new \in [version : Nat, on : BOOLEAN, kinds : SUBSET (Kind \cup {Notices!Issue})]
    BY <2>1
  <2>4. config' = [config EXCEPT ![d] = new]
    BY <2>2
  <2>5. config' \in [Notices!Integration \cup Legacy ->
                      [version : Nat, on : BOOLEAN, kinds : SUBSET (Kind \cup {Notices!Issue})]]
    <3> HIDE DEF new
    <3> QED
      BY <2>3, <2>4
  <2> QED
    BY <1>2, <2>5 DEF Notices!UpdateProject, Notices!people, Notices!instance
<1>3. ASSUME NEW c \in Command, NEW d \in Notices!Integration, Notices!Send(c, d)
      PROVE  NoticesTyped'
  <2>1. PICK u \in owner : event' = [event EXCEPT ![c] = Notices!NewEvent(Notices!Sent, u)]
    BY <1>3 DEF Notices!Send
  <2>2. Notices!NewEvent(Notices!Sent, u) \in EventRow
    BY NewEventType
  <2>3. config[d].version \in Nat
    OBVIOUS
  <2>4. Notices!Row(config[d].version) \in DeliveryRow
    BY <2>3, RowType
  <2>5. event' \in [Notices!Source -> EventRow \cup {None}]
    BY <2>1, <2>2
  <2>6. delivery' \in [Notices!Lane -> DeliveryRow \cup {None}]
    BY <1>3, <2>4 DEF Notices!Send
  <2> QED
    BY <1>3, <2>5, <2>6 DEF Notices!Send, Notices!people, Notices!instance
<1>4. ASSUME NEW c \in Command, NEW l \in Notices!Lane, NEW a \in BOOLEAN, Notices!Retry(c, l, a)
      PROVE  NoticesTyped'
  <2>1. delivery[l] \in DeliveryRow
    BY <1>4, ExistingRow DEF Notices!Retry
  <2>2. [delivery[l] EXCEPT !.state = "queued"] \in DeliveryRow
    BY <2>1 DEF DeliveryRow, NoticesStates, Notices!Pending
  <2>3. delivery' = [delivery EXCEPT ![l] = [delivery[l] EXCEPT !.state = "queued"]]
    BY <1>4 DEF Notices!Retry
  <2>4. delivery' \in [Notices!Lane -> DeliveryRow \cup {None}]
    BY <2>2, <2>3
  <2>5. spare' \in [Notices!Lane -> Int]
    BY <1>4 DEF Notices!Retry
  <2> QED
    BY <1>4, <2>4, <2>5 DEF Notices!Retry, Notices!people, Notices!instance
<1>5. ASSUME NEW u \in User, Notices!Mute(u) \/ Notices!Demote(u) PROVE NoticesTyped'
  BY <1>5 DEF Notices!Mute, Notices!Demote, Notices!instance
<1>6. ASSUME Notices!Backup PROVE NoticesTyped'
  <2>1. \A l \in Notices!Lane : Notices!Paused(delivery[l]) \in DeliveryRow \cup {None}
    <3> SUFFICES ASSUME NEW l \in Notices!Lane, delivery[l] \in DeliveryRow
                 PROVE  Notices!Paused(delivery[l]) \in DeliveryRow \cup {None}
      BY DEF Notices!Paused, Notices!NoDelivery
    <3> DEFINE st == IF delivery[l].state = "running" THEN "uncertain" ELSE "cancelled"
    <3>1. [delivery[l] EXCEPT !.lease = FALSE, !.state = st] \in DeliveryRow
      BY DEF DeliveryRow, NoticesStates, Notices!Final
    <3> QED
      BY <3>1 DEF Notices!Paused
  <2>2. backup' \in Snapshot
    BY <1>6, <2>1 DEF Notices!Backup, Snapshot
  <2> QED
    BY <1>6, <2>2 DEF Notices!Backup, Notices!people
<1>7. ASSUME Notices!Restore PROVE NoticesTyped'
  <2>1. backup \in Snapshot
    BY <1>7 DEF Notices!Restore, Notices!NoEvent
  <2>2. era' \in 1..MaxGeneration
    BY <1>7 DEF Notices!Restore, NoticesGiven, SnapshotIsOlder, Notices!NoEvent
  <2>3. spare' \in [Notices!Lane -> Int]
    BY <1>7 DEF Notices!Restore
  <2> QED
    BY <1>7, <2>1, <2>2, <2>3 DEF Notices!Restore, Notices!people, Snapshot, Notices!NoEvent,
    Notices!NoWork
<1>8. ASSUME Notices!Resume PROVE NoticesTyped'
  <2>1. ASSUME NEW s \in Notices!Source, event[s] # None
        PROVE  [event[s] EXCEPT !.routed = TRUE] \in EventRow
    BY <2>1 DEF EventRow
  <2>2. event' \in [Notices!Source -> EventRow \cup {None}]
    BY <1>8, <2>1 DEF Notices!Resume, Notices!NoEvent
  <2>3. ASSUME NEW l \in Notices!Lane PROVE Notices!Closed(delivery[l]) \in DeliveryRow \cup {None}
    <3>1. CASE delivery[l] \in DeliveryRow
      <4>1. [delivery[l] EXCEPT !.state = "cancelled", !.lease = FALSE] \in DeliveryRow
        BY <3>1 DEF DeliveryRow, NoticesStates, Notices!Final
      <4> QED
        BY <3>1, <4>1 DEF Notices!Closed
    <3>2. CASE delivery[l] = None
      BY <3>2 DEF Notices!Closed, Notices!NoDelivery
    <3> QED
      BY <3>1, <3>2
  <2>4. delivery' \in [Notices!Lane -> DeliveryRow \cup {None}]
    BY <1>8, <2>3 DEF Notices!Resume
  <2> QED
    BY <1>8, <2>2, <2>4 DEF Notices!Resume, Notices!people
<1> QED
  BY <1>1, <1>2, <1>3, <1>4, <1>5, <1>6, <1>7, <1>8 DEF Notices!OwnerStep

\* One row that exists changes, and what it is then.
Changes(l, row) ==
    /\ delivery' = [delivery EXCEPT ![l] = row]
    /\ row \in DeliveryRow /\ Notices!Exists(l)

LEMMA RetryRow ==
  ASSUME NoticesTyped, NEW c \in Command, NEW l \in Notices!Lane, NEW a \in BOOLEAN,
         Notices!Retry(c, l, a)
  PROVE  Changes(l, [delivery[l] EXCEPT !.state = "queued"])
<1>1. delivery[l] \in DeliveryRow /\ Notices!Exists(l)
  BY ExistingRow DEF Notices!Retry
<1>2. [delivery[l] EXCEPT !.state = "queued"] \in DeliveryRow
  BY <1>1 DEF DeliveryRow, NoticesStates, Notices!Pending
<1> QED
  BY <1>1, <1>2 DEF Changes, Notices!Retry

LEMMA SweepRow ==
  ASSUME NoticesTyped, NEW l \in Notices!Lane, Notices!Sweep(l)
  PROVE  Changes(l, [delivery[l] EXCEPT !.state = "uncertain"])
<1>1. delivery[l] \in DeliveryRow /\ Notices!Exists(l)
  BY ExistingRow DEF Notices!Sweep
<1>2. [delivery[l] EXCEPT !.state = "uncertain"] \in DeliveryRow
  BY <1>1 DEF DeliveryRow, NoticesStates, Notices!Final
<1> QED
  BY <1>1, <1>2 DEF Changes, Notices!Sweep, Notices!SweptState

LEMMA ExpiryRow ==
  ASSUME NoticesTyped, NEW l \in Notices!Lane, Notices!LeaseExpires(l)
  PROVE  Changes(l, [delivery[l] EXCEPT !.lease = FALSE])
<1>1. delivery[l] \in DeliveryRow /\ Notices!Exists(l)
  BY ExistingRow DEF Notices!LeaseExpires
<1>2. [delivery[l] EXCEPT !.lease = FALSE] \in DeliveryRow
  BY <1>1 DEF DeliveryRow
<1> QED
  BY <1>1, <1>2 DEF Changes, Notices!LeaseExpires

ClaimedRow(l) ==
  [delivery[l] EXCEPT !.state = "running", !.lease = TRUE, !.attempt = delivery[l].attempt + 1]
LEMMA ClaimRow ==
  ASSUME NoticesGiven, NoticesTyped, NEW w \in Worker, NEW l \in Notices!Lane, Notices!Claim(w, l)
  PROVE  /\ Changes(l, ClaimedRow(l))
         /\ work' = [work EXCEPT ![w] =
              [lane |-> l, attempt |-> delivery[l].attempt + 1, outcome |-> "check"]]
         /\ work' \in [Worker -> Claimed \cup {None}]
<1>1. delivery[l] \in DeliveryRow /\ Notices!Exists(l)
  BY ExistingRow DEF Notices!Claim
<1>2. delivery[l].attempt + 1 \in 0..MaxAttempt /\ delivery[l].attempt + 1 \in Nat
  BY <1>1 DEF Notices!Claim, DeliveryRow, NoticesGiven
<1>3. ClaimedRow(l) \in DeliveryRow
  BY <1>1, <1>2 DEF ClaimedRow, DeliveryRow, NoticesStates
<1>4. delivery' = [delivery EXCEPT ![l] = ClaimedRow(l)]
  BY <1>1 DEF Notices!Claim, ClaimedRow, NoticesTyped
<1>5. [lane |-> l, attempt |-> delivery[l].attempt + 1, outcome |-> "check"] \in Claimed
  BY <1>2 DEF Claimed, NoticesOutcome
<1>6. work' \in [Worker -> Claimed \cup {None}]
  BY <1>5 DEF Notices!Claim, NoticesTyped
<1> QED
  BY <1>1, <1>3, <1>4, <1>6 DEF Changes, Notices!Claim

\* An answer that comes under a lease ends the attempt, unless it may be tried again.
AnsweredRow(w) ==
  [delivery[work[w].lane] EXCEPT !.lease = FALSE,
     !.state = IF Notices!Exhausted(w) THEN "uncertain" ELSE work[w].outcome]
LEMMA CompleteRow ==
  ASSUME NoticesGiven, NoticesTyped, WorkIsCurrent, NEW w \in Worker, Notices!Complete(w)
  PROVE  /\ work[w].lane \in Notices!Lane
         /\ IF Notices!Holds(w) THEN Changes(work[w].lane, AnsweredRow(w)) ELSE UNCHANGED delivery
<1>1. work[w] # Notices!NoWork /\ work[w].outcome \in Notices!Final \cup {"retry_wait"}
  BY DEF Notices!Complete, Notices!Answered
<1>2. work[w].lane \in Notices!Lane
  BY <1>1, WorkRow DEF Claimed
<1>3. Notices!Exists(work[w].lane) /\ delivery[work[w].lane] \in DeliveryRow
  BY <1>1, <1>2, ExistingRow DEF WorkIsCurrent, Notices!NoWork
<1>4. AnsweredRow(w) \in DeliveryRow
  <2> DEFINE st == IF Notices!Exhausted(w) THEN "uncertain" ELSE work[w].outcome
  <2>1. st \in NoticesStates
    BY <1>1 DEF NoticesStates, Notices!Final, Notices!Pending
  <2> HIDE DEF st
  <2>2. [delivery[work[w].lane] EXCEPT !.lease = FALSE, !.state = st] \in DeliveryRow
    BY <1>3, <2>1 DEF DeliveryRow
  <2> QED
    BY <2>2 DEF AnsweredRow, st
<1>5. CASE Notices!Holds(w)
  <2>1. delivery' = [delivery EXCEPT ![work[w].lane].lease = FALSE,
          ![work[w].lane].state = IF Notices!Exhausted(w) THEN "uncertain" ELSE work[w].outcome]
    BY <1>5 DEF Notices!Complete
  <2>2. delivery' = [delivery EXCEPT ![work[w].lane] = AnsweredRow(w)]
    BY <1>2, <2>1 DEF AnsweredRow, NoticesTyped
  <2> QED
    BY <1>2, <1>3, <1>4, <1>5, <2>2 DEF Changes
<1>6. CASE ~Notices!Holds(w)
  BY <1>2, <1>6 DEF Notices!Complete
<1> QED
  BY <1>5, <1>6

\* What a worker learns.
LEMMA LearnWork ==
  ASSUME NoticesTyped, NEW w \in Worker, Notices!Target(w) \/ Notices!Request(w)
  PROVE  \E o \in NoticesOutcome :
           /\ work[w] # Notices!NoWork
           /\ work' = [work EXCEPT ![w] = [work[w] EXCEPT !.outcome = o]]
           /\ [work[w] EXCEPT !.outcome = o] \in Claimed
           /\ Notices!Target(w) => work[w].outcome = "check" /\ o \in Notices!Verdicts(work[w].lane)
           /\ Notices!Request(w) => work[w].outcome = "send"
              /\ o \in Notices!Outcomes(work[w].lane[2])
<1>1. work[w] # Notices!NoWork /\ work[w] \in Claimed
  BY WorkRow DEF Notices!Target, Notices!Request
<1>2. ASSUME NEW o \in NoticesOutcome PROVE [work[w] EXCEPT !.outcome = o] \in Claimed
  BY <1>1 DEF Claimed
<1>3. CASE Notices!Target(w)
  <2>1. PICK o \in Notices!Verdicts(work[w].lane) : work' = [work EXCEPT ![w].outcome = o]
    BY <1>3 DEF Notices!Target
  <2>2. o \in NoticesOutcome
    BY <2>1 DEF Notices!Verdicts, NoticesOutcome, Notices!Final
  <2>3. work' = [work EXCEPT ![w] = [work[w] EXCEPT !.outcome = o]]
    BY <2>1
  <2>4. work[w].outcome = "check" /\ ~Notices!Request(w)
    BY <1>3 DEF Notices!Target, Notices!Request
  <2> QED
    BY <1>1, <1>2, <2>2, <2>3, <2>4
<1>4. CASE Notices!Request(w)
  <2>1. PICK o \in Notices!Outcomes(work[w].lane[2]) : work' = [work EXCEPT ![w].outcome = o]
    BY <1>4 DEF Notices!Request
  <2>2. o \in NoticesOutcome
    BY <2>1 DEF Notices!Outcomes, NoticesOutcome, Notices!Final
  <2>3. work' = [work EXCEPT ![w] = [work[w] EXCEPT !.outcome = o]]
    BY <2>1
  <2>4. work[w].outcome = "send" /\ ~Notices!Target(w)
    BY <1>4 DEF Notices!Target, Notices!Request
  <2> QED
    BY <1>1, <1>2, <2>2, <2>3, <2>4
<1> QED
  BY <1>3, <1>4

\* What the router adds.
LEMMA RouteRows ==
  ASSUME NoticesGiven, NoticesTyped, NEW s \in Notices!Source, Notices!Route(s)
  PROVE  /\ event[s] \in EventRow
            /\ event' = [event EXCEPT ![s] = [event[s] EXCEPT !.routed = TRUE]]
         /\ [event[s] EXCEPT !.routed = TRUE] \in EventRow
         /\ delivery' \in [Notices!Lane -> DeliveryRow \cup {None}]
         /\ \A l \in Notices!Lane :
              \/ delivery'[l] = delivery[l]
              \/ /\ ~Notices!Exists(l) /\ l[1] = s /\ event[s].generation = era
                 /\ delivery'[l] \in DeliveryRow /\ delivery'[l].state = "queued"
                 /\ delivery'[l].attempt = 0 /\ ~delivery'[l].lease
<1>1. event[s] \in EventRow
  BY DEF Notices!Route, NoticesTyped, Notices!NoEvent
<1>2. [event[s] EXCEPT !.routed = TRUE] \in EventRow
  BY <1>1 DEF EventRow
<1>3. event' = [event EXCEPT ![s] = [event[s] EXCEPT !.routed = TRUE]]
  BY DEF Notices!Route
<1>4. ASSUME NEW d \in Notices!Audience(event[s])
      PROVE  Notices!Row(Notices!Version(d)) \in DeliveryRow
  <2>1. d \in Notices!Integration \cup Legacy \cup User
    BY DEF Notices!Audience
  <2>2. Notices!Version(d) \in Nat
    BY <2>1 DEF Notices!Version, NoticesTyped
  <2> QED
    BY <2>2, RowType
<1>5. ASSUME NEW l \in Notices!Lane
      PROVE  /\ delivery'[l] \in DeliveryRow \cup {None}
             /\ \/ delivery'[l] = delivery[l]
                \/ /\ ~Notices!Exists(l) /\ l[1] = s /\ event[s].generation = era
                   /\ delivery'[l] \in DeliveryRow /\ delivery'[l].state = "queued"
                   /\ delivery'[l].attempt = 0 /\ ~delivery'[l].lease
  <2> DEFINE Added == /\ l[1] = s /\ ~Notices!Exists(l)
                      /\ event[s].generation = era /\ l[2] \in Notices!Audience(event[s])
  <2>1. delivery'[l] = IF Added THEN Notices!Row(Notices!Version(l[2])) ELSE delivery[l]
    BY DEF Notices!Route
  <2>2. CASE Added
    BY <1>4, <2>1, <2>2 DEF Notices!Row
  <2>3. CASE ~Added
    BY <2>1, <2>3 DEF NoticesTyped
  <2> QED
    BY <2>2, <2>3
<1>6. delivery' \in [Notices!Lane -> DeliveryRow \cup {None}]
  <2>1. delivery' = [l \in Notices!Lane |-> delivery'[l]]
    BY DEF Notices!Route
  <2> QED
    BY <1>5, <2>1
<1> QED
  BY <1>1, <1>2, <1>3, <1>5, <1>6

LEMMA NoticesTypedStep ==
  ASSUME NoticesGiven, NoticesTyped, SnapshotIsOlder, WorkIsCurrent, [Notices!Next]_(Notices!vars)
  PROVE  NoticesTyped'
<1>1. ASSUME NEW e \in Event, NEW kind \in Kind, Notices!Raise(e, kind) PROVE NoticesTyped'
  <2>1. Notices!NewEvent(kind, Notices!NoEvent) \in EventRow
    BY NewEventType DEF Notices!NoEvent
  <2>2. event' \in [Notices!Source -> EventRow \cup {None}]
    BY <1>1, <2>1 DEF Notices!Raise, NoticesTyped
  <2> QED
    BY <1>1, <2>2 DEF Notices!Raise, NoticesTyped, Notices!people, Notices!instance
<1>2. ASSUME NEW s \in Notices!Source, Notices!Route(s) PROVE NoticesTyped'
  <2>1. event' \in [Notices!Source -> EventRow \cup {None}]
    BY <1>2, RouteRows DEF NoticesTyped
  <2>2. delivery' \in [Notices!Lane -> DeliveryRow \cup {None}]
    BY <1>2, RouteRows
  <2> QED
    BY <1>2, <2>1, <2>2 DEF Notices!Route, NoticesTyped, Notices!people, Notices!instance
<1>3. ASSUME NEW l \in Notices!Lane, NEW row, Changes(l, row)
      PROVE  delivery' \in [Notices!Lane -> DeliveryRow \cup {None}]
  BY <1>3 DEF Changes, NoticesTyped
<1>4. ASSUME NEW w \in Worker, NEW l \in Notices!Lane, Notices!Claim(w, l) PROVE NoticesTyped'
  <2>1. /\ delivery' \in [Notices!Lane -> DeliveryRow \cup {None}]
        /\ work' \in [Worker -> Claimed \cup {None}]
    BY <1>3, <1>4, ClaimRow
  <2> QED
    BY <1>4, <2>1 DEF Notices!Claim, NoticesTyped, Notices!people, Notices!instance
<1>5. ASSUME NEW w \in Worker, Notices!Target(w) \/ Notices!Request(w) PROVE NoticesTyped'
  <2>1. work' \in [Worker -> Claimed \cup {None}]
    BY <1>5, LearnWork DEF NoticesTyped
  <2>2. spare' \in [Notices!Lane -> Int]
    BY <1>5 DEF Notices!Target, Notices!Request, NoticesTyped
  <2> QED
    BY <1>5, <2>1, <2>2 DEF Notices!Target, Notices!Request, NoticesTyped, Notices!people,
    Notices!instance
<1>6. ASSUME NEW w \in Worker, Notices!Complete(w) PROVE NoticesTyped'
  <2>1. delivery' \in [Notices!Lane -> DeliveryRow \cup {None}]
    BY <1>3, <1>6, CompleteRow DEF NoticesTyped
  <2>2. work' \in [Worker -> Claimed \cup {None}]
    BY <1>6 DEF Notices!Complete, NoticesTyped, Notices!NoWork
  <2> QED
    BY <1>6, <2>1, <2>2 DEF Notices!Complete, NoticesTyped, Notices!people, Notices!instance
<1>7. ASSUME NEW w \in Worker, Notices!Drop(w) PROVE NoticesTyped'
  BY <1>7 DEF Notices!Drop, NoticesTyped, Notices!NoWork, Notices!people, Notices!instance
<1>8. ASSUME NEW l \in Notices!Lane, Notices!Sweep(l) \/ Notices!LeaseExpires(l) PROVE NoticesTyped'
  <2>1. delivery' \in [Notices!Lane -> DeliveryRow \cup {None}]
    BY <1>3, <1>8, SweepRow, ExpiryRow
  <2> QED
    BY <1>8, <2>1 DEF Notices!Sweep, Notices!LeaseExpires, NoticesTyped, Notices!people,
    Notices!instance
<1>9. CASE UNCHANGED Notices!vars
  BY <1>9 DEF Notices!vars, NoticesTyped, Notices!people, Notices!instance
<1> QED
  BY <1>1, <1>2, <1>4, <1>5, <1>6, <1>7, <1>8, <1>9, NoticesTypedOwner DEF Notices!Next,
  Notices!Cycle

-----------------------------------------------------------------------------
\* What an instance says of itself, and its snapshot of the instance before.
Rows == Consistent(event, delivery, receipt) /\ DrillsAreClosed /\ SnapshotIsOlder

LEMMA RowsInit == ASSUME NoticesGiven PROVE Notices!Init => Rows
BY DEF Notices!Init, Rows, Consistent, DrillsAreClosed, Settled, SnapshotIsOlder, Notices!NoEvent,
Notices!NoDelivery

\* Steps that leave events and deliveries alone.
LEMMA QuietRows ==
  ASSUME Rows, UNCHANGED <<event, delivery, mode, era, backup>>, receipt \subseteq receipt'
  PROVE  Rows'
<1>1. Consistent(event, delivery, receipt)'
  BY DEF Rows, Consistent
<1>2. DrillsAreClosed'
  BY DEF Rows, DrillsAreClosed, Settled
<1>3. SnapshotIsOlder'
  BY DEF Rows, SnapshotIsOlder, Consistent, Settled, Notices!Exists, Notices!Current
<1> QED
  BY <1>1, <1>2, <1>3 DEF Rows

\* Steps that change a delivery which is no drill's.
LEMMA ChangedRows ==
  ASSUME NoticesGiven, NoticesTyped, Rows, UNCHANGED <<event, mode, era, backup>>,
         receipt \subseteq receipt',
         NEW l \in Notices!Lane, NEW row, Changes(l, row), ~event[l[1]].drill,
         row.lease => row.state = "running",
         row.state \in Notices!Pending => row.attempt < MaxAttempt
  PROVE  Rows'
<1>1. /\ delivery'[l] = row /\ row # None /\ delivery[l] # None
      /\ \A m \in Notices!Lane \ {l} : delivery'[m] = delivery[m]
  BY DEF Changes, NoticesTyped, NoticesGiven, Notices!Exists, Notices!NoDelivery
<1>2. Consistent(event, delivery, receipt)'
  BY <1>1 DEF Rows, Consistent
<1>3. DrillsAreClosed'
  BY <1>1 DEF Rows, DrillsAreClosed, Settled
<1>4. SnapshotIsOlder'
  <2>1. \A m \in Notices!Lane : Notices!Exists(m)' <=> Notices!Exists(m)
    BY <1>1 DEF Notices!Exists, Notices!NoDelivery
  <2>2. \A m \in Notices!Lane : Notices!Current(m)' <=> Notices!Current(m)
    BY DEF Notices!Current
  <2> QED
    BY <2>1, <2>2 DEF Rows, SnapshotIsOlder, Consistent, Settled
<1> QED
  BY <1>2, <1>3, <1>4 DEF Rows

\* A new event, and the delivery that a command asks for with it.
LEMMA NewRows ==
  ASSUME NoticesGiven, NoticesTyped, Rows, UNCHANGED <<mode, era, backup>>,
         receipt \subseteq receipt',
         NEW s \in Notices!Source, event[s] = None, s \in Command => s \in receipt',
         NEW new, event' = [event EXCEPT ![s] = new], new \in EventRow,
         new.generation = era, new.drill = (mode # "normal"),
         \A l \in Notices!Lane : \/ delivery'[l] = delivery[l]
                                 \/ /\ l[1] = s /\ new.routed
                                    /\ delivery'[l].state = "queued" /\ delivery'[l].attempt = 0
                                    /\ ~delivery'[l].lease
  PROVE  Rows'
<1>1. /\ event'[s] = new /\ new # None
      /\ \A t \in Notices!Source \ {s} : event'[t] = event[t]
  BY DEF NoticesTyped, NoticesGiven
<1>2. \A l \in Notices!Lane : l[1] = s => delivery[l] = None
  BY DEF Rows, Consistent
<1>3. era \in 1..era /\ 0 < MaxAttempt
  BY DEF NoticesTyped, NoticesGiven
<1>4. ASSUME NEW l \in Notices!Lane, delivery'[l] # None
      PROVE  \/ l[1] # s /\ delivery'[l] = delivery[l] /\ event'[l[1]] = event[l[1]]
             \/ /\ l[1] = s /\ new.routed /\ event'[l[1]] = new
                /\ delivery'[l].state = "queued" /\ delivery'[l].attempt = 0
                /\ ~delivery'[l].lease
  BY <1>1, <1>2, <1>4, LaneParts
<1>5. Consistent(event, delivery, receipt)'
  <2>1. \A t \in Notices!Source : event'[t] # None =>
          /\ event'[t].generation \in 1..era'
          /\ t \in Command => t \in receipt'
    BY <1>1, <1>3 DEF Rows, Consistent
  <2>2. ASSUME NEW l \in Notices!Lane, delivery'[l] # None
        PROVE  /\ event'[l[1]] # None /\ event'[l[1]].routed
               /\ delivery'[l].lease => delivery'[l].state = "running"
               /\ delivery'[l].state \in Notices!Pending => delivery'[l].attempt < MaxAttempt
               /\ event'[l[1]].drill => delivery'[l].state \in {"queued", "cancelled"}
    BY <1>1, <1>3, <1>4, <2>2 DEF Rows, Consistent
  <2> QED
    BY <2>1, <2>2 DEF Consistent
<1>6. ASSUME mode = "normal" PROVE Settled(event', delivery')
  <2>1. ~new.drill /\ Settled(event, delivery)
    BY <1>6 DEF Rows, DrillsAreClosed
  <2> QED
    BY <1>1, <1>4, <2>1, LaneParts DEF Settled
<1>7. DrillsAreClosed'
  BY <1>6 DEF DrillsAreClosed
<1>8. ASSUME backup # None PROVE SnapshotIsOlder'
  <2>1. mode = "normal"
    BY <1>8 DEF Rows, SnapshotIsOlder
  <2>2. ASSUME NEW l \in Notices!Lane, Notices!Exists(l)', backup.delivery[l] = None
        PROVE  Notices!Current(l)' /\ ~event'[l[1]].drill
    <3>1. delivery'[l] # None
      BY <2>2 DEF Notices!Exists, Notices!NoDelivery
    <3>2. CASE l[1] = s
      BY <1>1, <2>1, <3>2 DEF Notices!Current
    <3>3. CASE l[1] # s
      <4>1. delivery'[l] = delivery[l] /\ event'[l[1]] = event[l[1]]
        BY <1>4, <3>1, <3>3
      <4> QED
        BY <1>8, <2>2, <3>1, <4>1 DEF Rows, SnapshotIsOlder, Notices!Exists, Notices!NoDelivery,
        Notices!Current
    <3> QED
      BY <3>2, <3>3
  <2> QED
    BY <1>8, <2>1, <2>2 DEF Rows, SnapshotIsOlder, Consistent, Settled
<1> QED
  BY <1>5, <1>7, <1>8 DEF Rows, SnapshotIsOlder

\* The router marks its event and adds deliveries of this generation.
LEMMA RoutedRows ==
  ASSUME NoticesGiven, NoticesTyped, Rows, NEW s \in Notices!Source, Notices!Route(s)
  PROVE  Rows'
<1>1. /\ mode = "normal" /\ event[s] # None /\ ~event[s].routed
      /\ UNCHANGED <<receipt, mode, era, backup>>
  BY DEF Notices!Route, Notices!NoEvent, Notices!instance
<1>2. /\ event[s] \in EventRow /\ event' = [event EXCEPT ![s] = [event[s] EXCEPT !.routed = TRUE]]
      /\ [event[s] EXCEPT !.routed = TRUE] \in EventRow
      /\ \A l \in Notices!Lane :
           \/ delivery'[l] = delivery[l]
           \/ /\ ~Notices!Exists(l) /\ l[1] = s /\ event[s].generation = era
              /\ delivery'[l] \in DeliveryRow /\ delivery'[l].state = "queued"
              /\ delivery'[l].attempt = 0 /\ ~delivery'[l].lease
  BY RouteRows
<1>3. /\ event'[s].routed /\ event'[s].drill = event[s].drill /\ event'[s] # None
      /\ event'[s].generation = event[s].generation
      /\ \A t \in Notices!Source \ {s} : event'[t] = event[t]
  BY <1>2 DEF NoticesTyped, NoticesGiven, EventRow
<1>4. ~event[s].drill /\ Settled(event, delivery)
  BY <1>1 DEF Rows, DrillsAreClosed, Settled
<1>5. 0 < MaxAttempt
  BY DEF NoticesGiven
<1>6. Consistent(event, delivery, receipt)'
  <2>1. \A t \in Notices!Source : event'[t] # None =>
          event'[t].generation \in 1..era' /\ (t \in Command => t \in receipt')
    BY <1>1, <1>3 DEF Rows, Consistent
  <2>2. ASSUME NEW l \in Notices!Lane, delivery'[l] # None
        PROVE  /\ event'[l[1]] # None /\ event'[l[1]].routed
               /\ delivery'[l].lease => delivery'[l].state = "running"
               /\ delivery'[l].state \in Notices!Pending => delivery'[l].attempt < MaxAttempt
               /\ event'[l[1]].drill => delivery'[l].state \in {"queued", "cancelled"}
    <3>1. CASE delivery'[l] = delivery[l]
      BY <1>3, <2>2, <3>1, LaneParts DEF Rows, Consistent
    <3>2. CASE delivery'[l] # delivery[l]
      BY <1>2, <1>3, <1>5, <3>2
    <3> QED
      BY <3>1, <3>2
  <2> QED
    BY <2>1, <2>2 DEF Consistent
<1>7. Settled(event', delivery')
  <2>1. ASSUME NEW l \in Notices!Lane, delivery'[l] # None, event'[l[1]].drill
        PROVE  delivery'[l].state = "cancelled"
    <3>1. l[1] # s
      BY <1>3, <1>4, <2>1
    <3>2. delivery'[l] = delivery[l] /\ event'[l[1]] = event[l[1]]
      BY <1>2, <1>3, <3>1, LaneParts
    <3> QED
      BY <1>4, <2>1, <3>2 DEF Settled
  <2> QED
    BY <1>3, <1>4, <2>1 DEF Settled
<1>8. SnapshotIsOlder'
  <2> SUFFICES ASSUME backup # None,
                      NEW l \in Notices!Lane, Notices!Exists(l)', backup.delivery[l] = None
               PROVE  Notices!Current(l)' /\ ~event'[l[1]].drill
    BY <1>1 DEF Rows, SnapshotIsOlder, Consistent, Settled
  <2>1. CASE delivery'[l] = delivery[l]
    <3>1. Notices!Current(l) /\ ~event[l[1]].drill
      BY <2>1 DEF Rows, SnapshotIsOlder, Notices!Exists
    <3> QED
      BY <1>1, <1>3, <3>1, LaneParts DEF Notices!Current
  <2>2. CASE delivery'[l] # delivery[l]
    BY <1>1, <1>2, <1>3, <1>4, <2>2 DEF Notices!Current
  <2> QED
    BY <2>1, <2>2
<1> QED
  BY <1>6, <1>7, <1>8 DEF Rows, DrillsAreClosed

LEMMA BackupRows ==
  ASSUME NoticesGiven, NoticesTyped, Rows, Notices!Backup
  PROVE  Rows'
<1>1. /\ era < MaxGeneration /\ mode = "normal"
      /\ backup' = [event |-> event, receipt |-> receipt,
                    delivery |-> [l \in Notices!Lane |-> Notices!Paused(delivery[l])]]
      /\ UNCHANGED <<event, delivery, receipt, mode, era>>
  BY DEF Notices!Backup
<1>2. Settled(event, delivery)
  BY <1>1 DEF Rows, DrillsAreClosed
<1>3. ASSUME NEW l \in Notices!Lane
      PROVE  /\ Notices!Paused(delivery[l]) = None <=> delivery[l] = None
             /\ delivery[l] # None =>
                  /\ Notices!Paused(delivery[l]).lease
                       => Notices!Paused(delivery[l]).state = "running"
                  /\ Notices!Paused(delivery[l]).state \notin Notices!Pending
                  /\ event[l[1]].drill => Notices!Paused(delivery[l]).state = "cancelled"
  <2>1. CASE delivery[l] = None
    BY <2>1 DEF Notices!Paused, Notices!NoDelivery
  <2>2. CASE delivery[l] # None /\ delivery[l].state \in Notices!Final
    <3>1. Notices!Paused(delivery[l]) = delivery[l]
      BY <2>2 DEF Notices!Paused
    <3>2. delivery[l].state \notin Notices!Pending
      BY <2>2 DEF Notices!Pending, Notices!Final
    <3> QED
      BY <1>2, <2>2, <3>1, <3>2 DEF Rows, Consistent, Settled
  <2>3. CASE delivery[l] # None /\ delivery[l].state \notin Notices!Final
    <3> DEFINE st == IF delivery[l].state = "running" THEN "uncertain" ELSE "cancelled"
               row == [delivery[l] EXCEPT !.lease = FALSE, !.state = st]
    <3>1. Notices!Paused(delivery[l]) = row
      BY <2>3 DEF Notices!Paused, Notices!NoDelivery
    <3>2. delivery[l] \in DeliveryRow
      BY <2>3 DEF NoticesTyped
    <3>3. row \in DeliveryRow /\ ~row.lease /\ row.state = st
      BY <3>2 DEF DeliveryRow, NoticesStates, Notices!Final
    <3>4. row # None
      BY <3>3 DEF NoticesGiven
    <3>5. st \notin Notices!Pending /\ ~event[l[1]].drill
      BY <1>2, <2>3 DEF Settled, Notices!Final, Notices!Pending
    <3> QED
      <4> HIDE DEF row, st
      <4> QED
        BY <2>3, <3>1, <3>3, <3>4, <3>5
  <2> QED
    BY <2>1, <2>2, <2>3
<1>4. /\ backup'.event = event /\ backup'.receipt = receipt
      /\ \A l \in Notices!Lane : backup'.delivery[l] = Notices!Paused(delivery[l])
  BY <1>1
<1>5. Consistent(backup'.event, backup'.delivery, backup'.receipt)
      /\ Settled(backup'.event, backup'.delivery)
  BY <1>2, <1>3, <1>4 DEF Rows, Consistent, Settled
<1>6. ASSUME NEW l \in Notices!Lane, Notices!Exists(l) PROVE backup'.delivery[l] # None
  BY <1>3, <1>4, <1>6 DEF Notices!Exists, Notices!NoDelivery
<1>7. SnapshotIsOlder'
  BY <1>1, <1>5, <1>6 DEF SnapshotIsOlder, Consistent, Settled, Notices!Exists
<1>8. Consistent(event, delivery, receipt)' /\ DrillsAreClosed'
  BY <1>1 DEF Rows, Consistent, DrillsAreClosed, Settled
<1> QED
  BY <1>7, <1>8 DEF Rows

LEMMA RestoredRows ==
  ASSUME NoticesGiven, NoticesTyped, Rows, Notices!Restore
  PROVE  Rows'
<1>1. /\ backup # None /\ backup' = None /\ era' = era + 1
      /\ mode' = "restore_validation"
      /\ event' = backup.event /\ receipt' = backup.receipt /\ delivery' = backup.delivery
  BY DEF Notices!Restore, Notices!NoEvent
<1>2. Consistent(backup.event, backup.delivery, backup.receipt)
  BY <1>1 DEF Rows, SnapshotIsOlder
<1>3. 1..era \subseteq 1..era'
  BY <1>1 DEF NoticesTyped
<1>4. Consistent(event, delivery, receipt)'
  BY <1>1, <1>2, <1>3 DEF Consistent
<1> QED
  BY <1>1, <1>4 DEF Rows, DrillsAreClosed, SnapshotIsOlder

LEMMA ResumedRows ==
  ASSUME NoticesGiven, NoticesTyped, Rows, Notices!Resume
  PROVE  Rows'
<1>1. /\ mode = "restore_validation" /\ mode' = "normal"
      /\ UNCHANGED <<receipt, era, backup>>
  BY DEF Notices!Resume
<1>2. backup = None
  BY <1>1 DEF Rows, SnapshotIsOlder
<1>3. ASSUME NEW s \in Notices!Source
      PROVE  /\ event'[s] = None <=> event[s] = None
             /\ event[s] # None => /\ event'[s].routed /\ event'[s].drill = event[s].drill
                                   /\ event'[s].generation = event[s].generation
  <2>1. event'[s] = IF event[s] = None THEN None ELSE [event[s] EXCEPT !.routed = TRUE]
    BY DEF Notices!Resume, Notices!NoEvent
  <2>2. ASSUME event[s] # None
        PROVE  /\ [event[s] EXCEPT !.routed = TRUE] \in EventRow
               /\ [event[s] EXCEPT !.routed = TRUE].routed
               /\ [event[s] EXCEPT !.routed = TRUE].drill = event[s].drill
               /\ [event[s] EXCEPT !.routed = TRUE].generation = event[s].generation
    <3>1. event[s] \in EventRow
      BY <2>2 DEF NoticesTyped
    <3> QED
      BY <3>1 DEF EventRow
  <2>3. event[s] # None => [event[s] EXCEPT !.routed = TRUE] # None
    BY <2>2 DEF NoticesGiven
  <2> QED
    BY <2>1, <2>2, <2>3
<1>4. ASSUME NEW l \in Notices!Lane
      PROVE  /\ delivery'[l] = None <=> delivery[l] = None
             /\ delivery[l] # None =>
                  /\ ~delivery'[l].lease
                  /\ delivery'[l].state \in Notices!Final
                  /\ delivery'[l].state = IF delivery[l].state \in Notices!Final
                                          THEN delivery[l].state ELSE "cancelled"
  <2>1. delivery'[l] = Notices!Closed(delivery[l])
    BY DEF Notices!Resume
  <2>2. CASE delivery[l] = None
    BY <2>1, <2>2 DEF Notices!Closed, Notices!NoDelivery
  <2>3. CASE delivery[l] # None /\ delivery[l].state \in Notices!Final
    <3>1. delivery[l].state \notin Notices!Pending \cup {"running"}
      BY <2>3 DEF Notices!Final, Notices!Pending
    <3>2. delivery'[l] = delivery[l]
      BY <2>1, <3>1 DEF Notices!Closed
    <3>3. delivery[l] \in DeliveryRow
      BY <2>3 DEF NoticesTyped
    <3> QED
      BY <2>3, <3>1, <3>2, <3>3 DEF Rows, Consistent
  <2>4. CASE delivery[l] # None /\ delivery[l].state \notin Notices!Final
    <3> DEFINE row == [delivery[l] EXCEPT !.state = "cancelled", !.lease = FALSE]
    <3>1. delivery[l] \in DeliveryRow
      BY <2>4 DEF NoticesTyped
    <3>2. delivery[l].state \in Notices!Pending \cup {"running"}
      BY <2>4, <3>1 DEF DeliveryRow, NoticesStates
    <3>3. delivery'[l] = row
      BY <2>1, <2>4, <3>2 DEF Notices!Closed, Notices!NoDelivery
    <3>4. row \in DeliveryRow /\ row.state = "cancelled" /\ ~row.lease
      BY <3>1 DEF DeliveryRow, NoticesStates, Notices!Final
    <3>5. row # None
      BY <3>4 DEF NoticesGiven
    <3> QED
      <4> HIDE DEF row
      <4> QED
        BY <2>4, <3>3, <3>4, <3>5 DEF Notices!Final
  <2> QED
    BY <2>2, <2>3, <2>4
<1>5. Consistent(event, delivery, receipt)'
  <2>1. \A t \in Notices!Source : event'[t] # None =>
          event'[t].generation \in 1..era' /\ (t \in Command => t \in receipt')
    BY <1>1, <1>3 DEF Rows, Consistent
  <2>2. ASSUME NEW l \in Notices!Lane, delivery'[l] # None
        PROVE  /\ event'[l[1]] # None /\ event'[l[1]].routed
               /\ ~delivery'[l].lease /\ delivery'[l].state \notin Notices!Pending
               /\ event'[l[1]].drill => delivery'[l].state \in {"queued", "cancelled"}
    <3>1. delivery[l] # None /\ event[l[1]] # None
      BY <1>4, <2>2 DEF Rows, Consistent
    <3>2. event'[l[1]] # None /\ event'[l[1]].routed /\ event'[l[1]].drill = event[l[1]].drill
      BY <1>3, <3>1, LaneParts
    <3>3. event[l[1]].drill => delivery'[l].state = "cancelled"
      <4>1. event[l[1]].drill => delivery[l].state \in {"queued", "cancelled"}
        BY <3>1 DEF Rows, Consistent
      <4> QED
        BY <1>4, <3>1, <4>1 DEF Notices!Final
    <3>4. delivery'[l].state \notin Notices!Pending /\ ~delivery'[l].lease
      BY <1>4, <3>1 DEF Notices!Final, Notices!Pending
    <3> QED
      BY <3>2, <3>3, <3>4
  <2> QED
    BY <2>1, <2>2 DEF Consistent
<1>6. Settled(event', delivery')
  <2>1. ASSUME NEW l \in Notices!Lane, delivery'[l] # None, event'[l[1]].drill
        PROVE  delivery'[l].state = "cancelled"
    <3>1. delivery[l] # None /\ event[l[1]] # None
      BY <1>4, <2>1 DEF Rows, Consistent
    <3>2. event[l[1]].drill
      BY <1>3, <2>1, <3>1, LaneParts
    <3>3. delivery[l].state \in {"queued", "cancelled"}
      BY <3>1, <3>2 DEF Rows, Consistent
    <3> QED
      BY <1>4, <3>1, <3>3 DEF Notices!Final
  <2> QED
    BY <1>3, <2>1 DEF Settled
<1> QED
  BY <1>1, <1>2, <1>5, <1>6 DEF Rows, DrillsAreClosed, SnapshotIsOlder

LEMMA RowsStep ==
  ASSUME NoticesGiven, NoticesTyped, Rows, WorkIsCurrent, [Notices!Next]_(Notices!vars)
  PROVE  Rows'
<1>1. ASSUME NEW e \in Event, NEW kind \in Kind, Notices!Raise(e, kind) PROVE Rows'
  <2> DEFINE new == Notices!NewEvent(kind, Notices!NoEvent)
  <2>1. new \in EventRow
    BY NewEventType DEF Notices!NoEvent
  <2>2. new.generation = era /\ new.drill = (mode # "normal")
    BY DEF Notices!NewEvent
  <2>3. e \in Notices!Source /\ e \notin Command /\ event[e] = None
    BY <1>1 DEF Notices!Raise, Notices!Source, NoticesGiven, Notices!NoEvent
  <2>4. /\ event' = [event EXCEPT ![e] = new]
        /\ UNCHANGED <<delivery, receipt, mode, era, backup>>
    BY <1>1 DEF Notices!Raise, Notices!instance
  <2> HIDE DEF new
  <2> QED
    BY <2>1, <2>2, <2>3, <2>4, NewRows
<1>2. ASSUME NEW c \in Command, NEW d \in Notices!Integration, Notices!Send(c, d) PROVE Rows'
  <2>1. PICK u \in owner : event' = [event EXCEPT ![c] = Notices!NewEvent(Notices!Sent, u)]
    BY <1>2 DEF Notices!Send
  <2> DEFINE new == Notices!NewEvent(Notices!Sent, u)
  <2>2. new \in EventRow
    BY NewEventType DEF NoticesTyped
  <2>3. new.generation = era /\ new.drill = (mode # "normal") /\ new.routed
    BY DEF Notices!NewEvent
  <2>4. c \in Notices!Source /\ c \notin receipt
    BY <1>2 DEF Notices!Send, Notices!Source
  <2>5. event[c] = None
    BY <2>4 DEF Rows, Consistent
  <2>6. <<c, d>> \in Notices!Lane /\ <<c, d>>[1] = c
    BY <2>4, LaneParts DEF Notices!Destination
  <2>7. \A l \in Notices!Lane : \/ delivery'[l] = delivery[l]
                                \/ /\ l[1] = c /\ new.routed
                                   /\ delivery'[l].state = "queued" /\ delivery'[l].attempt = 0
                                   /\ ~delivery'[l].lease
    BY <1>2, <2>3, <2>6 DEF Notices!Send, Notices!Row, NoticesTyped
  <2>8. /\ event' = [event EXCEPT ![c] = new]
        /\ receipt' = receipt \cup {c} /\ UNCHANGED <<mode, era, backup>>
    BY <1>2, <2>1 DEF Notices!Send, Notices!instance
  <2> HIDE DEF new
  <2> QED
    BY <2>2, <2>3, <2>4, <2>5, <2>7, <2>8, NewRows
<1>3. ASSUME NEW c \in Command, NEW l \in Notices!Lane, NEW a \in BOOLEAN, Notices!Retry(c, l, a)
      PROVE  Rows'
  <2>1. Changes(l, [delivery[l] EXCEPT !.state = "queued"])
    BY <1>3, RetryRow
  <2>2. delivery[l] \in DeliveryRow /\ delivery[l] # None
    BY <1>3, ExistingRow DEF Notices!Retry, Notices!Exists, Notices!NoDelivery
  <2>3. delivery[l].state \in {"failed", "uncertain"} /\ delivery[l].attempt < MaxAttempt
    BY <1>3 DEF Notices!Retry, Notices!Retriable
  <2>4. ~event[l[1]].drill /\ ~delivery[l].lease
    BY <2>2, <2>3 DEF Rows, Consistent
  <2> DEFINE row == [delivery[l] EXCEPT !.state = "queued"]
  <2>5. ~row.lease /\ row.attempt < MaxAttempt
    BY <2>2, <2>3, <2>4 DEF DeliveryRow
  <2>6. UNCHANGED <<event, mode, era, backup>> /\ receipt \subseteq receipt'
    BY <1>3 DEF Notices!Retry, Notices!instance
  <2> HIDE DEF row
  <2> QED
    BY <2>1, <2>4, <2>5, <2>6, ChangedRows DEF row
<1>4. ASSUME (\E c \in Command, d \in Notices!Integration : Notices!Configure(c, d))
             \/ (\E d \in Legacy : Notices!UpdateProject(d))
                  \/ (\E u \in User : Notices!Mute(u) \/ Notices!Demote(u))
      PROVE  Rows'
  <2>1. UNCHANGED <<event, delivery, mode, era, backup>> /\ receipt \subseteq receipt'
    BY <1>4 DEF Notices!Configure, Notices!UpdateProject, Notices!Mute, Notices!Demote,
    Notices!instance
  <2> QED
    BY <2>1, QuietRows
<1>5. ASSUME NEW s \in Notices!Source, Notices!Route(s) PROVE Rows'
  BY <1>5, RoutedRows
<1>6. ASSUME Notices!Backup \/ Notices!Restore \/ Notices!Resume PROVE Rows'
  BY <1>6, BackupRows, RestoredRows, ResumedRows
<1>7. ASSUME NEW w \in Worker, NEW l \in Notices!Lane, Notices!Claim(w, l) PROVE Rows'
  <2>1. Changes(l, ClaimedRow(l))
    BY <1>7, ClaimRow
  <2>2. delivery[l] \in DeliveryRow /\ delivery[l] # None
    BY <1>7, ExistingRow DEF Notices!Claim, Notices!Exists, Notices!NoDelivery
  <2>3. ~event[l[1]].drill
    BY <1>7, <2>2 DEF Notices!Claim, Rows, DrillsAreClosed, Settled, Notices!Pending
  <2>4. ClaimedRow(l).state = "running"
    BY <2>2 DEF ClaimedRow, DeliveryRow
  <2>5. UNCHANGED <<event, mode, era, backup, receipt>>
    BY <1>7 DEF Notices!Claim, Notices!instance
  <2> QED
    BY <2>1, <2>3, <2>4, <2>5, ChangedRows DEF Notices!Pending
<1>8. ASSUME NEW w \in Worker, Notices!Target(w) \/ Notices!Request(w) \/ Notices!Drop(w)
      PROVE  Rows'
  <2>1. UNCHANGED <<event, delivery, mode, era, backup, receipt>>
    BY <1>8 DEF Notices!Target, Notices!Request, Notices!Drop, Notices!instance
  <2> QED
    BY <2>1, QuietRows
<1>9. ASSUME NEW w \in Worker, Notices!Complete(w) PROVE Rows'
  <2>1. UNCHANGED <<event, mode, era, backup, receipt>>
    BY <1>9 DEF Notices!Complete, Notices!instance
  <2>2. CASE ~Notices!Holds(w)
    BY <1>9, <2>1, <2>2, CompleteRow, QuietRows
  <2>3. CASE Notices!Holds(w)
    <3> DEFINE l == work[w].lane
    <3>1. l \in Notices!Lane /\ Changes(l, AnsweredRow(w))
      BY <1>9, <2>3, CompleteRow
    <3>2. work[w] # Notices!NoWork /\ work[w].outcome \in Notices!Final \cup {"retry_wait"}
      BY <1>9 DEF Notices!Complete, Notices!Answered
    <3>3. ~event[l[1]].drill
      BY <3>2 DEF WorkIsCurrent, Notices!NoWork
    <3>4. delivery[l] \in DeliveryRow
      BY <3>1, ExistingRow DEF Changes
    <3>5. /\ ~AnsweredRow(w).lease /\ AnsweredRow(w).attempt = delivery[l].attempt
          /\ AnsweredRow(w).state = IF Notices!Exhausted(w) THEN "uncertain" ELSE work[w].outcome
      BY <3>4 DEF AnsweredRow, DeliveryRow
    <3>6. AnsweredRow(w).state \in Notices!Pending => AnsweredRow(w).attempt < MaxAttempt
      <4>1. delivery[l].attempt = work[w].attempt
        BY <2>3 DEF Notices!Holds
      <4>2. delivery[l].attempt \in 0..MaxAttempt /\ MaxAttempt \in Nat
        BY <3>4 DEF DeliveryRow, NoticesGiven
      <4>3. AnsweredRow(w).state \in Notices!Pending
              => work[w].outcome = "retry_wait" /\ ~Notices!Exhausted(w)
        BY <3>2, <3>5 DEF Notices!Pending, Notices!Final
      <4> QED
        BY <3>5, <4>1, <4>2, <4>3 DEF Notices!Exhausted
    <3> HIDE DEF l
    <3> QED
      BY <2>1, <3>1, <3>3, <3>5, <3>6, ChangedRows
  <2> QED
    BY <2>2, <2>3
<1>10. ASSUME NEW l \in Notices!Lane, Notices!Sweep(l) \/ Notices!LeaseExpires(l) PROVE Rows'
  <2>1. /\ delivery[l] \in DeliveryRow /\ delivery[l] # None /\ delivery[l].state = "running"
        /\ UNCHANGED <<event, mode, era, backup, receipt>>
    BY <1>10, ExistingRow DEF Notices!Sweep, Notices!LeaseExpires, Notices!Exists,
    Notices!NoDelivery, Notices!instance
  <2>2. ~event[l[1]].drill
    BY <2>1 DEF Rows, Consistent
  <2>3. CASE Notices!Sweep(l)
    <3> DEFINE row == [delivery[l] EXCEPT !.state = "uncertain"]
    <3>1. Changes(l, row)
      BY <2>3, SweepRow
    <3>2. ~row.lease /\ row.state = "uncertain"
      BY <2>1, <2>3 DEF Notices!Sweep, DeliveryRow
    <3> HIDE DEF row
    <3> QED
      BY <2>1, <2>2, <3>1, <3>2, ChangedRows DEF Notices!Pending
  <2>4. CASE Notices!LeaseExpires(l)
    <3> DEFINE row == [delivery[l] EXCEPT !.lease = FALSE]
    <3>1. Changes(l, row)
      BY <2>4, ExpiryRow
    <3>2. ~row.lease /\ row.state = "running"
      BY <2>1 DEF DeliveryRow
    <3> HIDE DEF row
    <3> QED
      BY <2>1, <2>2, <3>1, <3>2, ChangedRows DEF Notices!Pending
  <2> QED
    BY <1>10, <2>3, <2>4
<1>11. CASE UNCHANGED Notices!vars
  BY <1>11, QuietRows DEF Notices!vars, Notices!instance
<1> QED
  BY <1>1, <1>2, <1>3, <1>4, <1>5, <1>6, <1>7, <1>8, <1>9, <1>10, <1>11
     DEF Notices!Next, Notices!OwnerStep, Notices!Cycle

-----------------------------------------------------------------------------
\* A delivery that exists stays what it is of, as long as nothing is restored.
NoticesStays(l) ==
    Notices!Exists(l) => Notices!Exists(l)' /\ event'[l[1]].drill = event[l[1]].drill
    /\ (Notices!Current(l)' <=> Notices!Current(l))

LEMMA ChangeStays ==
  ASSUME NoticesGiven, NoticesTyped, UNCHANGED <<event, era>>,
         NEW l \in Notices!Lane, NEW row, Changes(l, row) \/ UNCHANGED delivery
  PROVE  \A m \in Notices!Lane : NoticesStays(m) /\ (Notices!Exists(m)' <=> Notices!Exists(m))
<1>1. ASSUME NEW m \in Notices!Lane PROVE Notices!Exists(m)' <=> Notices!Exists(m)
  BY DEF Changes, NoticesTyped, NoticesGiven, Notices!Exists, Notices!NoDelivery
<1> QED
  BY <1>1 DEF NoticesStays, Notices!Current

LEMMA LanesStay ==
  ASSUME NoticesGiven, NoticesTyped, Rows, WorkIsCurrent, [Notices!Next]_(Notices!vars),
         ~Notices!Restore
  PROVE  \A l \in Notices!Lane : NoticesStays(l)
<1> SUFFICES ASSUME NEW l \in Notices!Lane, Notices!Exists(l)
             PROVE  Notices!Exists(l)' /\ event'[l[1]].drill = event[l[1]].drill
                    /\ (Notices!Current(l)' <=> Notices!Current(l))
  BY DEF NoticesStays
<1>1. delivery[l] # None /\ event[l[1]] # None /\ l[1] \in Notices!Source
  BY LaneParts DEF Notices!Exists, Notices!NoDelivery, Rows, Consistent
<1>2. ASSUME NEW s \in Notices!Source, event[s] = None, NEW new, event' = [event EXCEPT ![s] = new],
             delivery'[l] = delivery[l] \/ l[1] = s, UNCHANGED era
      PROVE  NoticesStays(l)
  <2>1. l[1] # s
    BY <1>1, <1>2
  <2>2. event'[l[1]] = event[l[1]]
    BY <1>1, <1>2, <2>1 DEF NoticesTyped
  <2> QED
    BY <1>2, <2>1, <2>2 DEF NoticesStays, Notices!Current, Notices!Exists
<1>3. ASSUME NEW e \in Event, NEW kind \in Kind, Notices!Raise(e, kind) PROVE NoticesStays(l)
  <2>1. e \in Notices!Source /\ event[e] = None /\ UNCHANGED <<delivery, era>>
        /\ event' = [event EXCEPT ![e] = Notices!NewEvent(kind, Notices!NoEvent)]
    BY <1>3 DEF Notices!Raise, Notices!Source, Notices!NoEvent, Notices!instance
  <2> QED
    BY <1>2, <2>1
<1>4. ASSUME NEW c \in Command, NEW d \in Notices!Integration, Notices!Send(c, d)
      PROVE  NoticesStays(l)
  <2>1. c \in Notices!Source /\ event[c] = None
    BY <1>4 DEF Notices!Send, Notices!Source, Rows, Consistent
  <2>2. PICK u \in owner : event' = [event EXCEPT ![c] = Notices!NewEvent(Notices!Sent, u)]
    BY <1>4 DEF Notices!Send
  <2>3. <<c, d>> \in Notices!Lane /\ <<c, d>>[1] = c
    BY <2>1, LaneParts DEF Notices!Destination
  <2>4. delivery'[l] = delivery[l] \/ l[1] = c
    BY <1>4, <2>3 DEF Notices!Send, NoticesTyped
  <2>5. UNCHANGED era
    BY <1>4 DEF Notices!Send, Notices!instance
  <2> QED
    BY <1>2, <2>1, <2>2, <2>4, <2>5
<1>5. ASSUME NEW s \in Notices!Source, Notices!Route(s) PROVE NoticesStays(l)
  <2>1. /\ event[s] \in EventRow
        /\ event' = [event EXCEPT ![s] = [event[s] EXCEPT !.routed = TRUE]]
        /\ delivery'[l] = delivery[l]
    BY <1>5, RouteRows
  <2>2. /\ event'[l[1]].drill = event[l[1]].drill
        /\ event'[l[1]].generation = event[l[1]].generation
    BY <1>1, <2>1 DEF NoticesTyped, EventRow
  <2>3. UNCHANGED era
    BY <1>5 DEF Notices!Route, Notices!instance
  <2> QED
    BY <2>1, <2>2, <2>3 DEF NoticesStays, Notices!Exists, Notices!Current
<1>6. ASSUME Notices!Resume PROVE NoticesStays(l)
  <2>1. event[l[1]] \in EventRow /\ delivery[l] \in DeliveryRow
    BY <1>1 DEF NoticesTyped
  <2>2. event'[l[1]] = [event[l[1]] EXCEPT !.routed = TRUE]
    BY <1>1, <1>6 DEF Notices!Resume, Notices!NoEvent
  <2>3. /\ event'[l[1]].drill = event[l[1]].drill
        /\ event'[l[1]].generation = event[l[1]].generation
    BY <2>1, <2>2 DEF EventRow
  <2>4. delivery'[l] \in DeliveryRow
    <3>1. delivery'[l] = Notices!Closed(delivery[l])
      BY <1>6 DEF Notices!Resume
    <3>2. [delivery[l] EXCEPT !.state = "cancelled", !.lease = FALSE] \in DeliveryRow
      BY <2>1 DEF DeliveryRow, NoticesStates, Notices!Final
    <3> QED
      BY <2>1, <3>1, <3>2 DEF Notices!Closed
  <2>5. UNCHANGED era
    BY <1>6 DEF Notices!Resume
  <2>6. Notices!Exists(l)'
    BY <2>4 DEF NoticesGiven, Notices!Exists, Notices!NoDelivery
  <2> QED
    BY <2>3, <2>5, <2>6 DEF NoticesStays, Notices!Current
<1>7. ASSUME NEW c \in Command, NEW m \in Notices!Lane, NEW a \in BOOLEAN, Notices!Retry(c, m, a)
      PROVE  NoticesStays(l)
  <2>1. UNCHANGED <<event, era>>
    BY <1>7 DEF Notices!Retry, Notices!instance
  <2> QED
    BY <1>7, <2>1, RetryRow, ChangeStays
<1>8. ASSUME NEW w \in Worker, NEW m \in Notices!Lane, Notices!Claim(w, m) PROVE NoticesStays(l)
  <2>1. UNCHANGED <<event, era>>
    BY <1>8 DEF Notices!Claim, Notices!instance
  <2> QED
    BY <1>8, <2>1, ClaimRow, ChangeStays
<1>9. ASSUME NEW w \in Worker, Notices!Complete(w) PROVE NoticesStays(l)
  <2>1. UNCHANGED <<event, era>>
    BY <1>9 DEF Notices!Complete, Notices!instance
  <2> QED
    BY <1>9, <2>1, CompleteRow, ChangeStays
<1>10. ASSUME NEW m \in Notices!Lane, Notices!Sweep(m) \/ Notices!LeaseExpires(m)
       PROVE  NoticesStays(l)
  <2>1. UNCHANGED <<event, era>>
    BY <1>10 DEF Notices!Sweep, Notices!LeaseExpires, Notices!instance
  <2> QED
    BY <1>10, <2>1, SweepRow, ExpiryRow, ChangeStays
<1>11. ASSUME UNCHANGED <<event, era, delivery>> PROVE NoticesStays(l)
  BY <1>11 DEF NoticesStays, Notices!Exists, Notices!Current
<1>12. ASSUME (\E c \in Command, d \in Notices!Integration : Notices!Configure(c, d))
              \/ (\E d \in Legacy : Notices!UpdateProject(d))
                   \/ (\E u \in User : Notices!Mute(u) \/ Notices!Demote(u))
              \/ Notices!Backup
                   \/ (\E w \in Worker : Notices!Target(w) \/ Notices!Request(w) \/ Notices!Drop(w))
                           \/ UNCHANGED Notices!vars
       PROVE  UNCHANGED <<event, era, delivery>>
  BY <1>12 DEF Notices!Configure, Notices!UpdateProject, Notices!Mute, Notices!Demote,
  Notices!Backup, Notices!Target, Notices!Request, Notices!Drop, Notices!vars, Notices!instance
<1>13. NoticesStays(l)
  BY <1>3, <1>4, <1>5, <1>6, <1>7, <1>8, <1>9, <1>10, <1>11, <1>12
     DEF Notices!Next, Notices!OwnerStep, Notices!Cycle
<1> QED
  BY <1>13 DEF NoticesStays

-----------------------------------------------------------------------------
\* Work that goes on is still on a delivery that exists, in the same instance.
LEMMA WorkStep ==
  ASSUME NoticesGiven, NoticesTyped, Rows, WorkIsCurrent, [Notices!Next]_(Notices!vars)
  PROVE  WorkIsCurrent'
<1>1. CASE Notices!Restore
  BY <1>1 DEF Notices!Restore, WorkIsCurrent, Notices!NoWork
<1>2. CASE ~Notices!Restore
  <2> DEFINE Fine(w) ==
        work'[w] # None =>
          /\ mode' = "normal" /\ delivery'[work'[w].lane] # Notices!NoDelivery
          /\ ~event'[work'[w].lane[1]].drill
          /\ work'[w].outcome = "send" => event'[work'[w].lane[1]].generation = era'
          /\ work'[w].outcome = "retry_wait" => work'[w].lane[2] \in Webhook \cup Legacy
  <2>1. ASSUME NEW w \in Worker, work[w] # None
        PROVE  /\ work[w].lane \in Notices!Lane /\ mode' = "normal"
               /\ delivery'[work[w].lane] # Notices!NoDelivery /\ ~event'[work[w].lane[1]].drill
               /\ Notices!Current(work[w].lane) => event'[work[w].lane[1]].generation = era'
    <3>1. work[w].lane \in Notices!Lane /\ mode = "normal"
      BY <2>1, WorkRow DEF Claimed, WorkIsCurrent, Notices!NoWork
    <3>2. Notices!Exists(work[w].lane) /\ ~event[work[w].lane[1]].drill
      BY <2>1, SMTT(30) DEF WorkIsCurrent
    <3>4. mode' = "normal"
      BY <1>2, <3>1 DEF Notices!Next, Notices!OwnerStep, Notices!Cycle, Notices!Raise,
      Notices!Configure, Notices!UpdateProject, Notices!Send, Notices!Retry, Notices!Mute,
         Notices!Demote, Notices!Backup, Notices!Resume, Notices!Route, Notices!Claim,
         Notices!Target, Notices!Request, Notices!Complete, Notices!Drop, Notices!Sweep,
         Notices!LeaseExpires, Notices!instance, Notices!vars
    <3>5. /\ delivery'[work[w].lane] # Notices!NoDelivery
          /\ event'[work[w].lane[1]].drill = event[work[w].lane[1]].drill
          /\ Notices!Current(work[w].lane) => event'[work[w].lane[1]].generation = era'
      <4>1. PICK l \in Notices!Lane : l = work[w].lane
        BY <3>1
      <4>2. NoticesStays(l) /\ Notices!Exists(l)
        BY <1>2, <3>2, <4>1, LanesStay
      <4>3. /\ delivery'[l] # Notices!NoDelivery /\ event'[l[1]].drill = event[l[1]].drill
            /\ Notices!Current(l) => event'[l[1]].generation = era'
        BY <4>2 DEF NoticesStays, Notices!Exists, Notices!Current
      <4> QED
        BY <4>1, <4>3
    <3> QED
      BY <3>1, <3>2, <3>4, <3>5
  <2>2. ASSUME NEW w \in Worker, work'[w] = work[w] PROVE Fine(w)
    BY <2>1, <2>2 DEF WorkIsCurrent, Notices!NoWork
  <2>3. ASSUME NEW w \in Worker, NEW l \in Notices!Lane, Notices!Claim(w, l)
        PROVE  \A v \in Worker : Fine(v)
    <3>1. /\ Changes(l, ClaimedRow(l))
          /\ work' = [work EXCEPT ![w] =
               [lane |-> l, attempt |-> delivery[l].attempt + 1, outcome |-> "check"]]
      BY <2>3, ClaimRow
    <3>2. work'[w].lane = l /\ work'[w].outcome = "check"
          /\ \A v \in Worker \ {w} : work'[v] = work[v]
      BY <3>1 DEF NoticesTyped
    <3>3. /\ mode = "normal" /\ Notices!Exists(l) /\ delivery[l].state \in Notices!Pending
          /\ UNCHANGED <<mode, event, era>>
      BY <2>3 DEF Notices!Claim, Notices!instance
    <3>4. ~event[l[1]].drill
      BY <3>3 DEF Rows, DrillsAreClosed, Settled, Notices!Pending, Notices!Exists,
      Notices!NoDelivery
    <3>5. delivery'[l] # Notices!NoDelivery
      BY <3>1, <3>3 DEF Changes, NoticesTyped, NoticesGiven, Notices!NoDelivery
    <3>6. Fine(w)
      BY <3>2, <3>3, <3>4, <3>5
    <3> QED
      <4> HIDE DEF Fine
      <4> QED
        BY <2>2, <3>2, <3>6
  <2>4. ASSUME NEW w \in Worker, Notices!Target(w) \/ Notices!Request(w)
        PROVE  \A v \in Worker : Fine(v)
    <3>1. PICK o \in NoticesOutcome :
            /\ work[w] # Notices!NoWork
            /\ work' = [work EXCEPT ![w] = [work[w] EXCEPT !.outcome = o]]
            /\ Notices!Target(w) => work[w].outcome = "check"
               /\ o \in Notices!Verdicts(work[w].lane)
            /\ Notices!Request(w) => work[w].outcome = "send"
               /\ o \in Notices!Outcomes(work[w].lane[2])
      BY <2>4, LearnWork
    <3>2. work[w] \in Claimed /\ work[w] # None
      BY <3>1, WorkRow DEF Notices!NoWork
    <3>3. work'[w].lane = work[w].lane /\ work'[w].outcome = o
          /\ \A v \in Worker \ {w} : work'[v] = work[v]
      BY <3>1, <3>2 DEF NoticesTyped, Claimed
    <3>4. o = "send" => Notices!Current(work[w].lane)
      BY <2>4, <3>1 DEF Notices!Verdicts, Notices!Outcomes
    <3>5. o = "retry_wait" => work[w].lane[2] \in Webhook \cup Legacy
      BY <2>4, <3>1 DEF Notices!Verdicts, Notices!Outcomes
    <3>6. Fine(w)
      BY <2>1, <3>2, <3>3, <3>4, <3>5
    <3> QED
      <4> HIDE DEF Fine
      <4> QED
        BY <2>2, <3>3, <3>6
  <2>5. ASSUME NEW w \in Worker, Notices!Complete(w) \/ Notices!Drop(w)
        PROVE  \A v \in Worker : Fine(v)
    <3>1. work'[w] = None /\ \A v \in Worker \ {w} : work'[v] = work[v]
      BY <2>5 DEF Notices!Complete, Notices!Drop, NoticesTyped, Notices!NoWork
    <3>2. Fine(w)
      BY <3>1
    <3> QED
      <4> HIDE DEF Fine
      <4> QED
        BY <2>2, <3>1, <3>2
  <2>6. ASSUME UNCHANGED work PROVE \A v \in Worker : Fine(v)
    <3> HIDE DEF Fine
    <3> QED
      BY <2>2, <2>6
  <2>7. ASSUME (\E e \in Event, kind \in Kind : Notices!Raise(e, kind))
                 \/ (Notices!OwnerStep /\ ~Notices!Restore)
               \/ (\E s \in Notices!Source : Notices!Route(s))
                    \/ (\E l \in Notices!Lane : Notices!Sweep(l) \/ Notices!LeaseExpires(l))
               \/ UNCHANGED Notices!vars
        PROVE  UNCHANGED work
    BY <2>7 DEF Notices!OwnerStep, Notices!Raise, Notices!Configure, Notices!UpdateProject,
    Notices!Send, Notices!Retry, Notices!Mute, Notices!Demote, Notices!Backup,
       Notices!Resume, Notices!Route, Notices!Sweep, Notices!LeaseExpires, Notices!vars
  <2>8. \A v \in Worker : Fine(v)
    <3> HIDE DEF Fine
    <3> QED
      BY <1>2, <2>3, <2>4, <2>5, <2>6, <2>7 DEF Notices!Next, Notices!Cycle
  <2> QED
    BY <2>8 DEF WorkIsCurrent, Notices!Exists, Notices!Current
<1> QED
  BY <1>1, <1>2

-----------------------------------------------------------------------------
\* Messages are spent on deliveries that exist only.
LEMMA UntouchedStep ==
  ASSUME NoticesGiven, NoticesTyped, Rows, WorkIsCurrent, UntouchedIsWhole,
         [Notices!Next]_(Notices!vars)
  PROVE  UntouchedIsWhole'
<1> SUFFICES ASSUME NEW l \in Notices!Lane, delivery'[l] = None PROVE spare'[l] = 1
  BY DEF UntouchedIsWhole, Notices!Exists, Notices!NoDelivery
<1>1. CASE Notices!Restore
  BY <1>1 DEF Notices!Restore, Notices!NoDelivery
<1>2. CASE ~Notices!Restore
  <2>1. ~Notices!Exists(l) /\ spare[l] = 1
    BY <1>2, LanesStay DEF NoticesStays, Notices!Exists, Notices!NoDelivery, UntouchedIsWhole
  <2>2. ASSUME NEW w \in Worker, Notices!Request(w) PROVE spare'[l] = spare[l]
    <3>1. Notices!Exists(work[w].lane)
      BY <2>2 DEF Notices!Request, WorkIsCurrent, Notices!NoWork
    <3> QED
      BY <2>1, <2>2, <3>1 DEF Notices!Request, NoticesTyped
  <2>3. ASSUME NEW c \in Command, NEW m \in Notices!Lane, NEW a \in BOOLEAN, Notices!Retry(c, m, a)
        PROVE  spare'[l] = spare[l]
    <3>1. Notices!Exists(m)
      BY <2>3, SMTT(30) DEF Notices!Retry
    <3> QED
      BY <2>1, <2>3, <3>1 DEF Notices!Retry, NoticesTyped
  <2>4. \/ UNCHANGED spare \/ \E w \in Worker : Notices!Request(w)
        \/ \E c \in Command, m \in Notices!Lane, a \in BOOLEAN : Notices!Retry(c, m, a)
    BY <1>2 DEF Notices!Next, Notices!OwnerStep, Notices!Cycle, Notices!Raise, Notices!Configure,
    Notices!UpdateProject, Notices!Send, Notices!Mute, Notices!Demote,
       Notices!Backup, Notices!Resume, Notices!Route, Notices!Claim, Notices!Target,
       Notices!Complete, Notices!Drop, Notices!Sweep, Notices!LeaseExpires, Notices!vars
  <2> QED
    BY <2>1, <2>2, <2>3, <2>4
<1> QED
  BY <1>1, <1>2

-----------------------------------------------------------------------------
\* A delivery that does not exist yet has its one message, and nobody works on it.
InBudget(l) ==
    /\ spare[l] >= 0
    /\ (Notices!Exists(l) => Notices!Current(l)) => Cardinality(Spenders(l)) + Waits(l) <= spare[l]

LEMMA SpendersFinite ==
  ASSUME NoticesGiven, NEW S \in SUBSET Worker
  PROVE  IsFiniteSet(S) /\ Cardinality(S) \in Nat
BY FS_Subset, FS_CardinalityType DEF NoticesGiven

LEMMA EachInBudget ==
  ASSUME NoticesGiven, NoticesTyped, WorkIsCurrent, UntouchedIsWhole, WithinBudget,
         NEW l \in Notices!Lane, ~Deduplicated(l)
  PROVE  InBudget(l)
<1>1. CASE Notices!Exists(l)
  BY <1>1 DEF WithinBudget, InBudget
<1>2. CASE ~Notices!Exists(l)
  <2>1. Spenders(l) = {}
    BY <1>2 DEF Spenders, Spends, WorkIsCurrent, Notices!NoWork
  <2>2. Cardinality(Spenders(l)) = 0
    BY <2>1, FS_EmptySet
  <2>3. spare[l] = 1 /\ Waits(l) = 1
    BY <1>2 DEF UntouchedIsWhole, Waits
  <2> QED
    BY <2>2, <2>3 DEF InBudget
<1> QED
  BY <1>1, <1>2

\* The arithmetic: what a step adds to the spenders, to the row and to the messages.
LEMMA BudgetFrame ==
  ASSUME NoticesGiven, NoticesTyped, NoticesTyped', NEW l \in Notices!Lane, InBudget(l),
         NoticesStays(l),
         Waits(l)' <= Waits(l), Spenders(l)' \subseteq Spenders(l), spare'[l] >= spare[l]
  PROVE  InBudget(l)'
<1>1. Spenders(l) \in SUBSET Worker /\ Spenders(l)' \in SUBSET Worker
  BY DEF Spenders
<1> DEFINE n == Cardinality(Spenders(l))
           m == Cardinality(Spenders(l)')
<1>2. IsFiniteSet(Spenders(l)) /\ n \in Nat /\ m \in Nat
  BY <1>1, SpendersFinite
<1>3. m <= n
  BY <1>2, FS_Subset
<1>4. spare[l] \in Int /\ spare'[l] \in Int
  BY DEF NoticesTyped
<1>5. Waits(l) \in {0, 1} /\ Waits(l)' \in {0, 1}
  BY DEF Waits
<1>6. (Notices!Exists(l)' => Notices!Current(l)') => (Notices!Exists(l) => Notices!Current(l))
  BY DEF NoticesStays
<1>7. Cardinality(Spenders(l))' = m
  OBVIOUS
<1> HIDE DEF n
<1>8. n = Cardinality(Spenders(l))
  BY DEF n
<1>9. spare[l] >= 0 /\ ((Notices!Exists(l) => Notices!Current(l)) => n + Waits(l) <= spare[l])
  BY <1>8 DEF InBudget
<1>10. spare'[l] >= 0 /\ ((Notices!Exists(l)' => Notices!Current(l)') => m + Waits(l)' <= spare'[l])
  <2> HIDE DEF m
  <2> QED
    BY <1>2, <1>3, <1>4, <1>5, <1>6, <1>9
<1> QED
  BY <1>7, <1>10 DEF InBudget

\* A step that takes a worker from the spenders, or puts one among them.
LEMMA OneSpender ==
  ASSUME NoticesGiven, NEW l \in Notices!Lane, NEW w \in Worker
  PROVE  /\ w \in Spenders(l) /\ Spenders(l)' \subseteq Spenders(l) \ {w} =>
              Cardinality(Spenders(l)') + 1 <= Cardinality(Spenders(l))
         /\ Spenders(l)' \subseteq Spenders(l) \cup {w} =>
              Cardinality(Spenders(l)') <= Cardinality(Spenders(l)) + 1
         /\ Cardinality(Spenders(l)) \in Nat /\ Cardinality(Spenders(l)') \in Nat
         /\ Cardinality(Spenders(l))' = Cardinality(Spenders(l)')
<1>1. Spenders(l) \in SUBSET Worker /\ Spenders(l)' \in SUBSET Worker
  BY DEF Spenders
<1> DEFINE S == Spenders(l)
           T == Spenders(l)'
<1>2. S \in SUBSET Worker /\ T \in SUBSET Worker
  BY <1>1
<1>3. /\ w \in S /\ T \subseteq S \ {w} => Cardinality(T) + 1 <= Cardinality(S)
      /\ T \subseteq S \cup {w} => Cardinality(T) <= Cardinality(S) + 1
      /\ Cardinality(S) \in Nat /\ Cardinality(T) \in Nat
  <2> HIDE DEF S, T
  <2>1. IsFiniteSet(S) /\ Cardinality(S) \in Nat /\ Cardinality(T) \in Nat
    BY <1>2, SpendersFinite
  <2>2. ASSUME w \in S, T \subseteq S \ {w} PROVE Cardinality(T) + 1 <= Cardinality(S)
    <3>1. IsFiniteSet(S \ {w}) /\ Cardinality(S \ {w}) = Cardinality(S) - 1
      BY <2>1, <2>2, FS_RemoveElement
    <3>2. Cardinality(T) <= Cardinality(S \ {w})
      BY <2>2, <3>1, FS_Subset
    <3> QED
      BY <2>1, <3>1, <3>2
  <2>3. ASSUME T \subseteq S \cup {w} PROVE Cardinality(T) <= Cardinality(S) + 1
    <3>1. IsFiniteSet(S \cup {w}) /\ Cardinality(S \cup {w}) <= Cardinality(S) + 1
      <4>1. IsFiniteSet(S \cup {w}) /\ Cardinality(S \cup {w}) =
              IF w \in S THEN Cardinality(S) ELSE Cardinality(S) + 1
        BY <2>1, FS_AddElement
      <4> QED
        BY <2>1, <4>1
    <3>2. Cardinality(T) <= Cardinality(S \cup {w}) /\ Cardinality(S \cup {w}) \in Nat
      BY <2>3, <3>1, FS_Subset, FS_CardinalityType
    <3> QED
      BY <2>1, <3>1, <3>2
  <2> QED
    BY <2>1, <2>2, <2>3
<1> QED
  BY <1>3

\* A row that a step leaves alone, and one that it changes.
LEMMA WaitsOf ==
  ASSUME NoticesGiven, NoticesTyped, NEW l \in Notices!Lane
  PROVE  /\ delivery'[l] = delivery[l] => Waits(l)' = Waits(l)
         /\ \A m \in Notices!Lane : \A row : Changes(m, row) =>
              IF m = l THEN Waits(l)' = IF row.state \in Notices!Pending \cup {"failed"} THEN 1 ELSE 0
                       ELSE Waits(l)' = Waits(l)
         /\ Waits(l) \in {0, 1} /\ Waits(l)' \in {0, 1}
<1>1. delivery'[l] = delivery[l] => Waits(l)' = Waits(l)
  BY DEF Waits, Notices!Exists
<1>2. ASSUME NEW m \in Notices!Lane, NEW row, Changes(m, row)
      PROVE  IF m = l THEN Waits(l)' = IF row.state \in Notices!Pending \cup {"failed"} THEN 1 ELSE 0
                      ELSE Waits(l)' = Waits(l)
  <2>1. row # None /\ delivery'[m] = row /\ (m # l => delivery'[l] = delivery[l])
    BY <1>2 DEF Changes, NoticesTyped, NoticesGiven
  <2> QED
    BY <1>1, <2>1 DEF Waits, Notices!Exists, Notices!NoDelivery
<1> QED
  BY <1>1, <1>2 DEF Waits

LEMMA NoticesBudgetStep ==
  ASSUME NoticesGiven, NoticesIInv, NoticesTyped', [Notices!Next]_(Notices!vars)
  PROVE  WithinBudget'
<1> USE DEF NoticesIInv
<1>0. Rows
  BY DEF Rows
<1> SUFFICES ASSUME NEW l \in Notices!Lane, delivery'[l] # None, ~Deduplicated(l)
             PROVE  InBudget(l)'
  BY DEF WithinBudget, InBudget, Deduplicated, Notices!Exists, Notices!NoDelivery
<1>1. CASE Notices!Restore
  <2>1. /\ backup # None /\ era' = era + 1
        /\ event' = backup.event /\ delivery' = backup.delivery
        /\ spare'[l] = spare[l]
    BY <1>1 DEF Notices!Restore, Notices!NoEvent, Notices!NoDelivery
  <2>2. event'[l[1]].generation \in 1..era
    BY <2>1, LaneParts DEF SnapshotIsOlder, Consistent
  <2>3. ~Notices!Current(l)' /\ Notices!Exists(l)'
    BY <2>1, <2>2 DEF Notices!Current, Notices!Exists, Notices!NoDelivery, NoticesTyped
  <2>4. spare[l] >= 0
    BY EachInBudget DEF InBudget
  <2> QED
    BY <2>1, <2>3, <2>4 DEF InBudget
<1>2. CASE ~Notices!Restore
  <2>1. InBudget(l) /\ NoticesStays(l)
    BY <1>0, <1>2, EachInBudget, LanesStay
  <2>2. ASSUME Spenders(l)' \subseteq Spenders(l), Waits(l)' <= Waits(l), spare'[l] >= spare[l]
        PROVE  InBudget(l)'
    BY <2>1, <2>2, BudgetFrame
  <2>3. Waits(l) \in {0, 1} /\ Waits(l)' \in {0, 1} /\ spare[l] \in Int /\ spare'[l] \in Int
    BY WaitsOf DEF NoticesTyped
  <2>4. UNCHANGED work => Spenders(l)' \subseteq Spenders(l)
    BY DEF Spenders, Spends
  <2>5. (Notices!Exists(l)' => Notices!Current(l)') => (Notices!Exists(l) => Notices!Current(l))
    BY <2>1 DEF NoticesStays
  <2>6. ASSUME UNCHANGED <<work, delivery, spare>> PROVE InBudget(l)'
    <3>1. Waits(l)' = Waits(l) /\ spare'[l] = spare[l]
      BY <2>6, WaitsOf
    <3> QED
      BY <2>2, <2>3, <2>4, <2>6, <3>1
  \* A new row waits as its absence did.
  <2>7. ASSUME (\E c \in Command, d \in Notices!Integration : Notices!Send(c, d))
                 \/ (\E s \in Notices!Source : Notices!Route(s))
        PROVE  InBudget(l)'
    <3>1. UNCHANGED <<work, spare>>
      BY <2>7 DEF Notices!Send, Notices!Route
    <3>2. CASE delivery'[l] = delivery[l]
      BY <2>2, <2>3, <2>4, <3>1, <3>2, WaitsOf
    <3>3. CASE delivery'[l] # delivery[l]
      <4>1. ASSUME NEW c \in Command, NEW d \in Notices!Integration, Notices!Send(c, d)
            PROVE  ~Notices!Exists(l)
        <5>1. c \in Notices!Source /\ event[c] = None
          BY <4>1 DEF Notices!Send, Notices!Source, Consistent
        <5>2. l = <<c, d>> /\ l[1] = c
          BY <3>3, <4>1, <5>1, LaneParts DEF Notices!Send, NoticesTyped, Notices!Destination
        <5> QED
          BY <5>1, <5>2 DEF Consistent, Notices!Exists, Notices!NoDelivery
      <4>2. ASSUME NEW s \in Notices!Source, Notices!Route(s) PROVE ~Notices!Exists(l)
        BY <3>3, <4>2, RouteRows
      <4>3. Waits(l) = 1
        BY <2>7, <4>1, <4>2 DEF Waits
      <4> QED
        BY <2>2, <2>3, <2>4, <3>1, <4>3
    <3> QED
      BY <3>2, <3>3
  <2>8. ASSUME NEW c \in Command, NEW m \in Notices!Lane, NEW a \in BOOLEAN, Notices!Retry(c, m, a)
        PROVE  InBudget(l)'
    <3>1. /\ Changes(m, [delivery[m] EXCEPT !.state = "queued"])
          /\ UNCHANGED work /\ spare'[m] = spare[m] + (IF a THEN 1 ELSE 0)
          /\ m # l => spare'[l] = spare[l]
      BY <2>8, RetryRow DEF Notices!Retry, NoticesTyped
    <3>2. CASE m # l
      BY <2>2, <2>3, <2>4, <3>1, <3>2, WaitsOf
    <3>3. CASE m = l /\ ~a
      <4>1. delivery[l].state = "failed"
        BY <2>8, <3>3 DEF Notices!Retry, Notices!Retriable
      <4>2. Waits(l) = 1
        BY <4>1 DEF Waits
      <4> QED
        BY <2>2, <2>3, <2>4, <3>1, <3>3, <4>2
    <3>4. CASE m = l /\ a
      <4>1. spare'[l] = spare[l] + 1
        BY <3>1, <3>4
      <4>2. Spenders(l)' = Spenders(l)
        BY <3>1 DEF Spenders, Spends
      <4>3. Cardinality(Spenders(l)) \in Nat /\ Cardinality(Spenders(l)') = Cardinality(Spenders(l))
        BY <4>2, SpendersFinite DEF Spenders
      <4>4. Cardinality(Spenders(l))' = Cardinality(Spenders(l))
        BY <4>3
      <4>5. spare[l] >= 0
            /\ ((Notices!Exists(l) => Notices!Current(l)) =>
                     Cardinality(Spenders(l)) + Waits(l) <= spare[l])
        BY <2>1 DEF InBudget
      <4> DEFINE n == Cardinality(Spenders(l))
      <4>6. /\ spare'[l] >= 0
            /\ (Notices!Exists(l)' => Notices!Current(l)') => n + Waits(l)' <= spare'[l]
        <5> HIDE DEF n
        <5>1. n = Cardinality(Spenders(l))
          BY DEF n
        <5> QED
          BY <2>3, <2>5, <4>1, <4>3, <4>5, <5>1
      <4> QED
        BY <4>4, <4>6 DEF InBudget
    <3> QED
      BY <3>2, <3>3, <3>4
  <2>9. ASSUME Notices!Resume PROVE InBudget(l)'
    <3>1. UNCHANGED <<work, spare>> /\ delivery'[l] = Notices!Closed(delivery[l])
      BY <2>9 DEF Notices!Resume
    <3>2. CASE delivery[l] = None \/ delivery[l].state \notin Notices!Pending \cup {"running"}
      <4>1. delivery'[l] = delivery[l]
        BY <3>1, <3>2 DEF Notices!Closed, Notices!NoDelivery
      <4> QED
        BY <2>2, <2>3, <2>4, <3>1, <4>1, WaitsOf
    <3>3. CASE delivery[l] # None /\ delivery[l].state \in Notices!Pending \cup {"running"}
      <4>1. delivery[l] \in DeliveryRow
        BY <3>3 DEF NoticesTyped
      <4>2. delivery'[l] = [delivery[l] EXCEPT !.state = "cancelled", !.lease = FALSE]
        BY <3>1, <3>3 DEF Notices!Closed, Notices!NoDelivery
      <4>3. delivery'[l].state = "cancelled"
        BY <4>1, <4>2 DEF DeliveryRow
      <4>4. Waits(l)' = 0
        BY <4>3 DEF Waits, Notices!Exists, Notices!NoDelivery, Notices!Pending
      <4> QED
        BY <2>2, <2>3, <2>4, <3>1, <4>4
    <3> QED
      BY <3>2, <3>3
  <2>10. ASSUME NEW w \in Worker, NEW m \in Notices!Lane, Notices!Claim(w, m) PROVE InBudget(l)'
    <3>1. /\ Changes(m, ClaimedRow(m)) /\ UNCHANGED spare /\ work[w] = None
          /\ work' = [work EXCEPT ![w] =
               [lane |-> m, attempt |-> delivery[m].attempt + 1, outcome |-> "check"]]
      BY <2>10, ClaimRow DEF Notices!Claim, Notices!NoWork
    <3>2. \A v \in Worker \ {w} : work'[v] = work[v]
      BY <3>1 DEF NoticesTyped
    <3>3. CASE m # l
      <4>1. work'[w].lane # l
        BY <3>1, <3>3 DEF NoticesTyped
      <4>2. Spenders(l)' \subseteq Spenders(l)
        BY <3>2, <4>1 DEF Spenders, Spends
      <4>3. Waits(l)' = Waits(l)
        BY <3>1, <3>3, WaitsOf
      <4> QED
        BY <2>2, <2>3, <3>1, <4>2, <4>3
    <3>4. CASE m = l
      <4>1. Spenders(l)' \subseteq Spenders(l) \cup {w}
        BY <3>2 DEF Spenders, Spends
      <4>2. Waits(l) = 1
        BY <2>10, <3>4 DEF Notices!Claim, Waits
      <4>3. ClaimedRow(l).state = "running"
        <5>1. delivery[l] \in DeliveryRow
          BY <3>1, <3>4, ExistingRow DEF Changes
        <5> QED
          BY <5>1 DEF ClaimedRow, DeliveryRow
      <4>4. Waits(l)' = 0
        BY <3>1, <3>4, <4>3, WaitsOf DEF Notices!Pending
      <4> DEFINE n == Cardinality(Spenders(l))
                 k == Cardinality(Spenders(l)')
      <4>5. n \in Nat /\ k \in Nat /\ k <= n + 1 /\ Cardinality(Spenders(l))' = k
        BY <4>1, OneSpender
      <4>6. spare[l] >= 0 /\ ((Notices!Exists(l) => Notices!Current(l)) => n + Waits(l) <= spare[l])
        BY <2>1 DEF InBudget
      <4>7. spare'[l] >= 0
            /\ ((Notices!Exists(l)' => Notices!Current(l)') => k + Waits(l)' <= spare'[l])
        <5> HIDE DEF n, k
        <5> QED
          BY <2>3, <2>5, <3>1, <4>2, <4>4, <4>5, <4>6
      <4> QED
        BY <4>5, <4>7 DEF InBudget
    <3> QED
      BY <3>3, <3>4
  <2>11. ASSUME NEW w \in Worker, Notices!Target(w) \/ Notices!Request(w) PROVE InBudget(l)'
    <3>1. PICK o \in NoticesOutcome :
            /\ work[w] # Notices!NoWork
            /\ work' = [work EXCEPT ![w] = [work[w] EXCEPT !.outcome = o]]
            /\ Notices!Target(w) => work[w].outcome = "check"
               /\ o \in Notices!Verdicts(work[w].lane)
            /\ Notices!Request(w) => work[w].outcome = "send"
               /\ o \in Notices!Outcomes(work[w].lane[2])
      BY <2>11, LearnWork
    <3>2. work[w] \in Claimed /\ work[w] # None
      BY <3>1, WorkRow DEF Notices!NoWork
    <3>3. /\ work'[w].lane = work[w].lane /\ work'[w].outcome = o
          /\ \A v \in Worker \ {w} : work'[v] = work[v]
      BY <3>1, <3>2 DEF NoticesTyped, Claimed
    <3>4. Waits(l)' = Waits(l)
      <4>1. delivery' = delivery
        BY <2>11 DEF Notices!Target, Notices!Request
      <4> QED
        BY <4>1, WaitsOf
    <3>5. Spenders(l)' \subseteq Spenders(l)
      BY <2>11, <3>1, <3>2, <3>3 DEF Spenders, Spends
    <3>6. CASE spare'[l] >= spare[l]
      BY <2>2, <2>3, <3>4, <3>5, <3>6
    <3>7. CASE ~(spare'[l] >= spare[l])
      <4>1. Notices!Request(w) /\ work[w].outcome = "send"
        BY <2>3, <2>11, <3>1, <3>7 DEF Notices!Target
      <4>2. PICK p \in Notices!Outcomes(work[w].lane[2]) :
              /\ work' = [work EXCEPT ![w].outcome = p]
              /\ spare' = [spare EXCEPT ![work[w].lane] = @ - IF p = "failed" THEN 0 ELSE 1]
        BY <4>1 DEF Notices!Request
      <4>3. p = o
        BY <3>2, <3>3, <4>2 DEF NoticesTyped, Claimed
      <4>4. work[w].lane = l /\ o # "failed" /\ spare'[l] = spare[l] - 1
        BY <2>3, <3>7, <4>2, <4>3 DEF NoticesTyped
      <4>5. w \in Spenders(l) /\ Notices!Exists(l) /\ Notices!Current(l)
        BY <3>2, <4>1, <4>4 DEF Spenders, Spends, WorkIsCurrent, Notices!NoWork
      <4>6. w \notin Spenders(l)'
        <5>1. o \notin {"check", "send", "failed"}
          BY <3>1, <4>1, <4>4 DEF Notices!Outcomes
        <5> QED
          BY <3>3, <5>1 DEF Spenders, Spends
      <4> DEFINE n == Cardinality(Spenders(l))
                 k == Cardinality(Spenders(l)')
      <4>7. n \in Nat /\ k \in Nat /\ k + 1 <= n /\ Cardinality(Spenders(l))' = k
        BY <3>5, <4>5, <4>6, OneSpender
      <4>8. n + Waits(l) <= spare[l]
        BY <2>1, <4>5 DEF InBudget
      <4>9. spare'[l] >= 0 /\ k + Waits(l)' <= spare'[l]
        <5> HIDE DEF n, k
        <5> QED
          BY <2>3, <3>4, <4>4, <4>7, <4>8
      <4> QED
        BY <4>7, <4>9 DEF InBudget
    <3> QED
      BY <3>6, <3>7
  <2>12. ASSUME NEW w \in Worker, Notices!Complete(w) PROVE InBudget(l)'
    <3>1. /\ work[w] # None /\ work[w].outcome \in Notices!Final \cup {"retry_wait"}
          /\ work' = [work EXCEPT ![w] = None] /\ UNCHANGED spare
      BY <2>12 DEF Notices!Complete, Notices!Answered, Notices!NoWork
    <3>2. work'[w] = None /\ \A v \in Worker \ {w} : work'[v] = work[v]
      BY <3>1 DEF NoticesTyped
    <3>3. Spenders(l)' \subseteq Spenders(l) \ {w}
      BY <3>2 DEF Spenders, Spends, Notices!NoWork
    <3>4. CASE ~(Notices!Holds(w) /\ work[w].lane = l)
      <4>1. Waits(l)' = Waits(l)
        BY <2>12, <3>4, CompleteRow, WaitsOf
      <4> QED
        BY <2>2, <2>3, <3>1, <3>3, <4>1
    <3>5. CASE Notices!Holds(w) /\ work[w].lane = l
      <4>1. Changes(l, AnsweredRow(w)) /\ delivery[l] \in DeliveryRow
        BY <2>12, <3>5, CompleteRow, ExistingRow DEF Changes
      <4>2. work[w].outcome # "retry_wait"
        BY <3>1, <3>5 DEF WorkIsCurrent, Deduplicated
      <4>3. AnsweredRow(w).state = work[w].outcome
        BY <3>5, <4>1, <4>2 DEF AnsweredRow, DeliveryRow, Notices!Exhausted
      <4>4. CASE work[w].outcome # "failed"
        <5>1. AnsweredRow(w).state \notin Notices!Pending \cup {"failed"}
          BY <3>1, <4>2, <4>3, <4>4 DEF Notices!Pending, Notices!Final
        <5>2. Waits(l)' = 0
          BY <4>1, <5>1, WaitsOf
        <5> QED
          BY <2>2, <2>3, <3>1, <3>3, <5>2
      <4>5. CASE work[w].outcome = "failed"
        <5>1. w \in Spenders(l)
          BY <3>1, <3>5, <4>5 DEF Spenders, Spends, Notices!NoWork
        <5> DEFINE n == Cardinality(Spenders(l))
                   k == Cardinality(Spenders(l)')
        <5>2. n \in Nat /\ k \in Nat /\ k + 1 <= n /\ Cardinality(Spenders(l))' = k
          BY <3>3, <5>1, OneSpender
        <5>3. spare[l] >= 0
              /\ ((Notices!Exists(l) => Notices!Current(l)) => n + Waits(l) <= spare[l])
          BY <2>1 DEF InBudget
        <5>4. spare'[l] >= 0
              /\ ((Notices!Exists(l)' => Notices!Current(l)') => k + Waits(l)' <= spare'[l])
          <6> HIDE DEF n, k
          <6> QED
            BY <2>3, <2>5, <3>1, <5>2, <5>3
        <5> QED
          BY <5>2, <5>4 DEF InBudget
      <4> QED
        BY <4>4, <4>5
    <3> QED
      BY <3>4, <3>5
  <2>13. ASSUME NEW w \in Worker, Notices!Drop(w) PROVE InBudget(l)'
    <3>1. work' = [work EXCEPT ![w] = None] /\ UNCHANGED <<delivery, spare>>
      BY <2>13 DEF Notices!Drop, Notices!NoWork
    <3>2. Spenders(l)' \subseteq Spenders(l)
      BY <3>1 DEF Spenders, Spends, NoticesTyped, Notices!NoWork
    <3> QED
      BY <2>2, <2>3, <3>1, <3>2, WaitsOf
  <2>14. ASSUME NEW m \in Notices!Lane, Notices!Sweep(m) \/ Notices!LeaseExpires(m)
         PROVE  InBudget(l)'
    <3>1. UNCHANGED <<work, spare>> /\ delivery[m] \in DeliveryRow /\ delivery[m].state = "running"
      BY <2>14, ExistingRow DEF Notices!Sweep, Notices!LeaseExpires
    <3>2. ASSUME NEW row, Changes(m, row), row.state \notin Notices!Pending \cup {"failed"}
          PROVE  Waits(l)' <= Waits(l)
      <4>1. CASE m = l
        <5>1. Waits(l)' = 0
          BY <3>2, <4>1, WaitsOf
        <5> QED
          BY <2>3, <5>1
      <4>2. CASE m # l
        <5>1. Waits(l)' = Waits(l)
          BY <3>2, <4>2, WaitsOf
        <5> QED
          BY <2>3, <5>1
      <4> QED
        BY <4>1, <4>2
    <3>3. CASE Notices!Sweep(m)
      <4>1. Changes(m, [delivery[m] EXCEPT !.state = "uncertain"])
        BY <3>3, SweepRow
      <4>2. [delivery[m] EXCEPT !.state = "uncertain"].state \notin Notices!Pending \cup {"failed"}
        BY <3>1 DEF DeliveryRow, Notices!Pending
      <4>3. Waits(l)' <= Waits(l)
        BY <3>2, <4>1, <4>2
      <4> QED
        BY <2>2, <2>3, <2>4, <3>1, <4>3
    <3>4. CASE Notices!LeaseExpires(m)
      <4>1. Changes(m, [delivery[m] EXCEPT !.lease = FALSE])
        BY <3>4, ExpiryRow
      <4>2. [delivery[m] EXCEPT !.lease = FALSE].state \notin Notices!Pending \cup {"failed"}
        BY <3>1 DEF DeliveryRow, Notices!Pending
      <4>3. Waits(l)' <= Waits(l)
        BY <3>2, <4>1, <4>2
      <4> QED
        BY <2>2, <2>3, <2>4, <3>1, <4>3
    <3> QED
      BY <2>14, <3>3, <3>4
  <2>15. ASSUME (\E e \in Event, kind \in Kind : Notices!Raise(e, kind))
                \/ (\E c \in Command, d \in Notices!Integration : Notices!Configure(c, d))
                \/ (\E d \in Legacy : Notices!UpdateProject(d))
                \/ (\E u \in User : Notices!Mute(u) \/ Notices!Demote(u)) \/ Notices!Backup
                     \/ UNCHANGED Notices!vars
         PROVE  InBudget(l)'
    <3>1. UNCHANGED <<work, delivery, spare>>
      BY <2>15 DEF Notices!Raise, Notices!Configure, Notices!UpdateProject, Notices!Mute,
      Notices!Demote, Notices!Backup, Notices!vars
    <3> QED
      BY <2>6, <3>1
  <2> QED
    BY <1>2, <2>7, <2>8, <2>9, <2>10, <2>11, <2>12, <2>13, <2>14, <2>15
       DEF Notices!Next, Notices!OwnerStep, Notices!Cycle
<1> QED
  BY <1>1, <1>2

-----------------------------------------------------------------------------
LEMMA NoticesInvInit == ASSUME NoticesGiven PROVE Notices!Init => NoticesIInv
<1> SUFFICES ASSUME Notices!Init PROVE NoticesIInv
  OBVIOUS
<1>1. NoticesTyped /\ Rows
  BY NoticesTypedInit, RowsInit
<1>2. WorkIsCurrent /\ UntouchedIsWhole /\ WithinBudget
  BY DEF Notices!Init, WorkIsCurrent, UntouchedIsWhole, WithinBudget, Notices!Exists,
  Notices!NoWork, Notices!NoDelivery
<1> QED
  BY <1>1, <1>2 DEF NoticesIInv, Rows

LEMMA NoticesInvStep ==
  ASSUME NoticesGiven
  PROVE NoticesIInv /\ [Notices!Next]_(Notices!vars) => NoticesIInv'
<1> SUFFICES ASSUME NoticesIInv, [Notices!Next]_(Notices!vars) PROVE NoticesIInv'
  OBVIOUS
<1>1. NoticesTyped /\ Rows /\ WorkIsCurrent /\ UntouchedIsWhole /\ SnapshotIsOlder
  BY DEF NoticesIInv, Rows
<1>2. NoticesTyped'
  BY <1>1, NoticesTypedStep
<1>3. Rows'
  BY <1>1, RowsStep
<1>4. WorkIsCurrent'
  BY <1>1, WorkStep
<1>5. UntouchedIsWhole'
  BY <1>1, UntouchedStep
<1>6. WithinBudget'
  BY <1>2, NoticesBudgetStep
<1> QED
  BY <1>2, <1>3, <1>4, <1>5, <1>6 DEF NoticesIInv, Rows

\* Every row and every piece of work is of its type, and rows refer to rows that exist.
THEOREM NotificationTypes == ASSUME NoticesGiven PROVE Notices!Spec => []Notices!TypeOK
<1>1. NoticesIInv => Notices!TypeOK
  <2> SUFFICES ASSUME NoticesIInv PROVE Notices!TypeOK
    OBVIOUS
  <2> USE DEF NoticesIInv
  <2>1. ASSUME NEW s \in Notices!Source, event[s] # Notices!NoEvent
        PROVE  event[s].kind \in Kind \cup {Notices!Sent} /\ event[s].generation \in 1..era
    <3>1. event[s] \in EventRow
      BY <2>1 DEF NoticesTyped, Notices!NoEvent
    <3> QED
      BY <2>1, <3>1 DEF EventRow, Consistent, Notices!NoEvent
  <2>2. ASSUME NEW l \in Notices!Lane, Notices!Exists(l)
        PROVE  /\ event[l[1]] # Notices!NoEvent /\ event[l[1]].routed
               /\ delivery[l].state \in Notices!Pending \cup Notices!Final \cup {"running"}
               /\ delivery[l].attempt \in 0..MaxAttempt
               /\ delivery[l].lease => delivery[l].state = "running"
    <3>1. delivery[l] \in DeliveryRow
      BY <2>2, ExistingRow
    <3> QED
      BY <2>2, <3>1 DEF DeliveryRow, NoticesStates, Consistent, Notices!Exists, Notices!NoDelivery,
      Notices!NoEvent
  <2> QED
    BY <2>1, <2>2 DEF Notices!TypeOK, NoticesTyped
<1> QED
  BY <1>1, NoticesInvInit, NoticesInvStep, PTL DEF Notices!Spec

\* A tracker or a mailbox, which would not notice a duplicate, receives one message for
\* each delivery and one more for each duplicate that the owner accepted
\* (notification_delivery.rs, whose first line promises it): whatever workers are given
\* up, leases run out, and rows are retried or restored.
THEOREM TicketsAreNotRepeated == ASSUME NoticesGiven PROVE Notices!Spec => []Notices!NoSecondTicket
<1>1. NoticesIInv => Notices!NoSecondTicket
  BY EachInBudget DEF NoticesIInv, Notices!NoSecondTicket, InBudget, Deduplicated
<1> QED
  BY <1>1, NoticesInvInit, NoticesInvStep, PTL DEF Notices!Spec

\* A row that waits for a worker has an attempt left: the claim query of cycle() finds it.
THEOREM NobodyIsStranded == ASSUME NoticesGiven PROVE Notices!Spec => []Notices!NoStrandedDelivery
<1>1. NoticesIInv => Notices!NoStrandedDelivery
  BY SMTT(30) DEF NoticesIInv, Consistent, Notices!NoStrandedDelivery, Notices!Exists,
      Notices!NoDelivery
<1> QED
  BY <1>1, NoticesInvInit, NoticesInvStep, PTL DEF Notices!Spec

\* A message is sent only for an event of this generation that is no drill: target()
\* compares the generations, and resume_external_work closes what a drill left.
LEMMA QuietSteps ==
  ASSUME NoticesGiven
  PROVE NoticesIInv /\ [Notices!Next]_(Notices!vars) => Notices!QuietStep
<1> SUFFICES ASSUME NoticesIInv, [Notices!Next]_(Notices!vars), NEW l \in Notices!Lane,
                    spare'[l] < spare[l]
             PROVE  event[l[1]].generation = era /\ ~event[l[1]].drill
  BY DEF Notices!QuietStep
<1> USE DEF NoticesIInv
<1>1. spare[l] \in Int
  BY DEF NoticesTyped
<1>2. CASE Notices!Restore
  <2>1. backup # None /\ backup.delivery[l] = None /\ spare'[l] = 1
    BY <1>1, <1>2 DEF Notices!Restore, Notices!NoEvent, Notices!NoDelivery
  <2>2. Notices!Exists(l)
    BY <1>1, <2>1 DEF UntouchedIsWhole
  <2> QED
    BY <2>1, <2>2 DEF SnapshotIsOlder, Notices!Current
<1>3. ASSUME NEW w \in Worker, Notices!Request(w)
      PROVE  event[l[1]].generation = era /\ ~event[l[1]].drill
  <2>1. work[w] # None /\ work[w].outcome = "send"
    BY <1>3 DEF Notices!Request, Notices!NoWork
  <2>2. work[w].lane = l
    BY <1>1, <1>3 DEF Notices!Request, NoticesTyped
  <2> QED
    BY <2>1, <2>2 DEF WorkIsCurrent, Notices!Current
<1>4. ASSUME NEW c \in Command, NEW m \in Notices!Lane, NEW a \in BOOLEAN, Notices!Retry(c, m, a)
      PROVE  FALSE
  <2>1. spare' = [spare EXCEPT ![m] = spare[m] + IF a THEN 1 ELSE 0] /\ spare[m] \in Int
    BY <1>4 DEF Notices!Retry, NoticesTyped
  <2>2. spare'[l] >= spare[l]
    BY <1>1, <2>1 DEF NoticesTyped
  <2> QED
    BY <1>1, <2>1, <2>2 DEF NoticesTyped
<1>5. ~UNCHANGED spare
  BY <1>1
<1> QED
  BY <1>2, <1>3, <1>4, <1>5 DEF Notices!Next, Notices!OwnerStep, Notices!Cycle, Notices!Raise,
  Notices!Configure, Notices!UpdateProject, Notices!Send,
     Notices!Mute, Notices!Demote, Notices!Backup, Notices!Resume, Notices!Route, Notices!Claim,
     Notices!Target, Notices!Complete, Notices!Drop, Notices!Sweep, Notices!LeaseExpires,
     Notices!vars

\* After a restore nothing raised before it, or while the copy was being validated, is sent:
\* not by the router, not by a worker and not by the owner's retry.
THEOREM RestoredIsQuiet == ASSUME NoticesGiven PROVE Notices!Spec => Notices!RestoredStaysQuiet
BY NoticesInvInit, NoticesInvStep, QuietSteps, PTL DEF Notices!Spec, Notices!RestoredStaysQuiet

(***************************************************************************)
(* PushAudience.  A send from the console has rows for the devices of the  *)
(* preview that its receipt names and for no others, in the instance and   *)
(* in its backup alike, and a row that waits has not been sent.            *)
(***************************************************************************)
PushRow == [state : {"queued", "sent", "failed"}, generation : Nat \ {0}]
Preview == [no : Nat \ {0}, ids : SUBSET Device, generation : Nat, fresh : BOOLEAN]
AudienceCommand == [key : Key, preview : Nat]
Saved == [device : [Device -> {"absent", "live", "revoked"}], fits : SUBSET Device,
          preview : Seq(Preview), row : [Audience!Slot -> PushRow \cup {None}],
          receipt : [Key -> Nat \cup {None}]]

\* Keys of the console and of the API are apart, and None is none of the rows.
ReviewGiven ==
    /\ MaxPreviews \in Nat /\ MaxGeneration \in Nat \ {0} /\ Key \cap Call = {}
    /\ None \notin PushRow /\ None \notin Nat /\ None \notin AudienceCommand /\ None \notin Saved

AudienceDataOK ==
    /\ device \in [Device -> {"absent", "live", "revoked"}] /\ fits \subseteq Device
    /\ preview \in Seq(Preview) /\ sends \in [Audience!Slot -> PushRow \cup {None}]
    /\ answered \in [Key -> Nat \cup {None}] /\ console \in AudienceCommand \cup {None}
    /\ period \in 1..MaxGeneration /\ phase \in {"normal", "restore_validation"}
    /\ copy \in Saved \cup {None} /\ taken \in 0..MaxPreviews
    /\ copy # None => period < MaxGeneration
    /\ got \in [Key \X (1..MaxPreviews) \X Device -> Nat]

\* A console send has rows for the devices of its preview, and none without its receipt.
Reviewed(r, c, p) ==
    \A k \in Key : /\ c[k] # None => c[k] \in DOMAIN p
                   /\ \A d \in Device :
                        r[<<k, d>>] # None <=> c[k] # None /\ d \in p[c[k]].ids

\* Previews are numbered in their order, and none is of a generation to come.
AudienceNumbered(p) ==
    \A i \in DOMAIN p : /\ p[i].no <= taken /\ p[i].generation <= period
                        /\ \A j \in DOMAIN p : p[i].no = p[j].no => i = j

\* Rows of this generation were reviewed in this generation, and only they can be sent.
RowsAreOfNow ==
    \A s \in Audience!Slot : sends[s] # None =>
        /\ sends[s].generation <= period
        /\ sends[s].state = "queued" /\ s[1] \in Key => sends[s].generation = period
        /\ s[1] \in Key /\ sends[s].generation = period =>
             preview[answered[s[1]]].generation = period

\* What the send under way compared.
ConsoleOK ==
    console # None => /\ answered[console.key] = None /\ console.preview \in DOMAIN preview
                      /\ preview[console.preview].generation = period

BackupOK ==
    copy # None =>
        /\ Reviewed(copy.row, copy.receipt, copy.preview) /\ AudienceNumbered(copy.preview)
        /\ \A s \in Audience!Slot : copy.row[s] # None => copy.row[s].generation <= period

\* A message that was sent is that of a row that says so, or of a preview whose
\* generation has ended.
OfSentRow(k, n, d) ==
    /\ answered[k] # None /\ preview[answered[k]].no = n /\ sends[<<k, d>>] # None
    /\ sends[<<k, d>>].state = "sent"
OfThePast(n) == \A i \in DOMAIN preview : preview[i].no = n => preview[i].generation < period
GotOnce ==
    \A k \in Key, n \in 1..MaxPreviews, d \in Device :
        /\ got[<<k, n, d>>] <= 1
        /\ got[<<k, n, d>>] # 0 => n <= taken /\ (OfSentRow(k, n, d) \/ OfThePast(n))

ReviewIInv ==
    /\ AudienceDataOK /\ Reviewed(sends, answered, preview) /\ AudienceNumbered(preview)
    /\ RowsAreOfNow /\ ConsoleOK /\ BackupOK /\ GotOnce

-----------------------------------------------------------------------------
\* Empty tables.
LEMMA ReviewInit == ASSUME ReviewGiven, Audience!Init PROVE ReviewIInv
<1>1. AudienceDataOK
  BY DEF Audience!Init, AudienceDataOK, ReviewGiven
<1>2. Reviewed(sends, answered, preview) /\ AudienceNumbered(preview)
  BY DEF Audience!Init, Reviewed, AudienceNumbered, Audience!Slot
<1>3. RowsAreOfNow /\ ConsoleOK /\ BackupOK /\ GotOnce
  BY DEF Audience!Init, RowsAreOfNow, ConsoleOK, BackupOK, GotOnce, Audience!Slot
<1> QED
  BY <1>1, <1>2, <1>3 DEF ReviewIInv

\* The devices do not matter to the rows.
LEMMA DeviceMoves ==
  ASSUME ReviewIInv, UNCHANGED <<preview, sends, answered, console, Audience!instance, got>>,
         device' \in [Device -> {"absent", "live", "revoked"}], fits' \subseteq Device
  PROVE  ReviewIInv'
<1> USE DEF Audience!instance, ReviewIInv
<1>1. AudienceDataOK'
  BY DEF AudienceDataOK
<1>2. Reviewed(sends, answered, preview)' /\ AudienceNumbered(preview)' /\ RowsAreOfNow'
      /\ ConsoleOK'
      /\ GotOnce'
  BY DEF Reviewed, AudienceNumbered, RowsAreOfNow, ConsoleOK, GotOnce, OfSentRow, OfThePast
<1>3. BackupOK'
  BY DEF BackupOK, Reviewed, AudienceNumbered
<1> QED
  BY <1>1, <1>2, <1>3

\* A preview is taken of the devices that match at that moment.
LEMMA TakeStep == ASSUME ReviewGiven, ReviewIInv, Audience!TakePreview PROVE ReviewIInv'
<1> DEFINE p == [no |-> taken + 1, ids |-> Audience!Selection, generation |-> period, fresh |-> TRUE]
<1>1. /\ preview' = Append(preview, p) /\ taken' = taken + 1 /\ taken < MaxPreviews
      /\ console = None
      /\ UNCHANGED <<device, fits, sends, answered, console, period, phase, copy, got>>
  BY DEF Audience!TakePreview
<1>2. /\ preview \in Seq(Preview) /\ taken \in 0..MaxPreviews /\ period \in Nat
         /\ MaxPreviews \in Nat
  BY DEF ReviewIInv, AudienceDataOK, ReviewGiven
<1>3. p \in Preview /\ p.no = taken + 1 /\ p.generation = period
  BY <1>2 DEF Preview, Audience!Selection, Audience!Live
<1> HIDE DEF p
<1>4. /\ preview' \in Seq(Preview) /\ Len(preview') = Len(preview) + 1
      /\ DOMAIN preview = 1..Len(preview) /\ DOMAIN preview' = 1..(Len(preview) + 1)
      /\ \A i \in DOMAIN preview : i \in DOMAIN preview' /\ preview'[i] = preview[i]
         /\ preview[i] \in Preview
      /\ preview'[Len(preview) + 1] = p
      /\ Len(preview) \in Nat
  BY <1>1, <1>2, <1>3
<1>5. \A i \in DOMAIN preview' : i \in DOMAIN preview \/ (i = Len(preview) + 1 /\ preview'[i] = p)
  BY <1>4
<1>6. AudienceDataOK'
  BY <1>1, <1>2, <1>4 DEF ReviewIInv, AudienceDataOK
<1>7. Reviewed(sends, answered, preview)'
  BY <1>1, <1>4 DEF ReviewIInv, Reviewed
<1>8. AudienceNumbered(preview)'
  <2>1. \A i \in DOMAIN preview : preview[i].no \in Nat /\ preview[i].no <= taken
        /\ preview[i].generation <= period
    BY <1>4 DEF ReviewIInv, AudienceNumbered, Preview
  <2>2. \A i \in DOMAIN preview' : preview'[i].no <= taken' /\ preview'[i].generation <= period'
    BY <1>1, <1>2, <1>3, <1>4, <1>5, <2>1
  <2>3. \A i, j \in DOMAIN preview' : preview'[i].no = preview'[j].no => i = j
    BY <1>2, <1>3, <1>4, <1>5, <2>1 DEF ReviewIInv, AudienceNumbered
  <2> QED
    BY <2>2, <2>3 DEF AudienceNumbered
<1>9. RowsAreOfNow' /\ ConsoleOK'
  <2>1. \A k \in Key, d \in Device : sends[<<k, d>>] # None => answered[k] \in DOMAIN preview
    BY DEF ReviewIInv, Reviewed
  <2>2. \A s \in Audience!Slot : s[1] \in Key /\ sends[s] # None
          => answered[s[1]] \in DOMAIN preview
    BY <2>1 DEF Audience!Slot
  <2> QED
    BY <1>1, <1>4, <2>2 DEF ReviewIInv, RowsAreOfNow, ConsoleOK
<1>10. BackupOK'
  <2>1. ASSUME copy # None
        PROVE  AudienceNumbered(copy.preview)'
    <3>1. /\ \A i \in DOMAIN copy.preview : copy.preview[i] \in Preview
          /\ AudienceNumbered(copy.preview)
      BY <2>1 DEF ReviewIInv, BackupOK, AudienceDataOK, Saved
    <3> QED
      BY <1>1, <1>2, <3>1 DEF AudienceNumbered, Preview
  <2> QED
    BY <1>1, <2>1 DEF ReviewIInv, BackupOK, Reviewed
<1>11. GotOnce'
  <2> SUFFICES ASSUME NEW k \in Key, NEW n \in 1..MaxPreviews, NEW d \in Device
               PROVE  /\ got[<<k, n, d>>] <= 1
                      /\ got[<<k, n, d>>] # 0 => n <= taken'
                         /\ (OfSentRow(k, n, d)' \/ OfThePast(n)')
    BY <1>1 DEF GotOnce
  <2>1. /\ got[<<k, n, d>>] <= 1
        /\ got[<<k, n, d>>] # 0 => n <= taken /\ (OfSentRow(k, n, d) \/ OfThePast(n))
    BY DEF ReviewIInv, GotOnce
  <2>2. OfSentRow(k, n, d) => OfSentRow(k, n, d)'
    BY <1>1, <1>4 DEF OfSentRow, ReviewIInv, Reviewed
  <2>3. n <= taken /\ OfThePast(n) => OfThePast(n)'
    BY <1>1, <1>2, <1>3, <1>4, <1>5 DEF OfThePast
  <2> QED
    BY <1>1, <1>2, <2>1, <2>2, <2>3
<1> QED
  BY <1>6, <1>7, <1>8, <1>9, <1>10, <1>11 DEF ReviewIInv

\* A preview that expires, is not usable, but else what it was.
LEMMA ExpireStep ==
  ASSUME ReviewGiven, ReviewIInv, NEW q \in DOMAIN preview, Audience!Expire(q)
  PROVE ReviewIInv'
<1>1. /\ preview' = [preview EXCEPT ![q].fresh = FALSE]
      /\ UNCHANGED <<device, fits, sends, answered, console, Audience!instance, got>>
  BY DEF Audience!Expire
<1>2. /\ preview' \in Seq(Preview) /\ DOMAIN preview' = DOMAIN preview
      /\ \A i \in DOMAIN preview : /\ preview'[i].no = preview[i].no
                                   /\ preview'[i].ids = preview[i].ids
                                   /\ preview'[i].generation = preview[i].generation
  <2>1. \A i \in DOMAIN preview : preview[i] \in Preview
    BY DEF ReviewIInv, AudienceDataOK
  <2>2. [preview[q] EXCEPT !.fresh = FALSE] \in Preview
    BY <2>1 DEF Preview
  <2>3. preview' = [preview EXCEPT ![q] = [preview[q] EXCEPT !.fresh = FALSE]]
    BY <1>1
  <2>4. preview' \in Seq(Preview) /\ DOMAIN preview' = DOMAIN preview
    BY <2>2, <2>3 DEF ReviewIInv, AudienceDataOK
  <2> QED
    BY <2>1, <2>3, <2>4 DEF Preview
<1> USE DEF Audience!instance, ReviewIInv
<1>3. AudienceDataOK'
  BY <1>1, <1>2 DEF AudienceDataOK
<1>4. Reviewed(sends, answered, preview)' /\ AudienceNumbered(preview)' /\ ConsoleOK'
  BY <1>1, <1>2 DEF Reviewed, AudienceNumbered, ConsoleOK
<1>5. RowsAreOfNow'
  <2>1. \A s \in Audience!Slot : s[1] \in Key /\ sends[s] # None
          => answered[s[1]] \in DOMAIN preview
    BY DEF Reviewed, Audience!Slot
  <2> QED
    BY <1>1, <1>2, <2>1 DEF RowsAreOfNow
<1>6. BackupOK'
  BY <1>1 DEF BackupOK, Reviewed, AudienceNumbered
<1>7. GotOnce'
  <2>1. \A k \in Key, n \in 1..MaxPreviews, d \in Device : OfSentRow(k, n, d) => OfSentRow(k, n, d)'
    BY <1>1, <1>2 DEF OfSentRow, Reviewed
  <2>2. \A n \in 1..MaxPreviews : OfThePast(n) => OfThePast(n)'
    BY <1>1, <1>2 DEF OfThePast
  <2> QED
    BY <1>1, <2>1, <2>2 DEF GotOnce
<1> QED
  BY <1>3, <1>4, <1>5, <1>6, <1>7

\* A send that begins, or is given up.
LEMMA ConsoleStep ==
  ASSUME ReviewGiven, ReviewIInv,
         \/ Audience!Abort
         \/ \E k \in Key, named \in BOOLEAN, p \in DOMAIN preview, n \in 0..Cardinality(Device) :
              Audience!Compare(k, named, p, n)
  PROVE  ReviewIInv'
<1>1. UNCHANGED <<device, fits, preview, sends, answered, Audience!instance, got>>
  BY DEF Audience!Abort, Audience!Compare
<1>2. \/ console' = None
      \/ \E k \in Key, p \in DOMAIN preview :
            /\ console' = [key |-> k, preview |-> p] /\ answered[k] = None
            /\ preview[p].generation = period
  BY DEF Audience!Abort, Audience!Compare, Audience!Usable
<1>3. console' \in AudienceCommand \cup {None}
  BY <1>2 DEF AudienceCommand, ReviewIInv, AudienceDataOK
<1> USE DEF Audience!instance, ReviewIInv
<1>4. AudienceDataOK'
  BY <1>1, <1>3 DEF AudienceDataOK
<1>5. ConsoleOK'
  BY <1>1, <1>2 DEF ConsoleOK
<1>6. Reviewed(sends, answered, preview)' /\ AudienceNumbered(preview)' /\ RowsAreOfNow'
      /\ GotOnce' /\ BackupOK'
  BY <1>1 DEF Reviewed, AudienceNumbered, RowsAreOfNow, GotOnce, OfSentRow, OfThePast, BackupOK
<1> QED
  BY <1>4, <1>5, <1>6

\* A send inserts a row for every reviewed device, or nothing.
LEMMA InsertStep == ASSUME ReviewGiven, ReviewIInv, Audience!Insert PROVE ReviewIInv'
<1> DEFINE k == console.key
           q == console.preview
           ins == {d \in preview[q].ids \cap Audience!Live : sends[<<k, d>>] = None}
<1>1. /\ console # None /\ console' = None
      /\ UNCHANGED <<device, fits, preview, Audience!instance, got>>
  BY DEF Audience!Insert
<1>2. /\ k \in Key /\ q \in DOMAIN preview /\ answered[k] = None /\ preview[q].generation = period
      /\ preview[q] \in Preview /\ q \in Nat
  BY <1>1 DEF ReviewIInv, AudienceDataOK, ConsoleOK, AudienceCommand
<1>3. period \in Nat \ {0} /\ Audience!Queued \in PushRow /\ Audience!Queued # None
      /\ Audience!Queued.state = "queued"
      /\ Audience!Queued.generation = period
  BY DEF ReviewIInv, AudienceDataOK, Audience!Queued, PushRow, ReviewGiven
<1>4. CASE UNCHANGED <<sends, answered>>
  <2>1. AudienceDataOK' /\ ConsoleOK'
    BY <1>1, <1>4 DEF ReviewIInv, AudienceDataOK, ConsoleOK, Audience!instance
  <2>2. Reviewed(sends, answered, preview)' /\ AudienceNumbered(preview)' /\ RowsAreOfNow'
        /\ GotOnce' /\ BackupOK'
    BY <1>1, <1>4 DEF ReviewIInv, Reviewed, AudienceNumbered, RowsAreOfNow, GotOnce, OfSentRow,
    OfThePast, BackupOK, Audience!instance
  <2> QED
    BY <2>1, <2>2 DEF ReviewIInv
<1>5. CASE ~UNCHANGED <<sends, answered>>
  <2>1. /\ ins = preview[q].ids
        /\ sends' = [s \in Audience!Slot |-> IF s[1] = k /\ s[2] \in ins
               THEN Audience!Queued ELSE sends[s]]
        /\ answered' = [answered EXCEPT ![k] = q]
    BY <1>5 DEF Audience!Insert, Audience!Complete
  <2> HIDE DEF k, q, ins
  <2>2. /\ answered' \in [Key -> Nat \cup {None}] /\ answered'[k] = q /\ q # None
        /\ \A j \in Key : j # k => answered'[j] = answered[j]
    BY <1>2, <2>1 DEF ReviewIInv, AudienceDataOK, ReviewGiven
  <2>3. /\ \A d \in Device : sends[<<k, d>>] = None
        /\ \A d \in Device : sends'[<<k, d>>] = IF d \in preview[q].ids THEN Audience!Queued ELSE None
        /\ \A s \in Audience!Slot : s[1] # k => sends'[s] = sends[s]
        /\ sends' \in [Audience!Slot -> PushRow \cup {None}]
    <3>1. \A d \in Device : <<k, d>> \in Audience!Slot
      BY <1>2 DEF Audience!Slot
    <3>2. \A d \in Device : sends[<<k, d>>] = None
      BY <1>2 DEF ReviewIInv, Reviewed
    <3> QED
      BY <1>2, <1>3, <2>1, <3>1, <3>2 DEF ReviewIInv, AudienceDataOK
  <2>4. AudienceDataOK'
    BY <1>1, <2>2, <2>3 DEF ReviewIInv, AudienceDataOK, Audience!instance
  <2>5. Reviewed(sends, answered, preview)'
    <3> SUFFICES ASSUME NEW j \in Key
                 PROVE  /\ answered'[j] # None => answered'[j] \in DOMAIN preview
                        /\ \A d \in Device : sends'[<<j, d>>] # None
                              <=> answered'[j] # None /\ d \in preview[answered'[j]].ids
      BY <1>1 DEF Reviewed
    <3>1. CASE j = k
      BY <1>2, <1>3, <2>2, <2>3, <3>1
    <3>2. CASE j # k
      <4>1. \A d \in Device : sends'[<<j, d>>] = sends[<<j, d>>]
        BY <2>3, <3>2 DEF Audience!Slot
      <4> QED
        BY <2>2, <3>2, <4>1 DEF ReviewIInv, Reviewed
    <3> QED
      BY <3>1, <3>2
  <2>6. AudienceNumbered(preview)' /\ ConsoleOK' /\ BackupOK'
    BY <1>1 DEF ReviewIInv, AudienceNumbered, ConsoleOK, BackupOK, Reviewed, Audience!instance
  <2>7. RowsAreOfNow'
    <3> SUFFICES ASSUME NEW s \in Audience!Slot, sends'[s] # None
                 PROVE  /\ sends'[s].generation <= period
                        /\ sends'[s].state = "queued" /\ s[1] \in Key
                             => sends'[s].generation = period
                        /\ s[1] \in Key /\ sends'[s].generation = period =>
                             preview[answered'[s[1]]].generation = period
      BY <1>1 DEF RowsAreOfNow, Audience!instance
    <3>1. CASE s[1] = k
      <4>1. PICK d \in Device : s = <<k, d>>
        BY <3>1 DEF Audience!Slot
      <4>2. sends'[s] = Audience!Queued
        BY <2>3, <4>1
      <4> QED
        BY <1>2, <1>3, <2>2, <3>1, <4>2
    <3>2. CASE s[1] # k
      BY <2>2, <2>3, <3>2 DEF ReviewIInv, RowsAreOfNow
    <3> QED
      BY <3>1, <3>2
  <2>8. GotOnce'
    <3> SUFFICES ASSUME NEW j \in Key, NEW n \in 1..MaxPreviews, NEW d \in Device,
                        OfSentRow(j, n, d)
                 PROVE  OfSentRow(j, n, d)'
      BY <1>1 DEF ReviewIInv, GotOnce, OfThePast, Audience!instance
    <3>1. j # k
      BY <1>2 DEF OfSentRow
    <3>2. sends'[<<j, d>>] = sends[<<j, d>>]
      BY <2>3, <3>1 DEF Audience!Slot
    <3> QED
      BY <1>1, <2>2, <3>1, <3>2 DEF OfSentRow
  <2> QED
    BY <2>4, <2>5, <2>6, <2>7, <2>8 DEF ReviewIInv
<1> QED
  BY <1>4, <1>5

\* Rows that change their state, or that a call adds, are no concern of the receipts.
LEMMA RowsMove ==
  ASSUME ReviewGiven, ReviewIInv,
         UNCHANGED <<device, fits, preview, answered, console, period, copy, taken>>,
         phase' \in {"normal", "restore_validation"},
         sends' \in [Audience!Slot -> PushRow \cup {None}],
         \A s \in Audience!Slot : s[1] \in Key => /\ sends'[s] # None <=> sends[s] # None
                                                  /\ sends[s] # None
                                                       => sends'[s].generation = sends[s].generation,
         \A s \in Audience!Slot : sends'[s] # None => sends'[s].generation <= period,
         \A s \in Audience!Slot : s[1] \in Key /\ sends'[s] # None /\ sends'[s].state = "queued"
                           => sends'[s].generation = period,
         got' \in [Key \X (1..MaxPreviews) \X Device -> Nat], GotOnce'
  PROVE  ReviewIInv'
<1>1. AudienceDataOK'
  BY DEF ReviewIInv, AudienceDataOK
<1>2. Reviewed(sends, answered, preview)'
  BY DEF ReviewIInv, Reviewed, Audience!Slot
<1>3. AudienceNumbered(preview)' /\ ConsoleOK' /\ BackupOK'
  BY DEF ReviewIInv, AudienceNumbered, ConsoleOK, BackupOK, Reviewed
<1>4. RowsAreOfNow'
  BY DEF ReviewIInv, RowsAreOfNow
<1> QED
  BY <1>1, <1>2, <1>3, <1>4 DEF ReviewIInv

\* What was sent stays accounted for while the rows that were sent stay.
LEMMA GotStays ==
  ASSUME ReviewIInv, UNCHANGED <<preview, answered, period, taken, got>>,
         \A s \in Audience!Slot : s[1] \in Key /\ sends[s] # None /\ sends[s].state = "sent"
           => sends'[s] = sends[s]
  PROVE  GotOnce'
<1>1. \A k \in Key, n \in 1..MaxPreviews, d \in Device : OfSentRow(k, n, d) => OfSentRow(k, n, d)'
  BY DEF OfSentRow, Audience!Slot
<1> QED
  BY <1>1 DEF ReviewIInv, GotOnce, OfThePast

\* A call from outside enqueues rows under its own name.
LEMMA EnqueueStep ==
  ASSUME ReviewGiven, ReviewIInv, NEW c \in Call, NEW named \in SUBSET Device,
         NEW audience \in BOOLEAN, Audience!Enqueue(c, named, audience)
  PROVE  ReviewIInv'
<1>1. /\ UNCHANGED <<device, fits, preview, answered, console, Audience!instance, got>>
      /\ \A s \in Audience!Slot : \/ sends'[s] = sends[s]
                                  \/ sends'[s] = Audience!Queued /\ s[1] = c
      /\ sends' \in [Audience!Slot -> PushRow \cup {None}]
  BY DEF Audience!Enqueue, ReviewIInv, AudienceDataOK, Audience!Queued, PushRow
<1>2. c \notin Key
  BY DEF ReviewGiven
<1>3. Audience!Queued.generation = period /\ period \in Nat
  BY DEF Audience!Queued, ReviewIInv, AudienceDataOK
<1>4. GotOnce'
  BY <1>1, <1>2, GotStays DEF Audience!instance
<1>5. \A s \in Audience!Slot : sends'[s] # None => sends'[s].generation <= period
  BY <1>1, <1>3 DEF ReviewIInv, RowsAreOfNow
<1>6. \A s \in Audience!Slot : s[1] \in Key => sends'[s] = sends[s]
  BY <1>1, <1>2
<1>7. \A s \in Audience!Slot : s[1] \in Key /\ sends'[s] # None /\ sends'[s].state = "queued"
                           => sends'[s].generation = period
  BY <1>6 DEF ReviewIInv, RowsAreOfNow
<1>8. phase' \in {"normal", "restore_validation"}
      /\ got' \in [Key \X (1..MaxPreviews) \X Device -> Nat]
  BY <1>1 DEF ReviewIInv, AudienceDataOK, Audience!instance
<1> QED
  BY <1>1, <1>4, <1>5, <1>6, <1>7, <1>8, RowsMove DEF Audience!instance

\* A row with another state.
LEMMA StateOf ==
  ASSUME NEW r \in PushRow, NEW st \in {"queued", "sent", "failed"}
  PROVE  /\ [r EXCEPT !.state = st] \in PushRow /\ [r EXCEPT !.state = st].state = st
         /\ [r EXCEPT !.state = st].generation = r.generation
  BY DEF PushRow

\* A row is sent or fails, and the device has at most that one message of the preview.
LEMMA DeliverStep ==
  ASSUME ReviewGiven, ReviewIInv, NEW s \in Audience!Slot, Audience!Deliver(s)
  PROVE ReviewIInv'
<1>1. /\ UNCHANGED <<device, fits, preview, answered, console, Audience!instance>>
      /\ sends[s] # None /\ sends[s].state = "queued" /\ sends[s] \in PushRow
  BY DEF Audience!Deliver, ReviewIInv, AudienceDataOK
<1>2. PICK st \in {"sent", "failed"} :
        /\ sends' = [sends EXCEPT ![s] = [sends[s] EXCEPT !.state = st]]
        /\ got' = got \/ (st = "sent" /\ s[1] \notin Call
                          /\ got' = [got EXCEPT ![<<s[1], preview[answered[s[1]]].no, s[2]>>] =
                                 got[<<s[1], preview[answered[s[1]]].no, s[2]>>] + 1])
  BY DEF Audience!Deliver
<1> DEFINE new == [sends[s] EXCEPT !.state = st]
<1>3. new \in PushRow /\ new.state = st /\ new.generation = sends[s].generation /\ new # None
  <2>1. st \in {"queued", "sent", "failed"}
    OBVIOUS
  <2>2. new \in PushRow /\ new.state = st /\ new.generation = sends[s].generation
    BY <1>1, <2>1, StateOf
  <2> QED
    BY <2>2 DEF ReviewGiven
<1> HIDE DEF new
<1>4. sends' \in [Audience!Slot -> PushRow \cup {None}] /\ sends'[s] = new
      /\ \A t \in Audience!Slot : t # s => sends'[t] = sends[t]
  BY <1>2, <1>3 DEF ReviewIInv, AudienceDataOK, new
<1>5. GotOnce' /\ got' \in [Key \X (1..MaxPreviews) \X Device -> Nat]
  <2>1. CASE got' = got
    BY <1>1, <1>4, <2>1, GotStays DEF Audience!instance, ReviewIInv, AudienceDataOK
  <2>2. CASE got' # got
    <3> DEFINE k == s[1]
               d == s[2]
    <3>1. k \in Key /\ d \in Device /\ s = <<k, d>>
      BY <1>2, <2>2 DEF Audience!Slot
    <3>2. PICK n : /\ n = preview[answered[k]].no /\ st = "sent"
                   /\ got' = [got EXCEPT ![<<k, n, d>>] = got[<<k, n, d>>] + 1]
      BY <1>2, <2>2
    <3> HIDE DEF k, d
    <3>3. answered[k] # None /\ answered[k] \in DOMAIN preview
      BY <1>1, <3>1 DEF ReviewIInv, Reviewed
    <3>4. preview[answered[k]] \in Preview
      BY <3>3 DEF ReviewIInv, AudienceDataOK
    <3>5. n \in 1..MaxPreviews /\ n <= taken /\ taken \in Nat
      BY <3>2, <3>3, <3>4 DEF ReviewIInv, AudienceNumbered, Preview, AudienceDataOK, ReviewGiven
    <3>6. preview[answered[k]].generation = period /\ period \in Nat
      <4>1. sends[s].generation = period
        BY <1>1, <3>1 DEF ReviewIInv, RowsAreOfNow
      <4> QED
        BY <1>1, <3>1, <4>1 DEF ReviewIInv, RowsAreOfNow, AudienceDataOK
    <3>7. ~OfThePast(n)
      BY <3>2, <3>3, <3>6 DEF OfThePast
    <3>8. ~OfSentRow(k, n, d)
      BY <1>1, <3>1 DEF OfSentRow
    <3>9. got[<<k, n, d>>] = 0
      BY <3>1, <3>5, <3>7, <3>8 DEF ReviewIInv, GotOnce
    <3>10. /\ got' \in [Key \X (1..MaxPreviews) \X Device -> Nat] /\ got'[<<k, n, d>>] = 1
           /\ \A m \in Key \X (1..MaxPreviews) \X Device : m # <<k, n, d>> => got'[m] = got[m]
      <4>1. <<k, n, d>> \in Key \X (1..MaxPreviews) \X Device
        BY <3>1, <3>5
      <4>2. got' = [got EXCEPT ![<<k, n, d>>] = 1]
        BY <3>2, <3>9
      <4> QED
        BY <4>1, <4>2 DEF ReviewIInv, AudienceDataOK
    <3>11. GotOnce'
      <4> SUFFICES ASSUME NEW j \in Key, NEW i \in 1..MaxPreviews, NEW e \in Device
                   PROVE  /\ got'[<<j, i, e>>] <= 1
                          /\ got'[<<j, i, e>>] # 0 => i <= taken
                             /\ (OfSentRow(j, i, e)' \/ OfThePast(i)')
        BY <1>1 DEF GotOnce, Audience!instance
      <4>1. CASE <<j, i, e>> = <<k, n, d>>
        <5>1. OfSentRow(k, n, d)'
          BY <1>1, <1>3, <1>4, <3>1, <3>2, <3>3 DEF OfSentRow
        <5>2. j = k /\ i = n /\ e = d
          BY <4>1
        <5> QED
          <6>1. n <= taken /\ got'[<<k, n, d>>] <= 1
            BY <1>1, <3>5, <3>10 DEF Audience!instance
          <6> QED
            BY <4>1, <5>1, <5>2, <6>1
      <4>2. CASE <<j, i, e>> # <<k, n, d>>
        <5>1. got'[<<j, i, e>>] = got[<<j, i, e>>]
          BY <3>10, <4>2
        <5>2. OfSentRow(j, i, e) => OfSentRow(j, i, e)'
          BY <1>1, <1>4 DEF OfSentRow, Audience!Slot
        <5>3. OfThePast(i) => OfThePast(i)'
          BY <1>1 DEF OfThePast, Audience!instance
        <5> QED
          BY <5>1, <5>2, <5>3 DEF ReviewIInv, GotOnce
      <4> QED
        BY <4>1, <4>2
    <3> QED
      BY <3>10, <3>11
  <2> QED
    BY <2>1, <2>2
<1>6. phase' \in {"normal", "restore_validation"}
  BY <1>1 DEF ReviewIInv, AudienceDataOK, Audience!instance
<1>7. \A t \in Audience!Slot : /\ sends'[t] # None <=> sends[t] # None
                               /\ sends[t] # None => sends'[t].generation = sends[t].generation
  BY <1>1, <1>3, <1>4
<1>8. \A t \in Audience!Slot : sends'[t] # None => sends'[t].generation <= period
  BY <1>7 DEF ReviewIInv, RowsAreOfNow
<1>9. \A t \in Audience!Slot : t[1] \in Key /\ sends'[t] # None /\ sends'[t].state = "queued"
        => sends'[t].generation = period
  BY <1>1, <1>3, <1>4, <1>7 DEF ReviewIInv, RowsAreOfNow
<1> QED
  BY <1>1, <1>4, <1>5, <1>6, <1>7, <1>8, <1>9, RowsMove DEF Audience!instance

\* Failed rows are queued again.
LEMMA RetryStep ==
  ASSUME ReviewGiven, ReviewIInv, NEW chosen \in SUBSET Audience!Slot, Audience!Retry(chosen)
  PROVE ReviewIInv'
<1>1. /\ UNCHANGED <<device, fits, preview, answered, console, Audience!instance, got>>
      /\ \A s \in chosen : sends[s] # None /\ sends[s].state = "failed"
         /\ sends[s].generation = period
      /\ sends' = [s \in Audience!Slot |-> IF s \in chosen THEN [sends[s] EXCEPT !.state = "queued"]
             ELSE sends[s]]
  BY DEF Audience!Retry, Audience!Retriable
<1>2. \A s \in chosen : /\ sends'[s] \in PushRow /\ sends'[s].state = "queued" /\ sends'[s] # None
                        /\ sends'[s].generation = sends[s].generation
  <2> SUFFICES ASSUME NEW s \in chosen
               PROVE  /\ sends'[s] \in PushRow /\ sends'[s].state = "queued" /\ sends'[s] # None
                      /\ sends'[s].generation = sends[s].generation
    OBVIOUS
  <2>1. sends[s] \in PushRow /\ sends'[s] = [sends[s] EXCEPT !.state = "queued"]
    BY <1>1 DEF ReviewIInv, AudienceDataOK
  <2>2. sends'[s] \in PushRow /\ sends'[s].state = "queued"
        /\ sends'[s].generation = sends[s].generation
    BY <2>1, StateOf
  <2> QED
    BY <2>2 DEF ReviewGiven
<1>3. \A s \in Audience!Slot : s \notin chosen => sends'[s] = sends[s]
  BY <1>1
<1>4. sends' \in [Audience!Slot -> PushRow \cup {None}]
  BY <1>1, <1>2, <1>3 DEF ReviewIInv, AudienceDataOK
<1>5. GotOnce'
  <2>1. \A s \in Audience!Slot : sends[s] # None /\ sends[s].state = "sent" => sends'[s] = sends[s]
    BY <1>1, <1>3
  <2> QED
    BY <1>1, <2>1, GotStays DEF Audience!instance
<1>6. \A t \in Audience!Slot : /\ sends'[t] # None <=> sends[t] # None
                               /\ sends[t] # None => sends'[t].generation = sends[t].generation
  BY <1>1, <1>2, <1>3
<1>7. \A t \in Audience!Slot : sends'[t] # None => sends'[t].generation <= period
  BY <1>6 DEF ReviewIInv, RowsAreOfNow
<1>8. \A t \in Audience!Slot : t[1] \in Key /\ sends'[t] # None /\ sends'[t].state = "queued"
        => sends'[t].generation = period
  BY <1>1, <1>2, <1>3 DEF ReviewIInv, RowsAreOfNow
<1>9. phase' \in {"normal", "restore_validation"}
      /\ got' \in [Key \X (1..MaxPreviews) \X Device -> Nat]
  BY <1>1 DEF ReviewIInv, AudienceDataOK, Audience!instance
<1> QED
  BY <1>1, <1>4, <1>5, <1>6, <1>7, <1>8, <1>9, RowsMove DEF Audience!instance

\* Closing rows ends their queueing and nothing else.
LEMMA ClosedRows ==
  ASSUME ReviewGiven, NEW r \in [Audience!Slot -> PushRow \cup {None}]
  PROVE  /\ Audience!Closed(r) \in [Audience!Slot -> PushRow \cup {None}]
         /\ \A s \in Audience!Slot : /\ Audience!Closed(r)[s] # None <=> r[s] # None
                                     /\ r[s] # None
                                          => /\ Audience!Closed(r)[s].generation = r[s].generation
                                             /\ Audience!Closed(r)[s].state # "queued"
                                     /\ r[s] # None /\ r[s].state = "sent"
                                          => Audience!Closed(r)[s] = r[s]
<1> SUFFICES ASSUME NEW s \in Audience!Slot
             PROVE  /\ Audience!Closed(r)[s] \in PushRow \cup {None}
                    /\ Audience!Closed(r)[s] # None <=> r[s] # None
                    /\ r[s] # None => /\ Audience!Closed(r)[s].generation = r[s].generation
                                      /\ Audience!Closed(r)[s].state # "queued"
                    /\ r[s] # None /\ r[s].state = "sent" => Audience!Closed(r)[s] = r[s]
  BY DEF Audience!Closed
<1>1. Audience!Closed(r)[s] = IF r[s] # None
      /\ r[s].state = "queued" THEN [r[s] EXCEPT !.state = "failed"] ELSE r[s]
  BY DEF Audience!Closed
<1>2. r[s] # None => r[s] \in PushRow
  OBVIOUS
<1>3. CASE r[s] # None /\ r[s].state = "queued"
  <2>1. r[s] \in PushRow /\ Audience!Closed(r)[s] = [r[s] EXCEPT !.state = "failed"]
    BY <1>1, <1>2, <1>3
  <2>2. /\ Audience!Closed(r)[s] \in PushRow /\ Audience!Closed(r)[s].state = "failed"
        /\ Audience!Closed(r)[s].generation = r[s].generation
    BY <2>1, StateOf
  <2> QED
    BY <1>3, <2>2 DEF ReviewGiven
<1>4. CASE ~(r[s] # None /\ r[s].state = "queued")
  BY <1>1, <1>2, <1>4
<1> QED
  BY <1>3, <1>4

\* The instance resumes, and rows of an earlier generation are closed.
LEMMA ResumeStep == ASSUME ReviewGiven, ReviewIInv, Audience!Resume PROVE ReviewIInv'
<1>1. /\ UNCHANGED <<device, fits, preview, answered, console, period, copy, taken, got>>
      /\ phase' = "normal" /\ sends' = Audience!Closed(sends)
  BY DEF Audience!Resume
<1>2. sends \in [Audience!Slot -> PushRow \cup {None}]
      /\ got \in [Key \X (1..MaxPreviews) \X Device -> Nat]
  BY DEF ReviewIInv, AudienceDataOK
<1>3. /\ sends' \in [Audience!Slot -> PushRow \cup {None}]
      /\ \A s \in Audience!Slot : /\ sends'[s] # None <=> sends[s] # None
                                  /\ sends[s] # None
                                       => sends'[s].generation = sends[s].generation
                                       /\ sends'[s].state # "queued"
                                  /\ sends[s] # None /\ sends[s].state = "sent"
                                       => sends'[s] = sends[s]
  BY <1>1, <1>2, ClosedRows
<1>4. GotOnce'
  BY <1>1, <1>3, GotStays
<1>5. \A t \in Audience!Slot : sends'[t] # None => sends'[t].generation <= period
  BY <1>3 DEF ReviewIInv, RowsAreOfNow
<1> QED
  BY <1>1, <1>2, <1>3, <1>4, <1>5, RowsMove

\* A backup copies rows, receipts and previews that agree.
LEMMA BackupStep == ASSUME ReviewGiven, ReviewIInv, Audience!Backup PROVE ReviewIInv'
<1> DEFINE b == [device |-> device, fits |-> fits, preview |-> preview,
        row |-> sends, receipt |-> answered]
<1>1. /\ UNCHANGED <<device, fits, preview, sends, answered, console, period, phase, taken, got>>
      /\ copy' = b /\ period < MaxGeneration
  BY DEF Audience!Backup
<1>2. b \in Saved /\ b.row = sends /\ b.receipt = answered /\ b.preview = preview
  BY DEF ReviewIInv, AudienceDataOK, Saved
<1> HIDE DEF b
<1>3. AudienceDataOK'
  BY <1>1, <1>2 DEF ReviewIInv, AudienceDataOK
<1>4. Reviewed(sends, answered, preview)' /\ AudienceNumbered(preview)' /\ RowsAreOfNow'
      /\ ConsoleOK' /\ GotOnce'
  BY <1>1 DEF ReviewIInv, Reviewed, AudienceNumbered, RowsAreOfNow, ConsoleOK, GotOnce, OfSentRow,
  OfThePast
<1>5. BackupOK'
  BY <1>1, <1>2 DEF ReviewIInv, BackupOK, Reviewed, AudienceNumbered, RowsAreOfNow
<1> QED
  BY <1>3, <1>4, <1>5 DEF ReviewIInv

\* What a restore brings back is of the past, whatever was sent since.
LEMMA AudienceRestoreStep == ASSUME ReviewGiven, ReviewIInv, Audience!Restore PROVE ReviewIInv'
<1>1. /\ copy # None /\ period' = period + 1 /\ phase' = "restore_validation" /\ copy' = None
      /\ device' = copy.device /\ fits' = copy.fits /\ preview' = copy.preview
      /\ sends' = Audience!Closed(copy.row) /\ answered' = copy.receipt /\ console' = None
      /\ UNCHANGED <<taken, got>>
  BY DEF Audience!Restore
<1>2. copy \in Saved /\ period \in 1..MaxGeneration /\ period < MaxGeneration
      /\ MaxGeneration \in Nat
  BY <1>1 DEF ReviewIInv, AudienceDataOK, ReviewGiven
<1>3. /\ device' \in [Device -> {"absent", "live", "revoked"}] /\ fits' \subseteq Device
      /\ preview' \in Seq(Preview) /\ answered' \in [Key -> Nat \cup {None}]
      /\ copy.row \in [Audience!Slot -> PushRow \cup {None}]
  BY <1>1, <1>2 DEF Saved
<1>4. /\ sends' \in [Audience!Slot -> PushRow \cup {None}]
      /\ \A s \in Audience!Slot : /\ sends'[s] # None <=> copy.row[s] # None
                                  /\ copy.row[s] # None
                                       => /\ sends'[s].generation = copy.row[s].generation
                                          /\ sends'[s].state # "queued"
  BY <1>1, <1>3, ClosedRows
<1>5. /\ Reviewed(copy.row, copy.receipt, copy.preview) /\ AudienceNumbered(copy.preview)
      /\ \A s \in Audience!Slot : copy.row[s] # None => copy.row[s].generation <= period
  BY <1>1 DEF ReviewIInv, BackupOK
<1>6. AudienceDataOK'
  BY <1>1, <1>2, <1>3, <1>4 DEF ReviewIInv, AudienceDataOK
<1>7. Reviewed(sends, answered, preview)'
  BY <1>1, <1>4, <1>5 DEF Reviewed, Audience!Slot
<1>8. \A i \in DOMAIN preview' : preview'[i].generation < period' /\ preview'[i].no <= taken
  <2>1. \A i \in DOMAIN preview' : preview'[i] \in Preview
    BY <1>3
  <2>2. \A i \in DOMAIN preview' : preview'[i].generation <= period /\ preview'[i].no <= taken
    BY <1>1, <1>5 DEF AudienceNumbered
  <2> QED
    BY <1>1, <1>2, <2>1, <2>2 DEF Preview
<1>9. AudienceNumbered(preview)' /\ ConsoleOK' /\ BackupOK'
  <2>1. \A i \in DOMAIN preview' : preview'[i].generation <= period'
    <3> SUFFICES ASSUME NEW i \in DOMAIN preview' PROVE preview'[i].generation <= period'
      OBVIOUS
    <3>1. preview'[i] \in Preview
      BY <1>3
    <3>2. preview'[i].generation < period + 1 /\ preview'[i].generation \in Nat
      BY <1>1, <1>8, <3>1 DEF Preview
    <3> QED
      BY <1>1, <1>2, <3>2
  <2> QED
    BY <1>1, <1>5, <1>8, <2>1 DEF AudienceNumbered, ConsoleOK, BackupOK
<1>10. RowsAreOfNow'
  <2>1. \A s \in Audience!Slot : sends'[s] # None => sends'[s].generation < period'
        /\ sends'[s].generation \in Nat /\ sends'[s].state # "queued"
    BY <1>1, <1>2, <1>3, <1>4, <1>5 DEF PushRow
  <2> QED
    BY <1>1, <1>2, <2>1 DEF RowsAreOfNow
<1>11. GotOnce'
  BY <1>1, <1>8 DEF ReviewIInv, GotOnce, OfThePast
<1> QED
  BY <1>6, <1>7, <1>9, <1>10, <1>11 DEF ReviewIInv

\* Every step of the console and of the queue keeps the invariant.
LEMMA ReviewStep ==
  ASSUME ReviewGiven, ReviewIInv, [Audience!Next]_(Audience!vars)
  PROVE ReviewIInv'
<1>1. ASSUME NEW d \in Device, (\E fit \in BOOLEAN : Audience!Register(d, fit))
               \/ Audience!Revoke(d)
      PROVE  ReviewIInv'
  <2>1. /\ UNCHANGED <<preview, sends, answered, console, Audience!instance, got>>
        /\ device' \in [Device -> {"absent", "live", "revoked"}] /\ fits' \subseteq Device
    BY <1>1 DEF Audience!Register, Audience!Revoke, ReviewIInv, AudienceDataOK
  <2> QED
    BY <2>1, DeviceMoves
<1>2. CASE UNCHANGED Audience!vars
  BY <1>2, DeviceMoves DEF Audience!vars, Audience!instance, ReviewIInv, AudienceDataOK
<1> QED
  BY <1>1, <1>2, TakeStep, ExpireStep, ConsoleStep, InsertStep, EnqueueStep, DeliverStep, RetryStep,
     ResumeStep, BackupStep, AudienceRestoreStep, AudienceCounts DEF Audience!Next

\* The invariant holds from the first state on.
LEMMA ReviewInvariance == ASSUME ReviewGiven PROVE Audience!Spec => []ReviewIInv
<1>1. Audience!Init => ReviewIInv
  BY ReviewInit
<1>2. ReviewIInv /\ [Audience!Next]_(Audience!vars) => ReviewIInv'
  BY ReviewStep
<1> QED
  BY <1>1, <1>2, PTL DEF Audience!Spec

\* A send from the console has rows for exactly the devices of the preview that was reviewed,
\* or it has none, and with a restored copy the same.
THEOREM ReviewedOrNone == ASSUME ReviewGiven PROVE Audience!Spec => []Audience!ReviewedOrNothing
<1>1. ReviewIInv => Audience!ReviewedOrNothing
  <2> SUFFICES ASSUME ReviewIInv, NEW k \in Key
               PROVE  {d \in Device : sends[<<k, d>>] # None} =
                        IF answered[k] = None THEN {} ELSE preview[answered[k]].ids
    BY DEF Audience!ReviewedOrNothing
  <2>1. answered[k] # None => preview[answered[k]] \in Preview
    BY DEF ReviewIInv, AudienceDataOK, Reviewed
  <2> QED
    BY <2>1 DEF ReviewIInv, Reviewed, Preview
<1> QED
  BY <1>1, ReviewInvariance, PTL

\* No device gets a message of one reviewed send twice, though the rows and the receipt go
\* back to an older copy when the instance is restored.
THEOREM NoneTwice == ASSUME ReviewGiven PROVE Audience!Spec => []Audience!NobodyTwice
<1>1. ReviewIInv => Audience!NobodyTwice
  BY DEF ReviewIInv, AudienceDataOK, GotOnce, Audience!NobodyTwice
<1> QED
  BY <1>1, ReviewInvariance, PTL

(***************************************************************************)
(* PushCredentials.  A credential that was deleted stays deleted, so that  *)
(* a probe is of the row that it read; its verdict is of the version it    *)
(* read, and of no later answer.                                           *)
(***************************************************************************)
Verdict == {"none", "ok", "limited", "rejected", "unreachable", "not_implemented"}
CredentialRow == [version : Nat, active : BOOLEAN, verdict : Verdict, changed : Int,
                  sealed : BOOLEAN]
ProbeRow == [credential : Credential, version : Nat, answers : Nat, verdict : Verdict \cup {None}]

\* None is no row of either kind, no verdict, and no receipt.
KeysGiven ==
    /\ None \notin CredentialRow /\ None \notin ProbeRow /\ None \notin Verdict
    /\ \A c \in Credential : None # <<"delete", c>>

KeysTyped ==
    /\ credential \in [Credential -> CredentialRow \cup {None}]
    /\ probe \in [Prober -> ProbeRow \cup {None}]
    /\ answers \in [Credential -> Nat] /\ DOMAIN replies = Command

\* What was deleted does not come back, so that a probe is of the row that it read or of
\* none at all.
Deleted(c) == \E k \in Command : replies[k] = <<"delete", c>>
DeletedStays == \A c \in Credential : Deleted(c) => ~Keys!Exists(c)
ProbesAreOfRows ==
    \A p \in Prober : probe[p] # None =>
        LET c == probe[p].credential IN
          /\ Keys!Exists(c) \/ Deleted(c)
          /\ Keys!Exists(c) => /\ probe[p].version <= credential[c].version
                               /\ probe[p].version = credential[c].version =>
                                    probe[p].answers = answers[c]

VerdictsFollow ==
    \A c \in Credential : Keys!Exists(c) /\ credential[c].verdict # "none" =>
        credential[c].changed = answers[c] - 1
OneSends ==
    \A c, d \in Credential :
        Keys!Exists(c) /\ Keys!Exists(d) /\ credential[c].active /\ credential[d].active => c = d

KeysIInv == KeysTyped /\ DeletedStays /\ ProbesAreOfRows /\ VerdictsFollow /\ OneSends

\* Legacy credentials at most, and none that was judged.
LEMMA KeysInit == ASSUME KeysGiven, Keys!Init PROVE KeysIInv
<1>1. \A c \in Credential : credential[c] \in {None, Keys!Legacy}
  BY DEF Keys!Init
<1>2. Keys!Legacy = [version |-> 1, active |-> FALSE, verdict |-> "none", changed |-> 0,
                sealed |-> FALSE]
  <2>1. PICK n : n = [version |-> 1, active |-> FALSE, verdict |-> "none", changed |-> 0,
                      sealed |-> TRUE]
    OBVIOUS
  <2>2. Keys!Legacy = [n EXCEPT !.sealed = FALSE]
    BY <2>1 DEF Keys!Legacy, Keys!New
  <2> QED
    BY <2>1, <2>2
<1>3. Keys!Legacy \in CredentialRow
  BY <1>2 DEF CredentialRow, Verdict
<1>4. KeysTyped
  BY <1>3 DEF Keys!Init, KeysTyped
<1>5. DeletedStays
  BY DEF Keys!Init, DeletedStays, Deleted, KeysGiven
<1>6. ProbesAreOfRows
  BY DEF Keys!Init, ProbesAreOfRows
<1>7. VerdictsFollow /\ OneSends
  BY <1>1, <1>2 DEF VerdictsFollow, OneSends, Keys!Exists
<1> QED
  BY <1>4, <1>5, <1>6, <1>7 DEF KeysIInv

\* Rows that a step leaves, or moves on to a later version with the verdict they have; the
\* vendor's answers, the probes and what was deleted stay.
Onward(c) ==
    \/ credential'[c] = credential[c]
    \/ /\ Keys!Exists(c) /\ credential'[c] # None
       /\ credential'[c].version = credential[c].version + 1
       /\ credential'[c].verdict = credential[c].verdict
       /\ credential'[c].changed = credential[c].changed

\* A step of that kind keeps the invariant.
LEMMA OnwardStep ==
  ASSUME KeysGiven, KeysIInv, credential' \in [Credential -> CredentialRow \cup {None}],
         \A c \in Credential : Onward(c), UNCHANGED <<probe, answers>>,
         DOMAIN replies' = Command,
         \A c \in Credential : Deleted(c)' <=> Deleted(c),
         OneSends'
  PROVE  KeysIInv'
<1>1. \A c \in Credential : Keys!Exists(c)' <=> Keys!Exists(c)
  BY DEF Onward, Keys!Exists
<1>2. KeysTyped'
  BY DEF KeysIInv, KeysTyped
<1>3. DeletedStays'
  BY <1>1 DEF KeysIInv, DeletedStays
<1>4. VerdictsFollow'
  BY <1>1 DEF KeysIInv, VerdictsFollow, Onward
<1>5. ProbesAreOfRows'
  <2> SUFFICES ASSUME NEW p \in Prober, probe[p] # None, NEW c \in Credential,
                      c = probe[p].credential
               PROVE  /\ Keys!Exists(c)' \/ Deleted(c)'
                      /\ Keys!Exists(c)' =>
                           /\ probe[p].version <= credential'[c].version
                           /\ probe[p].version = credential'[c].version =>
                                probe[p].answers = answers[c]
    <3>1. \A p \in Prober : probe[p] # None => probe[p].credential \in Credential
      BY DEF KeysIInv, KeysTyped, ProbeRow
    <3> QED
      BY <3>1 DEF ProbesAreOfRows, Keys!Exists
  <2>1. /\ Keys!Exists(c) \/ Deleted(c)
        /\ Keys!Exists(c) => /\ probe[p].version <= credential[c].version
                             /\ probe[p].version = credential[c].version =>
                                  probe[p].answers = answers[c]
    BY DEF KeysIInv, ProbesAreOfRows
  <2>2. probe[p].version \in Nat /\ (Keys!Exists(c) => credential[c].version \in Nat)
    BY DEF KeysIInv, KeysTyped, ProbeRow, CredentialRow, Keys!Exists
  <2> QED
    BY <1>1, <2>1, <2>2 DEF Onward
<1> QED
  BY <1>2, <1>3, <1>4, <1>5 DEF KeysIInv

\* A receipt that is no deletion.
LEMMA OtherReceipt ==
  ASSUME KeysIInv, NEW k \in Command, NEW what, Keys!Execute(k, what), KeysGiven,
         \A c \in Credential : what # <<"delete", c>>
  PROVE  DOMAIN replies' = Command /\ \A c \in Credential : Deleted(c)' <=> Deleted(c)
<1>1. replies[k] = None /\ replies' = [replies EXCEPT ![k] = what] /\ DOMAIN replies = Command
  BY DEF Keys!Execute, KeysIInv, KeysTyped
<1>2. replies'[k] = what /\ \A j \in Command \ {k} : replies'[j] = replies[j]
  BY <1>1
<1> QED
  BY <1>1, <1>2 DEF Deleted, KeysGiven

\* A credential is created under a name that was never deleted.
LEMMA CreateKeyStep ==
  ASSUME KeysGiven, KeysIInv, NEW k \in Command, NEW c \in Credential, Keys!Create(k, c)
  PROVE  KeysIInv'
<1>1. /\ ~Keys!Exists(c) /\ ~Deleted(c) /\ Keys!Execute(k, <<"create", c>>)
      /\ credential' = [credential EXCEPT ![c] = Keys!New] /\ UNCHANGED <<probe, answers>>
  BY DEF Keys!Create, Deleted
<1>2. credential \in [Credential -> CredentialRow \cup {None}] /\ Keys!New \in CredentialRow
  BY DEF KeysIInv, KeysTyped, Keys!New, CredentialRow, Verdict
<1>3. /\ credential'[c] = Keys!New /\ \A d \in Credential \ {c} : credential'[d] = credential[d]
      /\ credential' \in [Credential -> CredentialRow \cup {None}]
  BY <1>1, <1>2
<1>4. DOMAIN replies' = Command /\ \A d \in Credential : Deleted(d)' <=> Deleted(d)
  <2>1. \A d \in Credential : <<"create", c>> # <<"delete", d>>
    OBVIOUS
  <2> QED
    BY <1>1, <2>1, OtherReceipt
<1>5. KeysTyped'
  BY <1>1, <1>3, <1>4 DEF KeysIInv, KeysTyped
<1>6. DeletedStays'
  BY <1>1, <1>3, <1>4 DEF KeysIInv, DeletedStays, Keys!Exists
<1>7. VerdictsFollow' /\ OneSends'
  BY <1>1, <1>3 DEF KeysIInv, VerdictsFollow, OneSends, Keys!Exists, Keys!New
<1>8. ProbesAreOfRows'
  <2> SUFFICES ASSUME NEW p \in Prober, probe[p] # None, NEW d \in Credential,
                      d = probe[p].credential
               PROVE  /\ Keys!Exists(d)' \/ Deleted(d)'
                      /\ Keys!Exists(d)' =>
                           /\ probe[p].version <= credential'[d].version
                           /\ probe[p].version = credential'[d].version =>
                                probe[p].answers = answers[d]
    <3>1. \A p \in Prober : probe[p] # None => probe[p].credential \in Credential
      BY DEF KeysIInv, KeysTyped, ProbeRow
    <3> QED
      BY <1>1, <3>1 DEF ProbesAreOfRows, Keys!Exists
  <2>1. d # c /\ (Keys!Exists(d) \/ Deleted(d))
    BY <1>1 DEF KeysIInv, ProbesAreOfRows
  <2> QED
    BY <1>3, <1>4, <2>1 DEF KeysIInv, ProbesAreOfRows, Keys!Exists
<1> QED
  BY <1>5, <1>6, <1>7, <1>8 DEF KeysIInv

\* A row that was updated is a row of the next version.
LEMMA BumpedRow ==
  ASSUME KeysIInv, NEW c \in Credential, Keys!Exists(c)
  PROVE  /\ Keys!Bumped(c) \in CredentialRow /\ Keys!Bumped(c).version = credential[c].version + 1
         /\ Keys!Bumped(c).active = credential[c].active
            /\ Keys!Bumped(c).verdict = credential[c].verdict
         /\ Keys!Bumped(c).changed = credential[c].changed
<1>1. credential[c] \in CredentialRow /\ credential[c].version + 1 \in Nat
  BY DEF KeysIInv, KeysTyped, Keys!Exists, CredentialRow
<1> QED
  BY <1>1 DEF Keys!Bumped, CredentialRow

\* Of one provider one credential is promoted, and the one before it steps back.
LEMMA ActivateStep ==
  ASSUME KeysGiven, KeysIInv, NEW k \in Command, NEW c \in Credential, NEW version,
         NEW force \in BOOLEAN, Keys!Activate(k, c, version, force)
  PROVE  KeysIInv'
<1>1. /\ Keys!Execute(k, <<"activate", c>>) /\ Keys!Exists(c) /\ UNCHANGED <<probe, answers>>
      /\ credential' = [d \in Credential |->
           IF d = c THEN [Keys!Bumped(c) EXCEPT !.active = TRUE]
           ELSE IF Keys!Exists(d)
           /\ credential[d].active THEN [Keys!Bumped(d) EXCEPT !.active = FALSE]
           ELSE credential[d]]
  BY DEF Keys!Activate
<1>2. ASSUME NEW d \in Credential, Keys!Exists(d), NEW b \in BOOLEAN
      PROVE  LET row == [Keys!Bumped(d) EXCEPT !.active = b] IN
               /\ row \in CredentialRow /\ row.version = credential[d].version + 1
               /\ row.verdict = credential[d].verdict /\ row.changed = credential[d].changed
               /\ row.active = b
  <2>1. PICK r \in CredentialRow : r = Keys!Bumped(d)
    BY <1>2, BumpedRow
  <2>2. LET row == [r EXCEPT !.active = b] IN
          /\ row \in CredentialRow /\ row.version = r.version
          /\ row.verdict = r.verdict /\ row.changed = r.changed /\ row.active = b
    BY DEF CredentialRow
  <2> QED
    BY <1>2, <2>1, <2>2, BumpedRow
<1>3. \A d \in Credential : credential[d] \in CredentialRow \cup {None}
  BY DEF KeysIInv, KeysTyped
<1>4. ASSUME NEW d \in Credential
      PROVE  /\ credential'[d] \in CredentialRow \cup {None} /\ Onward(d)
             /\ credential'[d] # None /\ credential'[d].active => d = c
  <2>1. CASE d = c
    <3>1. credential'[d] = [Keys!Bumped(d) EXCEPT !.active = TRUE]
      BY <1>1, <2>1
    <3> QED
      BY <1>1, <1>2, <2>1, <3>1 DEF Onward, KeysGiven
  <2>2. CASE d # c /\ Keys!Exists(d) /\ credential[d].active
    <3>1. credential'[d] = [Keys!Bumped(d) EXCEPT !.active = FALSE]
      BY <1>1, <2>2
    <3> QED
      BY <1>2, <2>2, <3>1, ZenonT(40) DEF Onward, KeysGiven
  <2>3. CASE d # c /\ ~(Keys!Exists(d) /\ credential[d].active)
    <3>1. credential'[d] = credential[d]
      BY <1>1, <2>3
    <3> QED
      BY <1>3, <2>3, <3>1 DEF Onward, Keys!Exists
  <2> QED
    BY <2>1, <2>2, <2>3
<1>5. credential' \in [Credential -> CredentialRow \cup {None}]
  <2>1. credential' = [d \in Credential |-> credential'[d]]
    BY <1>1
  <2> QED
    BY <1>4, <2>1
<1>6. OneSends'
  BY <1>4 DEF OneSends, Keys!Exists
<1>7. DOMAIN replies' = Command /\ \A d \in Credential : Deleted(d)' <=> Deleted(d)
  <2>1. \A d \in Credential : <<"activate", c>> # <<"delete", d>>
    OBVIOUS
  <2> QED
    BY <1>1, <2>1, OtherReceipt
<1> QED
  BY <1>1, <1>4, <1>5, <1>6, <1>7, OnwardStep

\* A credential is deleted, for good.
LEMMA KeysDeleteStep ==
  ASSUME KeysGiven, KeysIInv, NEW k \in Command, NEW c \in Credential, NEW version,
         Keys!Delete(k, c, version)
  PROVE  KeysIInv'
<1>1. /\ replies[k] = None /\ replies' = [replies EXCEPT ![k] = <<"delete", c>>]
      /\ credential' = [credential EXCEPT ![c] = None] /\ UNCHANGED <<probe, answers>>
      /\ DOMAIN replies = Command /\ credential \in [Credential -> CredentialRow \cup {None}]
  BY DEF Keys!Delete, Keys!Execute, KeysIInv, KeysTyped
<1>2. replies'[k] = <<"delete", c>> /\ \A j \in Command \ {k} : replies'[j] = replies[j]
  BY <1>1
<1>3. credential'[c] = None /\ \A d \in Credential \ {c} : credential'[d] = credential[d]
  BY <1>1
<1>4. Deleted(c)' /\ ~Keys!Exists(c)'
  BY <1>2, <1>3 DEF Deleted, Keys!Exists
<1>5. \A d \in Credential : Deleted(d) => Deleted(d)'
  BY <1>1, <1>2 DEF Deleted, KeysGiven
<1>6. \A d \in Credential \ {c} : Deleted(d)' => Deleted(d)
  BY <1>2 DEF Deleted
<1>7. KeysTyped'
  BY <1>1 DEF KeysIInv, KeysTyped
<1>8. DeletedStays'
  BY <1>3, <1>4, <1>6 DEF KeysIInv, DeletedStays, Keys!Exists
<1>9. VerdictsFollow' /\ OneSends'
  BY <1>1, <1>3 DEF KeysIInv, VerdictsFollow, OneSends, Keys!Exists
<1>10. ProbesAreOfRows'
  <2> SUFFICES ASSUME NEW p \in Prober, probe[p] # None, NEW d \in Credential,
                      d = probe[p].credential
               PROVE  /\ Keys!Exists(d)' \/ Deleted(d)'
                      /\ Keys!Exists(d)' =>
                           /\ probe[p].version <= credential'[d].version
                           /\ probe[p].version = credential'[d].version =>
                                probe[p].answers = answers[d]
    <3>1. \A p \in Prober : probe[p] # None => probe[p].credential \in Credential
      BY DEF KeysIInv, KeysTyped, ProbeRow
    <3> QED
      BY <1>1, <3>1 DEF ProbesAreOfRows, Keys!Exists
  <2>1. CASE d = c
    BY <1>4, <2>1
  <2>2. CASE d # c
    <3>1. credential'[d] = credential[d]
      BY <1>3, <2>2
    <3> QED
      BY <1>5, <3>1 DEF KeysIInv, ProbesAreOfRows, Keys!Exists
  <2> QED
    BY <2>1, <2>2
<1> QED
  BY <1>7, <1>8, <1>9, <1>10 DEF KeysIInv

\* Sealing is an update of the row like any other.
LEMMA SealStep ==
  ASSUME KeysGiven, KeysIInv, NEW c \in Credential, Keys!Seal(c) PROVE KeysIInv'
<1>1. /\ Keys!Exists(c) /\ UNCHANGED <<probe, replies, answers>>
      /\ credential' = [credential EXCEPT ![c] = [Keys!Bumped(c) EXCEPT !.sealed = TRUE]]
      /\ credential \in [Credential -> CredentialRow \cup {None}]
  BY DEF Keys!Seal, KeysIInv, KeysTyped
<1>2. PICK row : row = [Keys!Bumped(c) EXCEPT !.sealed = TRUE]
  OBVIOUS
<1>3. PICK r \in CredentialRow : r = Keys!Bumped(c)
  BY <1>1, BumpedRow
<1>4. /\ row \in CredentialRow /\ row.version = credential[c].version + 1
      /\ row.verdict = credential[c].verdict /\ row.changed = credential[c].changed
      /\ row.active = credential[c].active
  <2>1. /\ row \in CredentialRow /\ row.version = r.version /\ row.verdict = r.verdict
        /\ row.changed = r.changed /\ row.active = r.active
    BY <1>2, <1>3 DEF CredentialRow
  <2> QED
    BY <1>1, <1>3, <2>1, BumpedRow
<1>5. /\ credential'[c] = row /\ \A d \in Credential \ {c} : credential'[d] = credential[d]
      /\ credential' \in [Credential -> CredentialRow \cup {None}]
  BY <1>1, <1>2, <1>4
<1>6. \A d \in Credential : Onward(d)
  BY <1>1, <1>4, <1>5 DEF Onward, KeysGiven
<1>7. OneSends'
  BY <1>1, <1>4, <1>5 DEF KeysIInv, OneSends, Keys!Exists
<1>8. DOMAIN replies' = Command /\ \A d \in Credential : Deleted(d)' <=> Deleted(d)
  BY <1>1 DEF KeysIInv, KeysTyped, Deleted
<1> QED
  BY <1>1, <1>5, <1>6, <1>7, <1>8, OnwardStep

\* A probe that is new, or that has heard, or that ends.
LEMMA OneProbe ==
  ASSUME KeysGiven, KeysIInv, NEW p \in Prober, NEW a \in ProbeRow \cup {None},
         probe' = [probe EXCEPT ![p] = a], UNCHANGED <<credential, replies, answers>>,
         a # None => /\ Keys!Exists(a.credential) \/ Deleted(a.credential)
                     /\ Keys!Exists(a.credential) =>
                          /\ a.version <= credential[a.credential].version
                          /\ a.version = credential[a.credential].version =>
                               a.answers = answers[a.credential]
  PROVE  KeysIInv'
<1>1. probe \in [Prober -> ProbeRow \cup {None}]
  BY DEF KeysIInv, KeysTyped
<1>2. probe'[p] = a /\ \A q \in Prober \ {p} : probe'[q] = probe[q]
  BY <1>1
<1>3. ProbesAreOfRows'
  BY <1>2, ZenonT(40) DEF KeysIInv, ProbesAreOfRows, Keys!Exists, Deleted
<1> QED
  BY <1>1, <1>3 DEF KeysIInv, KeysTyped, DeletedStays, Deleted, VerdictsFollow, OneSends,
  Keys!Exists

\* A probe reads the credential it is to try.
LEMMA ReadStep ==
  ASSUME KeysGiven, KeysIInv, NEW p \in Prober, NEW c \in Credential, Keys!Read(p, c)
  PROVE  KeysIInv'
<1>1. PICK a : a = [credential |-> c, version |-> credential[c].version,
                    answers |-> answers[c], verdict |-> None]
  OBVIOUS
<1>2. /\ Keys!Exists(c) /\ probe' = [probe EXCEPT ![p] = a]
      /\ UNCHANGED <<credential, replies, answers>>
  BY <1>1 DEF Keys!Read
<1>3. credential[c].version \in Nat /\ answers[c] \in Nat
  BY <1>2 DEF KeysIInv, KeysTyped, CredentialRow, Keys!Exists
<1>4. a \in ProbeRow /\ a.credential = c /\ a.version = credential[c].version
      /\ a.answers = answers[c]
  BY <1>1, <1>3 DEF ProbeRow
<1>5. /\ Keys!Exists(a.credential) /\ a.version <= credential[a.credential].version
      /\ a.answers = answers[a.credential]
  BY <1>2, <1>3, <1>4 DEF Keys!Exists
<1> QED
  BY <1>2, <1>4, <1>5, OneProbe

\* The vendor answers a probe, and the probe keeps the version that it read.
LEMMA HearStep ==
  ASSUME KeysGiven, KeysIInv, NEW p \in Prober, Keys!Ask(p) PROVE KeysIInv'
<1>1. PICK v \in Keys!Verdicts(probe[p].credential) : probe' = [probe EXCEPT ![p].verdict = v]
  BY DEF Keys!Ask
<1>2. /\ probe[p] # None /\ UNCHANGED <<credential, replies, answers>>
      /\ probe \in [Prober -> ProbeRow \cup {None}]
  BY DEF Keys!Ask, KeysIInv, KeysTyped
<1>3. probe[p] \in ProbeRow /\ v \in Verdict
  BY <1>1, <1>2 DEF Keys!Verdicts, Verdict
<1>4. PICK a : a = [probe[p] EXCEPT !.verdict = v]
  OBVIOUS
<1>5. /\ a \in ProbeRow /\ a.credential = probe[p].credential
      /\ a.version = probe[p].version /\ a.answers = probe[p].answers
  BY <1>3, <1>4 DEF ProbeRow
<1>6. probe' = [probe EXCEPT ![p] = a]
  BY <1>1, <1>2, <1>4
<1> QED
  BY <1>2, <1>5, <1>6, OneProbe DEF KeysIInv, ProbesAreOfRows

\* A verdict is recorded beside the row that was read, of which nothing was heard since.
LEMMA RecordStep ==
  ASSUME KeysGiven, KeysIInv, NEW p \in Prober, Keys!Record(p) PROVE KeysIInv'
<1>1. /\ probe[p] # None /\ probe[p].verdict # None /\ probe' = [probe EXCEPT ![p] = None]
      /\ UNCHANGED replies /\ probe \in [Prober -> ProbeRow \cup {None}]
  BY DEF Keys!Record, KeysIInv, KeysTyped
<1>2. CASE ~Keys!Same(p)
  <2>1. UNCHANGED <<credential, answers>>
    BY <1>2 DEF Keys!Record
  <2> QED
    BY <1>1, <2>1, OneProbe
<1>3. CASE Keys!Same(p)
  <2>1. PICK a \in ProbeRow : a = probe[p]
    BY <1>1
  <2>2. PICK c \in Credential : c = a.credential
    BY <2>1 DEF ProbeRow
  <2>3. PICK row : row = [Keys!Bumped(c) EXCEPT !.verdict = a.verdict, !.changed = a.answers]
    OBVIOUS
  <2>4. /\ Keys!Exists(c) /\ credential[c].version = a.version
        /\ credential' = [credential EXCEPT ![c] = row]
        /\ answers' = [answers EXCEPT ![c] = answers[c] + 1]
    BY <1>3, <2>1, <2>2, <2>3 DEF Keys!Record, Keys!Same
  <2>5. /\ credential \in [Credential -> CredentialRow \cup {None}]
        /\ answers \in [Credential -> Nat] /\ credential[c] \in CredentialRow
    BY <2>4 DEF KeysIInv, KeysTyped, Keys!Exists
  <2>6. a.answers = answers[c] /\ a.answers \in Nat /\ a.verdict \in Verdict
    BY <1>1, <2>1, <2>2, <2>4 DEF KeysIInv, ProbesAreOfRows, ProbeRow
  <2>7. /\ row \in CredentialRow /\ row.version = credential[c].version + 1
        /\ row.changed = a.answers /\ row.active = credential[c].active
    <3>1. PICK r \in CredentialRow : r = Keys!Bumped(c)
      BY <2>4, BumpedRow
    <3>2. /\ row \in CredentialRow /\ row.version = r.version
          /\ row.changed = a.answers /\ row.active = r.active
      <4>1. PICK v \in Verdict, n \in Int : v = a.verdict /\ n = a.answers
        BY <2>6
      <4>2. row = [r EXCEPT !.verdict = v, !.changed = n]
        BY <2>3, <3>1, <4>1
      <4> QED
        BY <3>1, <4>1, <4>2 DEF CredentialRow
    <3> QED
      BY <2>4, <3>1, <3>2, BumpedRow
  <2>8. /\ credential'[c] = row /\ answers'[c] = answers[c] + 1
        /\ \A d \in Credential \ {c} : credential'[d] = credential[d] /\ answers'[d] = answers[d]
    BY <2>4, <2>5
  <2>9. \A d \in Credential : (Keys!Exists(d)' <=> Keys!Exists(d)) /\ (Deleted(d)' <=> Deleted(d))
    BY <1>1, <2>4, <2>7, <2>8 DEF Keys!Exists, Deleted, KeysGiven
  <2>10. KeysTyped'
    BY <1>1, <2>4, <2>5, <2>7 DEF KeysIInv, KeysTyped
  <2>11. DeletedStays'
    BY <2>9 DEF KeysIInv, DeletedStays
  <2>12. VerdictsFollow'
    <3> SUFFICES ASSUME NEW d \in Credential, Keys!Exists(d), credential'[d].verdict # "none"
                 PROVE  credential'[d].changed = answers'[d] - 1
      BY <2>9 DEF VerdictsFollow
    <3>1. CASE d = c
      BY <2>5, <2>6, <2>7, <2>8, <3>1
    <3>2. CASE d # c
      BY <2>8, <3>2 DEF KeysIInv, VerdictsFollow
    <3> QED
      BY <3>1, <3>2
  <2>13. OneSends'
    BY <2>7, <2>8, <2>9 DEF KeysIInv, OneSends
  <2>14. ProbesAreOfRows'
    <3> SUFFICES ASSUME NEW q \in Prober, q # p, probe[q] # None, NEW d \in Credential,
                        d = probe[q].credential
                 PROVE  /\ Keys!Exists(d)' \/ Deleted(d)'
                        /\ Keys!Exists(d)' =>
                             /\ probe[q].version <= credential'[d].version
                             /\ probe[q].version = credential'[d].version =>
                                  probe[q].answers = answers'[d]
      <4>1. \A q \in Prober : probe'[q] # None => q # p /\ probe'[q] = probe[q]
        BY <1>1
      <4>2. \A q \in Prober : probe[q] # None => probe[q].credential \in Credential
        BY DEF KeysIInv, KeysTyped, ProbeRow
      <4> QED
        BY <4>1, <4>2 DEF ProbesAreOfRows, Keys!Exists
    <3>1. /\ Keys!Exists(d) \/ Deleted(d)
          /\ Keys!Exists(d) => /\ probe[q].version <= credential[d].version
                               /\ probe[q].version = credential[d].version =>
                                    probe[q].answers = answers[d]
      BY DEF KeysIInv, ProbesAreOfRows
    <3>2. probe[q].version \in Nat /\ credential[c].version \in Nat
      BY <2>5 DEF KeysIInv, KeysTyped, ProbeRow, CredentialRow
    <3>3. CASE d = c
      <4>1. probe[q].version <= credential[c].version
        BY <2>4, <3>1, <3>3
      <4>2. credential'[d].version = credential[c].version + 1
        BY <2>7, <2>8, <3>3
      <4> QED
        BY <2>9, <3>1, <3>2, <4>1, <4>2
    <3>4. CASE d # c
      BY <2>8, <2>9, <3>1, <3>4
    <3> QED
      BY <3>3, <3>4
  <2> QED
    BY <2>10, <2>11, <2>12, <2>13, <2>14 DEF KeysIInv
<1> QED
  BY <1>2, <1>3

\* Every step of the credentials keeps the invariant.
LEMMA KeysKeysStep == ASSUME KeysGiven, KeysIInv, [Keys!Next]_(Keys!vars) PROVE KeysIInv'
<1>1. ASSUME NEW p \in Prober, Keys!Drop(p) PROVE KeysIInv'
  BY <1>1, OneProbe DEF Keys!Drop
<1>2. CASE UNCHANGED Keys!vars
  BY <1>2 DEF Keys!vars, KeysIInv, KeysTyped, DeletedStays, Deleted, ProbesAreOfRows,
  VerdictsFollow,
              OneSends, Keys!Exists
<1> QED
  BY <1>1, <1>2, CreateKeyStep, ActivateStep, KeysDeleteStep, SealStep, ReadStep, HearStep,
     RecordStep DEF Keys!Next

\* At most one of the rows that are equal to one another.
LEMMA KeysShow == ASSUME KeysIInv PROVE Keys!VerdictsInOrder
<1> DEFINE S == {c \in Credential : Keys!Exists(c) /\ credential[c].active}
<1>1. Cardinality(S) <= 1
  <2>1. CASE S = {}
    <3>1. Cardinality({}) = 0
      BY FS_EmptySet
    <3> QED
      BY <2>1, <3>1
  <2>2. CASE S # {}
    <3>1. PICK c : c \in S
      BY <2>2
    <3>2. S = {c}
      BY <3>1 DEF KeysIInv, OneSends
    <3>3. Cardinality({c}) = 1
      BY FS_Singleton
    <3> QED
      BY <3>2, <3>3
  <2> QED
    BY <2>1, <2>2
<1> QED
  BY <1>1, KeysCounts DEF KeysIInv, VerdictsFollow, Keys!VerdictsInOrder

\* A verdict answers a question asked after the one before it was recorded; one sends.
THEOREM VerdictsFollowQuestions == ASSUME KeysGiven PROVE Keys!Spec => []Keys!VerdictsInOrder
<1>1. Keys!Init => KeysIInv
  BY KeysInit
<1>2. KeysIInv /\ [Keys!Next]_(Keys!vars) => KeysIInv'
  BY KeysKeysStep
<1>3. KeysIInv => Keys!VerdictsInOrder
  BY KeysShow
<1> QED
  BY <1>1, <1>2, <1>3, PTL DEF Keys!Spec

(***************************************************************************)
(* PushDispatch.  Each target of a dispatch waits, is being asked about or *)
(* is counted under one answer; a token that is quarantined was condemned  *)
(* by an answer of the vendor.                                             *)
(***************************************************************************)
TokenRow == [user : User \cup {None}, quarantined : BOOLEAN]
DispatchRow == [aim : SUBSET Device, left : SUBSET Device, now : Device \cup {None},
                said : Fleet!Outcome \cup {None}, at : {"running", "ok", "error"}, sent : Nat,
                refused : Nat, limited : Nat, barred : SUBSET Device]

\* A project has finitely many devices, and None is no device, answer or row.
FleetGiven ==
    /\ IsFiniteSet(Device) /\ None \notin Device /\ None \notin Fleet!Outcome
    /\ None \notin TokenRow /\ None \notin DispatchRow

FleetTyped ==
    /\ tokens \in [Device -> TokenRow \cup {None}] /\ condemned \subseteq Device
    /\ dispatch \in [Dispatch -> DispatchRow \cup {None}]
    /\ reached \in [Dispatch -> SUBSET Device]

\* How far a dispatch is: a target waits, is being asked about, or is counted, and the
\* accepted are those that are counted as sent, or will be.
Sound(D, A, dead) ==
    /\ D.left \subseteq D.aim /\ A \subseteq D.aim \ D.left /\ D.aim \cap D.barred = {}
    /\ D.now # None => D.now \in D.aim \ D.left /\ (D.said # "sent" => D.now \notin A)
    /\ D.said # None => D.now # None
    /\ D.at # "running" => D.now = None
    /\ D.at = "ok" => D.left = {}
    /\ D.said = "dead" => D.now \in dead
    /\ Cardinality(A) = D.sent + (IF D.said = "sent" THEN 1 ELSE 0)
    /\ Cardinality(D.aim) = D.sent + D.refused + D.limited + Cardinality(D.left)
                              + (IF D.now # None THEN 1 ELSE 0)
DispatchesAreSound ==
    \A d \in Dispatch : IF dispatch[d] = None THEN reached[d] = {}
                        ELSE Sound(dispatch[d], reached[d], condemned)

FleetIInv == FleetTyped /\ DispatchesAreSound /\ Fleet!OnlyDeadAreBarred

\* Sets of devices are finite; taking one out, or adding one, counts one.
LEMMA FleetSets ==
  ASSUME FleetGiven, NEW S \in SUBSET Device
  PROVE  /\ Cardinality(S) \in Nat /\ Cardinality({}) = 0
         /\ \A t \in S : Cardinality(S) = Cardinality(S \ {t}) + 1
         /\ \A t \in Device \ S : Cardinality(S \cup {t}) = Cardinality(S) + 1
<1>1. IsFiniteSet(S)
  BY FS_Subset DEF FleetGiven
<1>2. Cardinality(S) \in Nat
  BY <1>1, FS_CardinalityType
<1>3. \A t \in S : Cardinality(S \ {t}) = Cardinality(S) - 1
  BY <1>1, FS_RemoveElement
<1>4. \A t \in Device \ S : Cardinality(S \cup {t}) = Cardinality(S) + 1
  BY <1>1, FS_AddElement
<1>5. Cardinality({}) = 0
  BY FS_EmptySet
<1> QED
  BY <1>2, <1>3, <1>4, <1>5

\* No dispatch has begun, and no token is barred.
LEMMA FleetInit == ASSUME FleetGiven, Fleet!Init PROVE FleetIInv
<1>1. FleetTyped /\ DispatchesAreSound
  BY DEF Fleet!Init, FleetTyped, DispatchesAreSound
<1>2. Fleet!OnlyDeadAreBarred
  BY DEF Fleet!Init, Fleet!OnlyDeadAreBarred, Fleet!Quarantined
<1> QED
  BY <1>1, <1>2 DEF FleetIInv

\* One dispatch goes on, and vendors condemn no fewer devices.
LEMMA OneDispatch ==
  ASSUME FleetGiven, FleetIInv, NEW d \in Dispatch, NEW D \in DispatchRow,
         NEW A \in SUBSET Device, dispatch' = [dispatch EXCEPT ![d] = D],
         reached' = [reached EXCEPT ![d] = A], Sound(D, A, condemned'),
         condemned \subseteq condemned', condemned' \subseteq Device,
         tokens' \in [Device -> TokenRow \cup {None}], Fleet!OnlyDeadAreBarred'
  PROVE  FleetIInv'
<1>1. /\ dispatch \in [Dispatch -> DispatchRow \cup {None}]
      /\ reached \in [Dispatch -> SUBSET Device]
  BY DEF FleetIInv, FleetTyped
<1>2. FleetTyped'
  BY <1>1 DEF FleetTyped
<1>3. ASSUME NEW e \in Dispatch
      PROVE  IF dispatch'[e] = None THEN reached'[e] = {}
             ELSE Sound(dispatch'[e], reached'[e], condemned')
  <2>1. CASE e = d
    <3>1. dispatch'[e] = D /\ reached'[e] = A /\ D # None
      BY <1>1, <2>1 DEF FleetGiven
    <3> QED
      BY <3>1
  <2>2. CASE e # d
    <3>1. dispatch'[e] = dispatch[e] /\ reached'[e] = reached[e]
      BY <1>1, <2>2
    <3>2. IF dispatch[e] = None THEN reached[e] = {}
          ELSE Sound(dispatch[e], reached[e], condemned)
      BY DEF FleetIInv, DispatchesAreSound
    <3>3. Sound(dispatch[e], reached[e], condemned) => Sound(dispatch[e], reached[e], condemned')
      BY DEF Sound
    <3> QED
      BY <3>1, <3>2, <3>3
  <2> QED
    BY <2>1, <2>2
<1>4. DispatchesAreSound'
  BY <1>3 DEF DispatchesAreSound
<1> QED
  BY <1>2, <1>4 DEF FleetIInv

\* A dispatch that goes on has a row, and what is known of it.
LEMMA UnderWay ==
  ASSUME FleetGiven, FleetIInv, NEW d \in Dispatch, Fleet!Running(d)
  PROVE  /\ dispatch[d] \in DispatchRow /\ reached[d] \in SUBSET Device
         /\ Sound(dispatch[d], reached[d], condemned)
         /\ dispatch[d].at = "running"
  BY DEF FleetIInv, FleetTyped, DispatchesAreSound, Fleet!Running

\* Nor does any dispatch.
LEMMA SameDispatches ==
  ASSUME FleetGiven, FleetIInv, UNCHANGED <<dispatch, reached, condemned>>,
         tokens' \in [Device -> TokenRow \cup {None}], Fleet!OnlyDeadAreBarred'
  PROVE  FleetIInv'
  BY DEF FleetIInv, FleetTyped, DispatchesAreSound

\* A device registers, or registers anew: its row is its own again.
LEMMA RegisterStep ==
  ASSUME FleetGiven, FleetIInv, NEW t \in Device, NEW user \in User \cup {None},
         Fleet!Register(t, user)
  PROVE  FleetIInv'
<1>1. tokens \in [Device -> TokenRow \cup {None}]
  BY DEF FleetIInv, FleetTyped
<1>2. PICK v : /\ v = [user |-> IF user # None THEN user
                                ELSE IF tokens[t] # None THEN tokens[t].user ELSE None,
                       quarantined |-> FALSE]
               /\ tokens' = [tokens EXCEPT ![t] = v]
  BY DEF Fleet!Register
<1>3. v \in TokenRow /\ ~v.quarantined
  BY <1>1, <1>2 DEF TokenRow
<1>4. tokens' \in [Device -> TokenRow \cup {None}]
  BY <1>1, <1>2, <1>3
<1>5. tokens'[t] = v /\ \A x \in Device \ {t} : tokens'[x] = tokens[x]
  BY <1>1, <1>2
<1>6. Fleet!OnlyDeadAreBarred'
  BY <1>3, <1>5 DEF Fleet!Register, FleetIInv, Fleet!OnlyDeadAreBarred, Fleet!Quarantined
<1> QED
  BY <1>4, <1>6, SameDispatches DEF Fleet!Register

\* A device is forgotten.
LEMMA ForgetStep ==
  ASSUME FleetGiven, FleetIInv, NEW t \in Device, Fleet!Forget(t) PROVE FleetIInv'
<1>1. tokens \in [Device -> TokenRow \cup {None}] /\ tokens' = [tokens EXCEPT ![t] = None]
  BY DEF FleetIInv, FleetTyped, Fleet!Forget
<1>2. tokens' \in [Device -> TokenRow \cup {None}]
  BY <1>1
<1>3. tokens'[t] = None /\ \A x \in Device \ {t} : tokens'[x] = tokens[x]
  BY <1>1
<1>4. Fleet!OnlyDeadAreBarred'
  BY <1>3 DEF Fleet!Forget, FleetIInv, Fleet!OnlyDeadAreBarred, Fleet!Quarantined
<1> QED
  BY <1>2, <1>4, SameDispatches DEF Fleet!Forget

\* The targets are alive when a dispatch begins, and none of them is done.
LEMMA BeginStep ==
  ASSUME FleetGiven, FleetIInv, NEW d \in Dispatch, NEW by \in {"token", "kind", "user"},
         NEW x, Fleet!Begin(d, by, x)
  PROVE  FleetIInv'
<1>1. PICK S : S = Fleet!Targets(by, x)
  OBVIOUS
<1>2. S \in SUBSET Device /\ \A t \in S : Fleet!Live(t)
  BY <1>1 DEF Fleet!Targets
<1>3. PICK D : D = [aim |-> S, left |-> S, now |-> None, said |-> None, at |-> "running",
                    sent |-> 0, refused |-> 0, limited |-> 0,
                    barred |-> {t \in Device : Fleet!Quarantined(t)}]
  OBVIOUS
<1>4. /\ dispatch[d] = None /\ dispatch' = [dispatch EXCEPT ![d] = D]
      /\ UNCHANGED <<tokens, vault, spent, reached, condemned>>
  BY <1>1, <1>3 DEF Fleet!Begin
<1>5. D \in DispatchRow
  BY <1>2, <1>3 DEF DispatchRow
<1>6. reached[d] = {} /\ reached \in [Dispatch -> SUBSET Device]
  BY <1>4 DEF FleetIInv, DispatchesAreSound, FleetTyped
<1>7. reached' = [reached EXCEPT ![d] = {}]
  BY <1>4, <1>6
<1>8. Sound(D, {}, condemned')
  <2>1. D.aim \cap D.barred = {}
    BY <1>2, <1>3 DEF Fleet!Live, Fleet!Quarantined
  <2>2. Cardinality(S) \in Nat /\ Cardinality({}) = 0
    BY <1>2, FleetSets
  <2> QED
    BY <1>2, <1>3, <2>1, <2>2 DEF Sound, FleetGiven, Fleet!Outcome
<1>9. condemned' \subseteq Device /\ tokens' \in [Device -> TokenRow \cup {None}]
  BY <1>4 DEF FleetIInv, FleetTyped
<1>10. Fleet!OnlyDeadAreBarred'
  BY <1>4 DEF FleetIInv, Fleet!OnlyDeadAreBarred, Fleet!Quarantined
<1> QED
  BY <1>4, <1>5, <1>7, <1>8, <1>9, <1>10, OneDispatch

\* A target that the limiter stops is counted.
LEMMA SkipStep ==
  ASSUME FleetGiven, FleetIInv, NEW d \in Dispatch, NEW t \in Device, Fleet!SkipLimited(d, t)
  PROVE  FleetIInv'
<1>1. PICK D : D = dispatch[d]
  OBVIOUS
<1>2. PICK E : E = [D EXCEPT !.left = D.left \ {t}, !.limited = D.limited + 1]
  OBVIOUS
<1>3. /\ Fleet!Running(d) /\ D.now = None /\ t \in D.left
      /\ UNCHANGED <<tokens, vault, spent, reached, condemned>>
  BY <1>1 DEF Fleet!SkipLimited, Fleet!Free
<1>4. D \in DispatchRow /\ reached[d] \in SUBSET Device /\ Sound(D, reached[d], condemned)
      /\ D.at = "running"
  BY <1>1, <1>3, UnderWay
<1>5. dispatch' = [dispatch EXCEPT ![d] = E]
  BY <1>1, <1>2, <1>4 DEF Fleet!SkipLimited, FleetIInv, FleetTyped
<1>6. /\ E \in DispatchRow /\ E.aim = D.aim /\ E.left = D.left \ {t} /\ E.now = D.now
      /\ E.said = D.said /\ E.at = D.at /\ E.sent = D.sent /\ E.refused = D.refused
      /\ E.limited = D.limited + 1 /\ E.barred = D.barred
  <2>1. D.limited + 1 \in Nat
    BY <1>4 DEF DispatchRow
  <2>2. PICK n \in Nat : n = D.limited + 1
    BY <2>1
  <2> QED
    BY <1>2, <1>4, <2>2 DEF DispatchRow
<1>7. Sound(E, reached[d], condemned')
  <2>1. Cardinality(D.left) = Cardinality(D.left \ {t}) + 1
        /\ Cardinality(D.left \ {t}) \in Nat
    <3>1. D.left \in SUBSET Device /\ D.left \ {t} \in SUBSET Device
      BY <1>4 DEF DispatchRow
    <3> QED
      BY <1>3, <3>1, FleetSets
  <2>2. D.sent \in Nat /\ D.refused \in Nat /\ D.limited \in Nat
    BY <1>4 DEF DispatchRow
  <2> QED
    BY <1>3, <1>4, <1>6, <2>1, <2>2 DEF Sound
<1>8. reached' = [reached EXCEPT ![d] = reached[d]]
  BY <1>3 DEF FleetIInv, FleetTyped
<1>9. condemned' \subseteq Device /\ tokens' \in [Device -> TokenRow \cup {None}]
  BY <1>3 DEF FleetIInv, FleetTyped
<1>10. Fleet!OnlyDeadAreBarred'
  BY <1>3 DEF FleetIInv, Fleet!OnlyDeadAreBarred, Fleet!Quarantined
<1> QED
  BY <1>3, <1>4, <1>5, <1>6, <1>7, <1>8, <1>9, <1>10, OneDispatch

\* The vendor is asked about a target, or the dispatch ends in an error.
LEMMA AskTargetStep ==
  ASSUME FleetGiven, FleetIInv, NEW d \in Dispatch, NEW t \in Device, Fleet!Ask(d, t)
  PROVE  FleetIInv'
<1>1. PICK D : D = dispatch[d]
  OBVIOUS
<1>2. PICK E : E = IF Fleet!Ready(t) THEN Fleet!Asked(D, t) ELSE [D EXCEPT !.at = "error"]
  OBVIOUS
<1>3. /\ Fleet!Running(d) /\ D.now = None /\ t \in D.left
      /\ UNCHANGED <<tokens, vault, reached, condemned>>
  BY <1>1 DEF Fleet!Ask, Fleet!Free
<1>4. D \in DispatchRow /\ reached[d] \in SUBSET Device /\ Sound(D, reached[d], condemned)
      /\ D.at = "running"
  BY <1>1, <1>3, UnderWay
<1>5. dispatch' = [dispatch EXCEPT ![d] = E]
  BY <1>1, <1>2, <1>4 DEF Fleet!Ask, FleetIInv, FleetTyped
<1>6. /\ E \in DispatchRow /\ E.aim = D.aim /\ E.said = D.said /\ E.sent = D.sent
      /\ E.refused = D.refused /\ E.limited = D.limited /\ E.barred = D.barred
      /\ \/ E.left = D.left \ {t} /\ E.now = t /\ E.at = D.at
         \/ E.left = D.left /\ E.now = D.now /\ E.at = "error"
  BY <1>2, <1>4 DEF DispatchRow, Fleet!Asked
<1>7. Sound(E, reached[d], condemned')
  <2>1. Cardinality(D.left) = Cardinality(D.left \ {t}) + 1
        /\ Cardinality(D.left \ {t}) \in Nat
    <3>1. D.left \in SUBSET Device /\ D.left \ {t} \in SUBSET Device
      BY <1>4 DEF DispatchRow
    <3> QED
      BY <1>3, <3>1, FleetSets
  <2>2. /\ D.sent \in Nat /\ D.refused \in Nat /\ D.limited \in Nat /\ t # None
        /\ t \in D.aim /\ t \notin reached[d] /\ D.said = None
    BY <1>3, <1>4 DEF DispatchRow, FleetGiven, Sound
  <2>3. None # "sent" /\ None # "dead"
    BY DEF FleetGiven, Fleet!Outcome
  <2>4. /\ E.left \subseteq E.aim /\ reached[d] \subseteq E.aim \ E.left
        /\ E.aim \cap E.barred = {} /\ (E.now # None => E.now \in E.aim \ E.left)
        /\ E.now # None => E.now \notin reached[d]
    BY <1>3, <1>4, <1>6, <2>2 DEF Sound
  <2>5. /\ E.said = None /\ (E.at # "running" => E.now = None) /\ E.at # "ok"
    BY <1>3, <1>4, <1>6, <2>2
  <2>6. /\ Cardinality(reached[d]) = E.sent + 0
        /\ Cardinality(E.aim) = E.sent + E.refused + E.limited + Cardinality(E.left)
                                   + (IF E.now # None THEN 1 ELSE 0)
    <3>1. /\ Cardinality(reached[d]) = D.sent + 0
          /\ Cardinality(D.aim) = D.sent + D.refused + D.limited + Cardinality(D.left) + 0
      BY <1>3, <1>4, <2>2, <2>3 DEF Sound
    <3>2. CASE E.left = D.left \ {t} /\ E.now = t
      <4>1. Cardinality(E.left) \in Nat /\ Cardinality(D.left) = Cardinality(E.left) + 1
        BY <2>1, <3>2
      <4>2. Cardinality(D.aim) = D.sent + D.refused + D.limited + Cardinality(E.left) + 1
        BY <2>2, <3>1, <4>1
      <4> QED
        BY <1>6, <2>2, <3>1, <3>2, <4>2
    <3>3. CASE E.left = D.left /\ E.now = D.now
      BY <1>3, <1>6, <3>1, <3>3
    <3> QED
      BY <1>6, <3>2, <3>3
  <2> QED
    BY <1>3, <2>3, <2>4, <2>5, <2>6 DEF Sound
<1>8. reached' = [reached EXCEPT ![d] = reached[d]]
  BY <1>3 DEF FleetIInv, FleetTyped
<1>9. condemned' \subseteq Device /\ tokens' \in [Device -> TokenRow \cup {None}]
  BY <1>3 DEF FleetIInv, FleetTyped
<1>10. Fleet!OnlyDeadAreBarred'
  BY <1>3 DEF FleetIInv, Fleet!OnlyDeadAreBarred, Fleet!Quarantined
<1> QED
  BY <1>3, <1>4, <1>5, <1>6, <1>7, <1>8, <1>9, <1>10, OneDispatch

\* The vendor takes the message, condemns the device, or refuses otherwise.
LEMMA AnswerStep ==
  ASSUME FleetGiven, FleetIInv, NEW d \in Dispatch, NEW outcome \in Fleet!Outcome,
         Fleet!Answer(d, outcome)
  PROVE  FleetIInv'
<1>1. PICK D : D = dispatch[d]
  OBVIOUS
<1>2. PICK E : E = [D EXCEPT !.said = outcome]
  OBVIOUS
<1>3. /\ Fleet!Running(d) /\ D.now # None /\ D.said = None
      /\ condemned' = IF outcome = "dead" THEN condemned \cup {D.now} ELSE condemned
      /\ UNCHANGED <<tokens, vault, spent>>
  BY <1>1 DEF Fleet!Answer
<1>4. D \in DispatchRow /\ reached[d] \in SUBSET Device /\ Sound(D, reached[d], condemned)
      /\ D.at = "running"
  BY <1>1, <1>3, UnderWay
<1>5. PICK A : A = IF outcome = "sent" THEN reached[d] \cup {D.now} ELSE reached[d]
  OBVIOUS
<1>6. dispatch' = [dispatch EXCEPT ![d] = E] /\ reached' = [reached EXCEPT ![d] = A]
  BY <1>1, <1>2, <1>4, <1>5 DEF Fleet!Answer, FleetIInv, FleetTyped
<1>7. /\ E \in DispatchRow /\ E.aim = D.aim /\ E.left = D.left /\ E.now = D.now
      /\ E.said = outcome /\ E.at = D.at /\ E.sent = D.sent /\ E.refused = D.refused
      /\ E.limited = D.limited /\ E.barred = D.barred
  BY <1>2, <1>4 DEF DispatchRow
<1>8. D.now \in Device /\ A \in SUBSET Device
  BY <1>3, <1>4, <1>5 DEF DispatchRow
<1>9. D.now \in D.aim \ D.left /\ D.now \notin reached[d]
  BY <1>3, <1>4 DEF Sound, FleetGiven, Fleet!Outcome
<1>10. Sound(E, A, condemned')
  <2>1. /\ D.sent \in Nat /\ D.refused \in Nat /\ D.limited \in Nat
        /\ Cardinality(reached[d]) = D.sent /\ outcome # None
    BY <1>3, <1>4 DEF DispatchRow, Sound, FleetGiven, Fleet!Outcome
  <2>2. Cardinality(A) = D.sent + (IF outcome = "sent" THEN 1 ELSE 0)
    <3>1. Cardinality(reached[d] \cup {D.now}) = Cardinality(reached[d]) + 1
      BY <1>4, <1>8, <1>9, FleetSets
    <3> QED
      BY <1>5, <2>1, <3>1
  <2> QED
    BY <1>3, <1>4, <1>5, <1>7, <1>9, <2>1, <2>2 DEF Sound
<1>11. condemned \subseteq condemned' /\ condemned' \subseteq Device
       /\ tokens' \in [Device -> TokenRow \cup {None}]
  BY <1>3, <1>8 DEF FleetIInv, FleetTyped
<1>12. Fleet!OnlyDeadAreBarred'
  BY <1>3, <1>11 DEF FleetIInv, Fleet!OnlyDeadAreBarred, Fleet!Quarantined
<1> QED
  BY <1>6, <1>7, <1>8, <1>10, <1>11, <1>12, OneDispatch

\* The outcome is counted, and the row of a dead device is barred if it is there.
LEMMA NoteStep ==
  ASSUME FleetGiven, FleetIInv, NEW d \in Dispatch, NEW written \in BOOLEAN, Fleet!Note(d, written)
  PROVE  FleetIInv'
<1>1. PICK D : D = dispatch[d]
  OBVIOUS
<1>2. PICK E : E = Fleet!Counted(D)
  OBVIOUS
<1>3. /\ Fleet!Running(d) /\ D.said # None /\ UNCHANGED <<vault, spent, reached, condemned>>
      /\ tokens' = IF D.said = "dead" /\ written /\ tokens[D.now] # None
                  THEN [tokens EXCEPT ![D.now].quarantined = TRUE] ELSE tokens
  BY <1>1 DEF Fleet!Note, Fleet!ShouldQuarantine
<1>4. D \in DispatchRow /\ reached[d] \in SUBSET Device /\ Sound(D, reached[d], condemned)
      /\ D.at = "running"
  BY <1>1, <1>3, UnderWay
<1>5. dispatch' = [dispatch EXCEPT ![d] = E]
  BY <1>1, <1>2, <1>4 DEF Fleet!Note, FleetIInv, FleetTyped
<1>6. /\ E \in DispatchRow /\ E.aim = D.aim /\ E.left = D.left /\ E.now = None
      /\ E.said = None /\ E.at = D.at /\ E.barred = D.barred /\ E.limited = D.limited
      /\ E.sent = (IF D.said = "sent" THEN D.sent + 1 ELSE D.sent)
      /\ E.refused = (IF D.said = "sent" THEN D.refused ELSE D.refused + 1)
  <2>1. D.sent \in Nat /\ D.refused \in Nat
    BY <1>4 DEF DispatchRow
  <2>2. /\ E.aim = D.aim /\ E.left = D.left /\ E.now = None
        /\ E.said = None /\ E.at = D.at /\ E.barred = D.barred /\ E.limited = D.limited
        /\ E.sent = (IF D.said = "sent" THEN D.sent + 1 ELSE D.sent)
        /\ E.refused = (IF D.said = "sent" THEN D.refused ELSE D.refused + 1)
    BY <1>2, <1>4 DEF DispatchRow, Fleet!Counted
  <2>3. E \in DispatchRow
    <3>1. E = [aim |-> D.aim, left |-> D.left, now |-> None, said |-> None, at |-> D.at,
               sent |-> E.sent, refused |-> E.refused, limited |-> D.limited,
               barred |-> D.barred]
      BY <1>2, <1>4 DEF DispatchRow, Fleet!Counted
    <3> QED
      BY <1>4, <2>1, <2>2, <3>1 DEF DispatchRow
  <2> QED
    BY <2>2, <2>3
<1>7. D.now # None /\ D.now \in Device
  BY <1>3, <1>4 DEF Sound, DispatchRow
<1>8. Sound(E, reached[d], condemned')
  <2>1. D.sent \in Nat /\ D.refused \in Nat /\ D.limited \in Nat /\ Cardinality(D.left) \in Nat
    <3>1. D.left \in SUBSET Device
      BY <1>4 DEF DispatchRow
    <3> QED
      BY <1>4, <3>1, FleetSets DEF DispatchRow
  <2>2. None # "sent" /\ None # "dead"
    BY DEF FleetGiven, Fleet!Outcome
  <2>3. /\ E.sent + E.refused = D.sent + D.refused + 1
        /\ Cardinality(reached[d]) = E.sent
    BY <1>4, <1>6, <2>1 DEF Sound
  <2>4. /\ E.sent \in Nat /\ E.refused \in Nat
        /\ Cardinality(D.aim) = D.sent + D.refused + D.limited + Cardinality(D.left) + 1
    BY <1>4, <1>6, <1>7, <2>1 DEF Sound
  <2> QED
    BY <1>3, <1>4, <1>6, <2>1, <2>2, <2>3, <2>4 DEF Sound
<1>9. tokens \in [Device -> TokenRow \cup {None}]
  BY DEF FleetIInv, FleetTyped
<1>10. tokens' \in [Device -> TokenRow \cup {None}]
  BY <1>3, <1>7, <1>9 DEF TokenRow
<1>11. Fleet!OnlyDeadAreBarred'
  <2>1. \A t \in Device : tokens'[t] = tokens[t] \/ (t = D.now /\ D.said = "dead")
    BY <1>3, <1>7, <1>9
  <2>2. D.said = "dead" => D.now \in condemned
    BY <1>4 DEF Sound
  <2> QED
    BY <1>3, <2>1, <2>2 DEF FleetIInv, Fleet!OnlyDeadAreBarred, Fleet!Quarantined
<1>12. reached' = [reached EXCEPT ![d] = reached[d]] /\ condemned' \subseteq Device
  BY <1>3 DEF FleetIInv, FleetTyped
<1> QED
  BY <1>3, <1>4, <1>5, <1>6, <1>8, <1>10, <1>11, <1>12, OneDispatch

\* A dispatch reports, when nothing is left of it.
LEMMA ReportStep ==
  ASSUME FleetGiven, FleetIInv, NEW d \in Dispatch, Fleet!Report(d) PROVE FleetIInv'
<1>1. PICK D : D = dispatch[d]
  OBVIOUS
<1>2. PICK E : E = [D EXCEPT !.at = "ok"]
  OBVIOUS
<1>3. /\ Fleet!Running(d) /\ D.now = None /\ D.left = {}
      /\ UNCHANGED <<tokens, vault, spent, reached, condemned>>
  BY <1>1 DEF Fleet!Report, Fleet!Free
<1>4. D \in DispatchRow /\ reached[d] \in SUBSET Device /\ Sound(D, reached[d], condemned)
      /\ D.at = "running"
  BY <1>1, <1>3, UnderWay
<1>5. dispatch' = [dispatch EXCEPT ![d] = E]
  BY <1>1, <1>2, <1>4 DEF Fleet!Report, FleetIInv, FleetTyped
<1>6. /\ E \in DispatchRow /\ E.aim = D.aim /\ E.left = D.left /\ E.now = D.now
      /\ E.said = D.said /\ E.at = "ok" /\ E.sent = D.sent /\ E.refused = D.refused
      /\ E.limited = D.limited /\ E.barred = D.barred
  BY <1>2, <1>4 DEF DispatchRow
<1>7. Sound(E, reached[d], condemned')
  BY <1>3, <1>4, <1>6 DEF Sound
<1>8. reached' = [reached EXCEPT ![d] = reached[d]]
  BY <1>3 DEF FleetIInv, FleetTyped
<1>9. condemned' \subseteq Device /\ tokens' \in [Device -> TokenRow \cup {None}]
  BY <1>3 DEF FleetIInv, FleetTyped
<1>10. Fleet!OnlyDeadAreBarred'
  BY <1>3 DEF FleetIInv, Fleet!OnlyDeadAreBarred, Fleet!Quarantined
<1> QED
  BY <1>3, <1>4, <1>5, <1>6, <1>7, <1>8, <1>9, <1>10, OneDispatch

\* Every step of the fan-out keeps the invariant.
LEMMA FleetStep == ASSUME FleetGiven, FleetIInv, [Fleet!Next]_(Fleet!vars) PROVE FleetIInv'
<1>1. ASSUME NEW d \in Dispatch, Fleet!Step(d) PROVE FleetIInv'
  BY <1>1, BeginStep, SkipStep, AskTargetStep, AnswerStep, NoteStep, ReportStep DEF Fleet!Step
<1>2. ASSUME NEW k \in Fleet!Kind, Fleet!Configure(k) PROVE FleetIInv'
  BY <1>2 DEF Fleet!Configure, FleetIInv, FleetTyped, DispatchesAreSound, Fleet!OnlyDeadAreBarred,
  Fleet!Quarantined
<1>3. CASE Fleet!WindowPasses
  BY <1>3 DEF Fleet!WindowPasses, FleetIInv, FleetTyped, DispatchesAreSound,
  Fleet!OnlyDeadAreBarred, Fleet!Quarantined
<1>4. CASE UNCHANGED Fleet!vars
  BY <1>4 DEF Fleet!vars, FleetIInv, FleetTyped, DispatchesAreSound, Fleet!OnlyDeadAreBarred,
  Fleet!Quarantined
<1> QED
  BY <1>1, <1>2, <1>3, <1>4, RegisterStep, ForgetStep DEF Fleet!Next

\* What the invariant says of the reports and of those who were barred.
LEMMA FleetShows ==
  ASSUME FleetGiven, FleetIInv
  PROVE  Fleet!ReportIsTrue /\ Fleet!QuarantinedAreSkipped /\ Fleet!OnlyDeadAreBarred
<1>1. ASSUME NEW d \in Dispatch, dispatch[d] # None
      PROVE  /\ (dispatch[d].aim \cup reached[d]) \cap dispatch[d].barred = {}
             /\ dispatch[d].at = "ok" =>
                  /\ dispatch[d].sent + dispatch[d].refused + dispatch[d].limited
                       = Cardinality(dispatch[d].aim)
                  /\ dispatch[d].sent = Cardinality(reached[d])
  <2>1. PICK D : D = dispatch[d]
    OBVIOUS
  <2>2. D \in DispatchRow /\ Sound(D, reached[d], condemned)
    BY <1>1, <2>1 DEF FleetIInv, FleetTyped, DispatchesAreSound
  <2>3. (D.aim \cup reached[d]) \cap D.barred = {}
    BY <2>2 DEF Sound
  <2>4. ASSUME D.at = "ok"
        PROVE  D.sent + D.refused + D.limited = Cardinality(D.aim)
               /\ D.sent = Cardinality(reached[d])
    <3>1. D.left = {} /\ D.now = None /\ D.said = None
      BY <2>2, <2>4 DEF Sound
    <3>2. D.sent \in Nat /\ D.refused \in Nat /\ D.limited \in Nat /\ Cardinality(D.left) = 0
      BY <2>2, <3>1, FleetSets DEF DispatchRow
    <3>3. None # "sent"
      BY DEF FleetGiven, Fleet!Outcome
    <3>4. Cardinality(reached[d]) = D.sent + 0
      BY <2>2, <3>1, <3>3 DEF Sound
    <3>5. Cardinality(D.aim) = D.sent + D.refused + D.limited + 0 + 0
      BY <2>2, <3>1, <3>2 DEF Sound
    <3> QED
      BY <3>2, <3>4, <3>5
  <2> QED
    BY <2>1, <2>3, <2>4
<1> QED
  BY <1>1, FleetCounts DEF Fleet!ReportIsTrue, Fleet!QuarantinedAreSkipped, FleetIInv

\* A report accounts for every target, and the quarantined and they alone are left out.
THEOREM DispatchReports ==
  ASSUME FleetGiven
  PROVE  Fleet!Spec => [](Fleet!ReportIsTrue /\ Fleet!QuarantinedAreSkipped /\ Fleet!OnlyDeadAreBarred)
<1>1. Fleet!Init => FleetIInv
  BY FleetInit
<1>2. FleetIInv /\ [Fleet!Next]_(Fleet!vars) => FleetIInv'
  BY FleetStep
<1>3. FleetIInv => Fleet!ReportIsTrue /\ Fleet!QuarantinedAreSkipped /\ Fleet!OnlyDeadAreBarred
  BY FleetShows
<1> QED
  BY <1>1, <1>2, <1>3, PTL DEF Fleet!Spec
=============================================================================
