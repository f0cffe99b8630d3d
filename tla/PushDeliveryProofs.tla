------------------------- MODULE PushDeliveryProofs -------------------------
(***************************************************************************)
(* What PushDelivery promises, proved for any workers, sends, devices,     *)
(* credentials and limits: how often a send is attempted, how often its    *)
(* message arrives, that its row tells the truth about it, and with that   *)
(* the refinement of PushPromise.                                          *)
(*                                                                         *)
(* The argument follows the claims of a row.  A claim is drawn by one      *)
(* worker and gives at most one request, so a message arrives at most once *)
(* per claim.  A claim is `loose' while its request may still arrive, or   *)
(* has arrived.  Since a row was queued last only its newest claim can be  *)
(* loose, and none can once the row says that the message did not arrive;  *)
(* so a claim that is still loose when the row is queued again has cost    *)
(* the operator an acknowledgement.                                        *)
(***************************************************************************)
EXTENDS PushDelivery, FiniteSetTheorems, FunctionTheorems, TLAPS

Tries == [send : Send, claim : Nat \ {0}, native : Nat]
Requests == wire \cup accepted

\* An attempt whose request has not left the server.
Unsent(w) == pc[w] \in {"claimed", "allowed", "prepared"}

\* The request or attempt t belongs to claim c of the send s.
Of(t, s, c) == t.send = s /\ t.claim = c

\* Claims of a send whose message arrived or may arrive yet.
Loose(s) ==
    {c \in 1..claims[s] : \/ \E r \in Requests : Of(r, s, c)
                          \/ \E w \in Worker : Unsent(w) /\ Of(try[w], s, c)}

\* No attempt runs, and none has ended the row.
Waits(s) == status[s] \in {"absent", "queued"} /\ lease[s] = 0

\* A row that says that no attempt since it was queued has delivered the message.
Sure(s) ==
    \/ Waits(s)
    \/ status[s] = "failed" /\ outcome[s] # "uncertain"

\* What TypeOK does not say of the rest of the memory.
MemoryOK ==
    /\ native \in [Device -> Nat] /\ issued \in [Device -> Nat]
    /\ active \in Credential \cup {NoCredential}
    /\ since \in [Send -> Nat] /\ acks \in [Send -> Nat]
    /\ wire \subseteq Tries /\ accepted \subseteq Tries
    /\ try \in [Worker -> Tries \cup {NoTry}]
    /\ \A w \in Worker : /\ pc[w] # "idle" => try[w] \in Tries
                         /\ pc[w] = "answered" => answer[w] # "none"

\* A row counts its attempts: one for each retry, and the one that is running or ended
\* the row.  One that was not inserted says nothing.
Counted ==
    \A s \in Send :
        /\ status[s] = "absent" => outcome[s] = "none"
        /\ lease[s] \in {0, claims[s]}
        /\ claims[s] = since[s] + retries[s]
             + (IF Waits(s) THEN 0 ELSE 1)

\* Nobody works for, and nothing was sent for, a claim that was not drawn.
Drawn ==
    /\ \A w \in Worker : pc[w] # "idle" => try[w].claim <= claims[try[w].send]
    /\ \A r \in Requests : r.claim <= claims[r.send]

\* A claim has one worker and one request, on its way or delivered.
OneTry ==
    \A w, v \in Worker :
        pc[w] # "idle" /\ pc[v] # "idle" /\ Of(try[w], try[v].send, try[v].claim) => w = v
OneRequest ==
    /\ wire \cap accepted = {}
    /\ \A r, q \in Requests : Of(r, q.send, q.claim) => r = q

MayHaveCalled(w) ==
    \/ pc[w] = "calling"
    \/ pc[w] = "answered" /\ answer[w] \in {"ok", "uncertain"}

\* A worker that has not called, or that was told why not, has no request;
\* one that reports a success has a delivered one.
AnswersAreTrue ==
    \A w \in Worker :
        /\ \A r \in Requests :
             pc[w] # "idle" /\ Of(r, try[w].send, try[w].claim) => MayHaveCalled(w)
        /\ pc[w] = "answered" /\ answer[w] = "ok" => try[w] \in accepted

\* Since a row was queued last only its newest claim may be loose, and then the row
\* does not deny it.
NewestIsLoose ==
    \A s \in Send : \A c \in Loose(s) : c > since[s] => c = claims[s] /\ ~Sure(s)

\* Every older loose claim was acknowledged.
LooseWasAcked ==
    \A s \in Send : Cardinality({c \in Loose(s) : c <= since[s]}) <= acks[s]

\* What a row calls sent was delivered since it was queued last.
SentIsDelivered ==
    \A s \in Send : status[s] = "sent" => \E r \in accepted : r.send = s /\ r.claim > since[s]

IInv ==
    /\ TypeOK /\ MemoryOK /\ Counted /\ Drawn /\ OneTry /\ OneRequest
    /\ AnswersAreTrue /\ NewestIsLoose /\ LooseWasAcked /\ SentIsDelivered

-----------------------------------------------------------------------------
USE PushAssumption

\* A row draws finitely many claims.
LEMMA LooseFinite ==
  ASSUME NEW s \in Send, claims \in [Send -> Nat], NEW S \in SUBSET Loose(s)
  PROVE  IsFiniteSet(S) /\ Cardinality(S) \in Nat
<1>1. IsFiniteSet(1..claims[s])
  BY FS_Interval
<1>2. S \in SUBSET (1..claims[s])
  BY DEF Loose
<1> QED
  BY <1>1, <1>2, FS_Subset, FS_CardinalityType

\* An empty table and idle workers.
LEMMA InvInit == Init => IInv
<1> SUFFICES ASSUME Init PROVE IInv
  OBVIOUS
<1>1. TypeOK
  BY DEF Init, TypeOK, Places, Answers
<1>2. MemoryOK
  BY DEF Init, MemoryOK
<1>3. Counted
  BY DEF Init, Counted, Waits
<1>4. Drawn /\ OneTry /\ OneRequest /\ AnswersAreTrue /\ SentIsDelivered
  BY DEF Init, Drawn, OneTry, OneRequest, AnswersAreTrue, SentIsDelivered, Requests
<1>5. \A s \in Send : Loose(s) = {}
  BY DEF Init, Loose
<1>6. NewestIsLoose
  BY <1>5 DEF NewestIsLoose
<1>7. LooseWasAcked
  <2>1. \A s \in Send : {c \in Loose(s) : c <= since[s]} = {}
    BY <1>5
  <2>2. Cardinality({}) = 0
    BY FS_EmptySet
  <2>3. acks = [s \in Send |-> 0]
    BY DEF Init
  <2> QED
    BY <2>1, <2>2, <2>3 DEF LooseWasAcked
<1> QED
  BY <1>1, <1>2, <1>3, <1>4, <1>6, <1>7 DEF IInv

-----------------------------------------------------------------------------
(* The parts of the invariant that speak of workers and requests.          *)

\* Nothing becomes loose but by a new claim.
LEMMA LooseShrinks ==
  ASSUME claims' = claims,
         \A r \in Requests' : r \in Requests \/ \E w \in Worker : Unsent(w) /\ r = try[w],
         \A w \in Worker : Unsent(w)' => Unsent(w) /\ Of(try'[w], try[w].send, try[w].claim)
  PROVE  \A s \in Send : Loose(s)' \subseteq Loose(s)
  BY DEF Loose, Of

\* An action that leaves workers and requests alone.
LEMMA MemoryStays ==
  ASSUME IInv, UNCHANGED <<workerVars, providerVars, claims>>,
         native' \in [Device -> Nat], issued' \in [Device -> Nat],
         active' \in Credential \cup {NoCredential},
         since' \in [Send -> Nat], acks' \in [Send -> Nat]
  PROVE  /\ MemoryOK' /\ Drawn' /\ OneTry' /\ OneRequest' /\ AnswersAreTrue'
         /\ \A s \in Send : Loose(s)' = Loose(s)
<1>1. MemoryOK'
  BY DEF IInv, MemoryOK, workerVars, providerVars
<1>2. Drawn' /\ OneTry' /\ OneRequest' /\ AnswersAreTrue'
  BY DEF IInv, Drawn, OneTry, OneRequest, AnswersAreTrue, MayHaveCalled, Requests, Of,
         workerVars, providerVars
<1>3. \A s \in Send : Loose(s)' = Loose(s)
  BY DEF Loose, Requests, Unsent, Of, workerVars, providerVars
<1> QED
  BY <1>1, <1>2, <1>3

\* A worker that goes on with its attempt or leaves it, when no request is added.
LEMMA OwnStep ==
  ASSUME IInv, NEW w \in Worker, NEW place \in Places, NEW t, NEW a \in Answers,
         pc' = [pc EXCEPT ![w] = place], try' = [try EXCEPT ![w] = t],
         answer' = [answer EXCEPT ![w] = a],
         UNCHANGED <<claims, native, issued, active, since, acks, accepted>>, wire' \subseteq wire,
         \/ place = "idle" /\ t = NoTry
         \/ /\ place # "idle" /\ pc[w] # "idle"
            /\ t \in Tries /\ Of(t, try[w].send, try[w].claim),
         place \in {"claimed", "allowed", "prepared"} => Unsent(w),
         place = "answered" => a # "none",
         place = "answered" /\ a = "ok" => t \in accepted,
         \A r \in Requests' :
             place # "idle" /\ Of(r, t.send, t.claim) =>
                 place = "calling" \/ (place = "answered" /\ a \in {"ok", "uncertain"})
  PROVE  /\ MemoryOK' /\ Drawn' /\ OneTry' /\ OneRequest' /\ AnswersAreTrue'
         /\ pc' \in [Worker -> Places] /\ answer' \in [Worker -> Answers]
         /\ \A s \in Send : Loose(s)' \subseteq Loose(s)
<1>1. Requests' \subseteq Requests
  BY DEF Requests
<1>2. /\ pc' \in [Worker -> Places] /\ pc'[w] = place
      /\ \A v \in Worker \ {w} : pc'[v] = pc[v]
  BY DEF IInv, TypeOK
<1>3. /\ answer' \in [Worker -> Answers] /\ answer'[w] = a
      /\ \A v \in Worker \ {w} : answer'[v] = answer[v]
  BY DEF IInv, TypeOK
<1>4. /\ try' \in [Worker -> Tries \cup {NoTry}] /\ try'[w] = t
      /\ \A v \in Worker \ {w} : try'[v] = try[v]
  BY DEF IInv, MemoryOK
<1>5. MemoryOK'
  BY <1>2, <1>3, <1>4 DEF IInv, MemoryOK
<1>6. Drawn'
  BY <1>1, <1>2, <1>4 DEF IInv, Drawn, Of
<1>7. OneTry'
  BY <1>2, <1>4 DEF IInv, OneTry, Of
<1>8. OneRequest'
  BY <1>1 DEF IInv, OneRequest
<1>9. AnswersAreTrue'
  <2> SUFFICES ASSUME NEW v \in Worker
               PROVE  /\ \A r \in Requests' : pc'[v] # "idle" /\ Of(r, try'[v].send, try'[v].claim)
                                                => MayHaveCalled(v)'
                      /\ pc'[v] = "answered" /\ answer'[v] = "ok" => try'[v] \in accepted'
    BY DEF AnswersAreTrue, Of
  <2>1. CASE v = w
    BY <1>2, <1>3, <1>4, <2>1 DEF MayHaveCalled
  <2>2. CASE v # w
    BY <1>1, <1>2, <1>3, <1>4, <2>2 DEF IInv, AnswersAreTrue, MayHaveCalled, Of
  <2> QED
    BY <2>1, <2>2
<1>10. \A s \in Send : Loose(s)' \subseteq Loose(s)
  <2>1. \A v \in Worker : Unsent(v)' => Unsent(v) /\ Of(try'[v], try[v].send, try[v].claim)
    BY <1>2, <1>4 DEF Unsent, Of
  <2> QED
    BY <1>1, <2>1, LooseShrinks
<1> QED
  BY <1>2, <1>3, <1>5, <1>6, <1>7, <1>8, <1>9, <1>10

-----------------------------------------------------------------------------
(* The parts of the invariant that speak of rows.                          *)

\* What was acknowledged stays so while no new claim is drawn.
LEMMA AckedStays ==
  ASSUME IInv, UNCHANGED <<claims, since, acks>>, \A s \in Send : Loose(s)' \subseteq Loose(s)
  PROVE  LooseWasAcked'
<1> SUFFICES ASSUME NEW s \in Send
             PROVE  Cardinality({c \in Loose(s)' : c <= since[s]}) <= acks[s]
  BY DEF LooseWasAcked
<1> DEFINE Old == {c \in Loose(s) : c <= since[s]}
           New == {c \in Loose(s)' : c <= since[s]}
<1>1. IsFiniteSet(Old) /\ Cardinality(Old) \in Nat
  BY LooseFinite DEF IInv, TypeOK
<1>2. New \in SUBSET Old
  OBVIOUS
<1>3. IsFiniteSet(New) /\ Cardinality(New) <= Cardinality(Old) /\ Cardinality(New) \in Nat
  BY <1>1, <1>2, FS_Subset, FS_CardinalityType
<1>4. Cardinality(Old) <= acks[s] /\ acks[s] \in Nat
  BY DEF IInv, LooseWasAcked, MemoryOK
<1> QED
  BY <1>1, <1>3, <1>4

\* An action that leaves the rows alone, but perhaps for their leases' and delays' ends.
LEMMA RowsStay ==
  ASSUME IInv, UNCHANGED <<status, outcome, retries, lease, claims, since, acks>>,
         accepted \subseteq accepted', \A s \in Send : Loose(s)' \subseteq Loose(s)
  PROVE  Counted' /\ NewestIsLoose' /\ LooseWasAcked' /\ SentIsDelivered'
<1>1. Counted' /\ NewestIsLoose' /\ SentIsDelivered'
  BY DEF IInv, Counted, Waits, Sure, NewestIsLoose, SentIsDelivered
<1> QED
  BY <1>1, AckedStays

\* The type of what such an action changes.
LEMMA RowsType ==
  ASSUME TypeOK, UNCHANGED <<status, outcome, retries, lease, claims, cred>>,
         live' \in [Send -> BOOLEAN], due' \in [Send -> BOOLEAN],
         pc' \in [Worker -> Places], answer' \in [Worker -> Answers]
  PROVE  TypeOK'
  BY DEF TypeOK

-----------------------------------------------------------------------------
(* The API, the operator and the devices.                                  *)

\* A device that changes says nothing about a row.
LEMMA DeviceStep ==
  ASSUME IInv, UNCHANGED <<sendVars, providerVars, workerVars>>,
         native' \in [Device -> Nat], issued' \in [Device -> Nat],
         active' \in Credential \cup {NoCredential}
  PROVE  IInv'
<1>1. /\ MemoryOK' /\ Drawn' /\ OneTry' /\ OneRequest' /\ AnswersAreTrue'
      /\ \A s \in Send : Loose(s)' = Loose(s)
  BY MemoryStays DEF IInv, MemoryOK, sendVars
<1>2. Counted' /\ NewestIsLoose' /\ LooseWasAcked' /\ SentIsDelivered'
  BY <1>1, RowsStay DEF sendVars, providerVars
<1>3. TypeOK'
  BY RowsType DEF IInv, TypeOK, sendVars, workerVars
<1> QED
  BY <1>1, <1>2, <1>3 DEF IInv

\* Nor does time, which ends leases and delays.
LEMMA TimeStep ==
  ASSUME IInv, NEW s \in Send, LeaseExpires(s) \/ BackoffElapses(s)
  PROVE  IInv'
<1>0. /\ UNCHANGED <<status, outcome, retries, lease, claims, cred, since, acks, native, issued, active>>
      /\ UNCHANGED <<providerVars, workerVars>>
      /\ live' \in [Send -> BOOLEAN] /\ due' \in [Send -> BOOLEAN]
  BY DEF LeaseExpires, BackoffElapses, deviceVars, IInv, TypeOK
<1>1. /\ MemoryOK' /\ Drawn' /\ OneTry' /\ OneRequest' /\ AnswersAreTrue'
      /\ \A k \in Send : Loose(k)' = Loose(k)
  BY <1>0, MemoryStays DEF IInv, MemoryOK
<1>2. Counted' /\ NewestIsLoose' /\ LooseWasAcked' /\ SentIsDelivered'
  BY <1>0, <1>1, RowsStay DEF providerVars
<1>3. TypeOK'
  BY <1>0, RowsType DEF IInv, TypeOK, workerVars
<1> QED
  BY <1>1, <1>2, <1>3 DEF IInv

\* A row that enters the queue has no claim yet, nor has it said anything.
LEMMA EnqueueStep ==
  ASSUME IInv, NEW s \in Send, Enqueue(s)
  PROVE  IInv'
<1>0. /\ UNCHANGED <<outcome, retries, lease, live, due, claims, acks, since>>
      /\ UNCHANGED <<deviceVars, providerVars, workerVars>>
      /\ status[s] = "absent" /\ status' = [status EXCEPT ![s] = "queued"]
  BY DEF Enqueue
<1>1. /\ MemoryOK' /\ Drawn' /\ OneTry' /\ OneRequest' /\ AnswersAreTrue'
      /\ \A k \in Send : Loose(k)' = Loose(k)
  BY <1>0, MemoryStays DEF IInv, MemoryOK, deviceVars
<1>2. /\ \A k \in Send : Waits(k)' = Waits(k)
      /\ \A k \in Send : Sure(k)' = Sure(k)
  BY <1>0 DEF Waits, Sure, IInv, TypeOK
<1>3. Counted'
  BY <1>0, <1>2 DEF IInv, Counted, TypeOK
<1>4. NewestIsLoose' /\ SentIsDelivered'
  BY <1>0, <1>1, <1>2 DEF IInv, NewestIsLoose, SentIsDelivered, TypeOK, providerVars
<1>5. LooseWasAcked'
  BY <1>0, <1>1, AckedStays
<1>6. TypeOK'
  <2>1. cred' \in [Send -> Credential \cup {NoCredential}]
    BY DEF Enqueue, IInv, TypeOK, MemoryOK
  <2>2. outcome[s] = "none" /\ lease[s] = 0
    BY <1>0 DEF IInv, Counted, TypeOK
  <2> QED
    BY <1>0, <2>1, <2>2 DEF IInv, TypeOK, workerVars
<1> QED
  BY <1>1, <1>3, <1>4, <1>5, <1>6 DEF IInv

\* What was loose when a row is queued again has just been acknowledged, or had been.
LEMMA RequeueStep ==
  ASSUME IInv, NEW s \in Send, NEW b \in BOOLEAN, Requeue(s, b)
  PROVE  IInv'
<1>0. /\ UNCHANGED <<live, claims, deviceVars, providerVars, workerVars>>
      /\ status[s] = "failed" /\ status' = [status EXCEPT ![s] = "queued"]
      /\ outcome' = [outcome EXCEPT ![s] = "none"] /\ retries' = [retries EXCEPT ![s] = 0]
      /\ lease' = [lease EXCEPT ![s] = 0] /\ due' = [due EXCEPT ![s] = TRUE]
      /\ cred' = [cred EXCEPT ![s] = NoCredential]
      /\ acks' = [acks EXCEPT ![s] = IF outcome[s] = "uncertain" THEN acks[s] + 1 ELSE acks[s]]
      /\ since' = [since EXCEPT ![s] = claims[s]]
  BY DEF Requeue
<1>1. acks' \in [Send -> Nat] /\ since' \in [Send -> Nat]
  BY <1>0 DEF IInv, TypeOK, MemoryOK
<1>2. /\ MemoryOK' /\ Drawn' /\ OneTry' /\ OneRequest' /\ AnswersAreTrue'
      /\ \A k \in Send : Loose(k)' = Loose(k)
  BY <1>0, <1>1, MemoryStays DEF IInv, MemoryOK, deviceVars
<1>3. Counted'
  BY <1>0 DEF IInv, Counted, Waits, TypeOK, MemoryOK
<1>4. NewestIsLoose'
  <2> SUFFICES ASSUME NEW k \in Send, NEW c \in Loose(k), c > since'[k]
               PROVE  c = claims[k] /\ ~Sure(k)'
    BY <1>0, <1>2 DEF NewestIsLoose
  <2>1. k # s
    <3>1. c \in 1..claims[k]
      BY DEF Loose
    <3> QED
      BY <1>0, <3>1 DEF IInv, TypeOK, MemoryOK
  <2> QED
    BY <1>0, <2>1 DEF IInv, NewestIsLoose, Sure, Waits, TypeOK, MemoryOK
<1>5. LooseWasAcked'
  <2> SUFFICES ASSUME NEW k \in Send
               PROVE  Cardinality({c \in Loose(k) : c <= since'[k]}) <= acks'[k]
    BY <1>2 DEF LooseWasAcked
  <2>1. CASE k # s
    BY <1>0, <2>1 DEF IInv, LooseWasAcked, MemoryOK
  <2>2. CASE k = s
    <3> DEFINE Old == {c \in Loose(s) : c <= since[s]}
               Now == {c \in Loose(s) : c <= since'[s]}
    <3>1. IsFiniteSet(Old) /\ Cardinality(Old) \in Nat /\ Cardinality(Old) <= acks[s]
      BY LooseFinite DEF IInv, TypeOK, LooseWasAcked
    <3>2. acks[s] \in Nat
      BY DEF IInv, MemoryOK
    <3>3. CASE outcome[s] = "uncertain"
      <4>1. Now \in SUBSET (Old \cup {claims[s]})
        <5> SUFFICES ASSUME NEW c \in Loose(s) PROVE c \in Old \/ c = claims[s]
          OBVIOUS
        <5>1. c \in Nat /\ (c > since[s] => c = claims[s])
          BY DEF IInv, NewestIsLoose, Loose
        <5>2. since[s] \in Nat
          BY DEF IInv, MemoryOK
        <5> QED
          BY <5>1, <5>2
      <4>2. /\ IsFiniteSet(Old \cup {claims[s]})
            /\ Cardinality(Old \cup {claims[s]}) <= Cardinality(Old) + 1
        <5>1. /\ IsFiniteSet(Old \cup {claims[s]})
              /\ Cardinality(Old \cup {claims[s]})
                   = IF claims[s] \in Old THEN Cardinality(Old) ELSE Cardinality(Old) + 1
          BY <3>1, FS_AddElement
        <5> HIDE DEF Old
        <5> QED
          BY <3>1, <5>1
      <4>3. Cardinality(Now) <= Cardinality(Old \cup {claims[s]})
        BY <4>1, <4>2, FS_Subset
      <4>4. Cardinality(Now) \in Nat /\ Cardinality(Old \cup {claims[s]}) \in Nat
        BY <4>1, <4>2, FS_Subset, FS_CardinalityType
      <4>5. acks'[s] = acks[s] + 1
        BY <1>0, <3>3 DEF IInv, MemoryOK
      <4> QED
        BY <2>2, <3>1, <3>2, <4>2, <4>3, <4>4, <4>5
    <3>4. CASE outcome[s] # "uncertain"
      <4>1. Sure(s)
        BY <1>0, <3>4 DEF Sure
      <4>2. Now = Old
        <5>1. \A c \in Loose(s) : c \in 1..claims[s] /\ ~(c > since[s])
          BY <4>1 DEF IInv, NewestIsLoose, Loose
        <5>2. claims[s] \in Nat /\ since[s] \in Nat /\ since'[s] = claims[s]
          BY <1>0 DEF IInv, TypeOK, MemoryOK
        <5> QED
          BY <5>1, <5>2
      <4>3. acks'[s] = acks[s]
        BY <1>0, <3>4 DEF IInv, MemoryOK
      <4> QED
        BY <2>2, <3>1, <4>2, <4>3
    <3> QED
      BY <3>3, <3>4
  <2> QED
    BY <2>1, <2>2
<1>6. SentIsDelivered'
  BY <1>0 DEF IInv, SentIsDelivered, TypeOK, MemoryOK, providerVars
<1>7. TypeOK'
  BY <1>0 DEF IInv, TypeOK, workerVars
<1> QED
  BY <1>2, <1>3, <1>4, <1>5, <1>6, <1>7 DEF IInv

\* A sweep leaves in doubt what it closes.
LEMMA SweepStep ==
  ASSUME IInv, NEW w \in Worker, Sweep(w)
  PROVE  IInv'
<1>0. /\ UNCHANGED <<retries, live, due, cred, claims, acks, since>>
      /\ UNCHANGED <<deviceVars, providerVars, workerVars>>
      /\ status' = [s \in Send |-> IF Expired(s) THEN "failed" ELSE status[s]]
      /\ outcome' = [s \in Send |-> IF Expired(s) THEN "uncertain" ELSE outcome[s]]
      /\ lease' = [s \in Send |-> IF Expired(s) THEN 0 ELSE lease[s]]
  BY DEF Sweep
<1>1. /\ MemoryOK' /\ Drawn' /\ OneTry' /\ OneRequest' /\ AnswersAreTrue'
      /\ \A k \in Send : Loose(k)' = Loose(k)
  BY <1>0, MemoryStays DEF IInv, MemoryOK, deviceVars
<1>2. \A k \in Send : Waits(k)' = Waits(k)
  BY <1>0 DEF Waits, Expired, IInv, TypeOK
<1>3. \A k \in Send : Sure(k)' = Sure(k)
  BY <1>0, <1>2 DEF Sure, Waits, Expired, IInv, TypeOK
<1>4. Counted'
  BY <1>0, <1>2 DEF IInv, Counted, TypeOK, Expired
<1>5. NewestIsLoose' /\ SentIsDelivered'
  BY <1>0, <1>1, <1>3 DEF IInv, NewestIsLoose, SentIsDelivered, Expired, TypeOK, providerVars
<1>6. LooseWasAcked'
  BY <1>0, <1>1, AckedStays
<1>7. TypeOK'
  BY <1>0 DEF IInv, TypeOK, Expired, workerVars
<1> QED
  BY <1>1, <1>4, <1>5, <1>6, <1>7 DEF IInv

-----------------------------------------------------------------------------
(* The workers.                                                            *)

\* A claim is new: nobody works for it and nothing was sent for it.
LEMMA ClaimStep ==
  ASSUME IInv, NEW w \in Worker, NEW s \in Send, Claim(w, s)
  PROVE  IInv'
<1> DEFINE t == [send |-> s, claim |-> claims[s] + 1, native |-> 0]
<1>0. /\ UNCHANGED <<status, outcome, retries, due, acks, since, deviceVars, providerVars, answer>>
      /\ pc[w] = "idle" /\ status[s] = "queued" /\ lease[s] = 0
      /\ claims' = [claims EXCEPT ![s] = claims[s] + 1]
      /\ lease' = [lease EXCEPT ![s] = claims[s] + 1]
      /\ live' = [live EXCEPT ![s] = TRUE]
      /\ cred' = [cred EXCEPT ![s] = IF cred[s] = NoCredential THEN active ELSE cred[s]]
      /\ pc' = [pc EXCEPT ![w] = "claimed"] /\ try' = [try EXCEPT ![w] = t]
  BY DEF Claim
<1>1. claims[s] \in Nat /\ claims[s] + 1 \in Nat \ {0}
  BY DEF IInv, TypeOK
<1>2. t \in Tries /\ t.send = s /\ t.claim = claims[s] + 1
  BY <1>1 DEF Tries
<1> HIDE DEF t
<1>3. /\ claims' \in [Send -> Nat] /\ claims'[s] = claims[s] + 1
      /\ \A k \in Send : k # s => claims'[k] = claims[k]
      /\ \A k \in Send : claims'[k] >= claims[k]
  BY <1>0, <1>1 DEF IInv, TypeOK
<1>4. /\ pc' \in [Worker -> Places] /\ pc'[w] = "claimed"
      /\ \A v \in Worker : v # w => pc'[v] = pc[v]
      /\ try' \in [Worker -> Tries \cup {NoTry}] /\ try'[w] = t
      /\ \A v \in Worker : v # w => try'[v] = try[v]
  BY <1>0, <1>2 DEF IInv, TypeOK, MemoryOK, Places
<1>5. Requests' = Requests
  BY <1>0 DEF Requests, providerVars
<1>6. /\ \A v \in Worker : pc[v] # "idle" => try[v] \in Tries /\ try[v].claim <= claims[try[v].send]
      /\ \A r \in Requests : r \in Tries /\ r.claim <= claims[r.send]
  BY DEF IInv, MemoryOK, Drawn, Requests
<1>7. MemoryOK'
  BY <1>0, <1>2, <1>4 DEF IInv, MemoryOK, deviceVars, providerVars
<1>8. Drawn'
  <2>1. \A q \in Tries : q.claim <= claims[q.send] => q.claim <= claims'[q.send]
    BY <1>3 DEF Tries, IInv, TypeOK
  <2>2. \A v \in Worker : pc'[v] # "idle" => try'[v].claim <= claims'[try'[v].send]
    <3> SUFFICES ASSUME NEW v \in Worker, pc'[v] # "idle"
                 PROVE  try'[v].claim <= claims'[try'[v].send]
      OBVIOUS
    <3>1. CASE v = w
      BY <1>1, <1>2, <1>3, <1>4, <3>1
    <3>2. CASE v # w
      BY <1>4, <1>6, <2>1, <3>2
    <3> QED
      BY <3>1, <3>2
  <2> QED
    BY <1>5, <1>6, <2>1, <2>2 DEF Drawn
<1>9. \A q \in Tries : q.claim <= claims[q.send] => ~Of(q, t.send, t.claim) /\ ~Of(t, q.send, q.claim)
  BY <1>1, <1>2 DEF Of, Tries
<1>10. OneTry'
  <2> SUFFICES ASSUME NEW v \in Worker, NEW u \in Worker, pc'[v] # "idle", pc'[u] # "idle",
                      Of(try'[v], try'[u].send, try'[u].claim)
               PROVE  v = u
    BY DEF OneTry, Of
  <2>1. CASE v # w /\ u # w
    BY <1>4, <2>1 DEF IInv, OneTry
  <2>2. CASE v # w /\ u = w
    BY <1>4, <1>6, <1>9, <2>2
  <2>3. CASE v = w /\ u # w
    BY <1>4, <1>6, <1>9, <2>3
  <2> QED
    BY <2>1, <2>2, <2>3
<1>11. OneRequest'
  BY <1>0, <1>5 DEF IInv, OneRequest, providerVars
<1>12. AnswersAreTrue'
  <2> SUFFICES ASSUME NEW v \in Worker
               PROVE  /\ \A r \in Requests : pc'[v] # "idle" /\ Of(r, try'[v].send, try'[v].claim)
                                               => MayHaveCalled(v)'
                      /\ pc'[v] = "answered" /\ answer'[v] = "ok" => try'[v] \in accepted'
    BY <1>5 DEF AnswersAreTrue, Of
  <2>1. CASE v = w
    BY <1>4, <1>6, <1>9, <2>1
  <2>2. CASE v # w
    BY <1>0, <1>4, <2>2 DEF IInv, AnswersAreTrue, MayHaveCalled, providerVars
  <2> QED
    BY <2>1, <2>2
<1>13. /\ \A k \in Send : k # s => Loose(k)' \subseteq Loose(k)
       /\ Loose(s)' \subseteq Loose(s) \cup {claims[s] + 1}
  <2> SUFFICES ASSUME NEW k \in Send, NEW c \in Loose(k)'
               PROVE  c \in Loose(k) \/ (k = s /\ c = claims[s] + 1)
    OBVIOUS
  <2>1. c \in 1..claims'[k]
    BY DEF Loose
  <2>2. (k = s /\ c = claims[s] + 1) \/ c \in 1..claims[k]
    BY <1>1, <1>3, <2>1
  <2>3. CASE \E r \in Requests : Of(r, k, c)
    BY <2>2, <2>3 DEF Loose
  <2>4. CASE \E v \in Worker : Unsent(v)' /\ Of(try'[v], k, c)
    <3>1. PICK v \in Worker : Unsent(v)' /\ Of(try'[v], k, c)
      BY <2>4
    <3>2. CASE v = w
      BY <1>2, <1>4, <3>1, <3>2 DEF Of
    <3>3. CASE v # w
      <4>1. Unsent(v) /\ Of(try[v], k, c)
        BY <1>4, <3>1, <3>3 DEF Unsent
      <4> QED
        BY <2>2, <4>1 DEF Loose
    <3> QED
      BY <3>2, <3>3
  <2> QED
    BY <1>5, <2>3, <2>4 DEF Loose, Of
<1>14. Counted'
  BY <1>0, <1>1, <1>3 DEF IInv, Counted, Waits, TypeOK, MemoryOK
<1>15. NewestIsLoose'
  <2> SUFFICES ASSUME NEW k \in Send, NEW c \in Loose(k)', c > since[k]
               PROVE  c = claims'[k] /\ ~Sure(k)'
    BY <1>0 DEF NewestIsLoose
  <2>1. CASE k # s
    BY <1>0, <1>3, <1>13, <2>1 DEF IInv, NewestIsLoose, Sure, Waits, TypeOK
  <2>2. CASE k = s
    <3>1. Sure(s)
      BY <1>0 DEF Sure, Waits
    <3>2. c = claims[s] + 1
      BY <1>13, <2>2, <3>1 DEF IInv, NewestIsLoose
    <3>3. ~Sure(s)'
      BY <1>0, <1>1 DEF Sure, Waits, IInv, TypeOK
    <3> QED
      BY <1>3, <2>2, <3>2, <3>3
  <2> QED
    BY <2>1, <2>2
<1>16. LooseWasAcked'
  <2> SUFFICES ASSUME NEW k \in Send
               PROVE  Cardinality({c \in Loose(k)' : c <= since[k]}) <= acks[k]
    BY <1>0 DEF LooseWasAcked
  <2> DEFINE Old == {c \in Loose(k) : c <= since[k]}
             Now == {c \in Loose(k)' : c <= since[k]}
  <2>1. since[k] \in Nat /\ claims[k] >= since[k] /\ claims[k] \in Nat
    BY DEF IInv, Counted, TypeOK, MemoryOK
  <2>2. Now \in SUBSET Old
    BY <1>13, <2>1
  <2>3. IsFiniteSet(Old) /\ Cardinality(Old) \in Nat /\ Cardinality(Old) <= acks[k] /\ acks[k] \in Nat
    BY LooseFinite DEF IInv, TypeOK, LooseWasAcked, MemoryOK
  <2>4. IsFiniteSet(Now) /\ Cardinality(Now) \in Nat /\ Cardinality(Now) <= Cardinality(Old)
    BY <2>2, <2>3, FS_Subset, FS_CardinalityType
  <2> QED
    BY <2>3, <2>4
<1>17. SentIsDelivered'
  BY <1>0 DEF IInv, SentIsDelivered, providerVars
<1>18. TypeOK'
  <2>1. cred' \in [Send -> Credential \cup {NoCredential}]
    BY <1>0 DEF IInv, TypeOK, MemoryOK
  <2> QED
    BY <1>0, <1>1, <1>3, <1>4, <2>1 DEF IInv, TypeOK
<1> QED
  BY <1>7, <1>8, <1>10, <1>11, <1>12, <1>14, <1>15, <1>16, <1>17, <1>18 DEF IInv

\* The memory of a worker that was told how its attempt ended.
LEMMA AnswerStep ==
  ASSUME IInv, NEW w \in Worker, pc[w] # "idle", NEW a \in Answers \ {"none"}, Answer(w, a),
         UNCHANGED <<sendVars, deviceVars, accepted>>, wire' \subseteq wire,
         a = "ok" => try[w] \in accepted,
         a \in {"ok", "uncertain"} \/ ~\E r \in Requests' : Of(r, try[w].send, try[w].claim)
  PROVE  IInv'
<1>1. try' = [try EXCEPT ![w] = try[w]] /\ try[w] \in Tries
  BY DEF Answer, IInv, MemoryOK
<1>2. Of(try[w], try[w].send, try[w].claim)
  BY DEF Of
<1>3. "answered" \in Places
  BY DEF Places
<1>4. /\ MemoryOK' /\ Drawn' /\ OneTry' /\ OneRequest' /\ AnswersAreTrue'
      /\ pc' \in [Worker -> Places] /\ answer' \in [Worker -> Answers]
      /\ \A s \in Send : Loose(s)' \subseteq Loose(s)
  BY <1>1, <1>2, <1>3, OwnStep DEF Answer, sendVars, deviceVars
<1>5. Counted' /\ NewestIsLoose' /\ LooseWasAcked' /\ SentIsDelivered'
  BY <1>4, RowsStay DEF sendVars
<1>6. TypeOK'
  BY <1>4, RowsType DEF IInv, TypeOK, sendVars
<1> QED
  BY <1>4, <1>5, <1>6 DEF IInv

\* A worker that forgets its attempt.
LEMMA RestStep ==
  ASSUME IInv, NEW w \in Worker, Rest(w),
         UNCHANGED <<claims, since, acks, native, issued, active, providerVars>>
  PROVE  /\ MemoryOK' /\ Drawn' /\ OneTry' /\ OneRequest' /\ AnswersAreTrue'
         /\ pc' \in [Worker -> Places] /\ answer' \in [Worker -> Answers]
         /\ \A s \in Send : Loose(s)' \subseteq Loose(s)
<1>1. "idle" \in Places /\ "none" \in Answers
  BY DEF Places, Answers
<1> QED
  BY <1>1, OwnStep DEF Rest, providerVars

\* No request carries the claim of a worker that has not called.
LEMMA UnsentHasNone ==
  ASSUME IInv, NEW w \in Worker, Unsent(w)
  PROVE  ~\E r \in Requests : Of(r, try[w].send, try[w].claim)
  BY DEF IInv, AnswersAreTrue, MayHaveCalled, Unsent

\* A worker that goes on, without a call.
LEMMA GoOnStep ==
  ASSUME IInv, NEW w \in Worker, Unsent(w), NEW place \in {"allowed", "prepared"}, NEW t \in Tries,
         Of(t, try[w].send, try[w].claim),
         pc' = [pc EXCEPT ![w] = place], try' = [try EXCEPT ![w] = t],
         UNCHANGED <<answer, sendVars, deviceVars, providerVars>>
  PROVE  IInv'
<1>1. answer' = [answer EXCEPT ![w] = answer[w]] /\ answer[w] \in Answers
  BY DEF IInv, TypeOK
<1>2. place \in Places /\ pc[w] # "idle"
  BY DEF Places, Unsent
<1>3. ~\E r \in Requests' : Of(r, t.send, t.claim)
  BY UnsentHasNone DEF Of, Requests, providerVars
<1>4. /\ MemoryOK' /\ Drawn' /\ OneTry' /\ OneRequest' /\ AnswersAreTrue'
      /\ pc' \in [Worker -> Places] /\ answer' \in [Worker -> Answers]
      /\ \A s \in Send : Loose(s)' \subseteq Loose(s)
  BY <1>1, <1>2, <1>3, OwnStep DEF sendVars, deviceVars, providerVars
<1>5. Counted' /\ NewestIsLoose' /\ LooseWasAcked' /\ SentIsDelivered'
  BY <1>4, RowsStay DEF sendVars, providerVars
<1>6. TypeOK'
  BY <1>4, RowsType DEF IInv, TypeOK, sendVars
<1> QED
  BY <1>4, <1>5, <1>6 DEF IInv

\* The check before anything is sent, and what the adapter reads.
LEMMA AllowStep ==
  ASSUME IInv, NEW w \in Worker, Allow(w)
  PROVE  IInv'
<1>1. Unsent(w) /\ pc[w] # "idle" /\ try[w] \in Tries
  BY DEF Allow, Unsent, IInv, MemoryOK
<1>2. CASE pc' = [pc EXCEPT ![w] = "allowed"] /\ UNCHANGED <<try, answer>>
  <2>1. try' = [try EXCEPT ![w] = try[w]] /\ Of(try[w], try[w].send, try[w].claim)
    BY <1>2 DEF IInv, MemoryOK, Of
  <2> QED
    BY <1>1, <1>2, <2>1, GoOnStep DEF Allow
<1>3. CASE Answer(w, "cancelled")
  <2>1. ~\E r \in Requests' : Of(r, try[w].send, try[w].claim)
    BY <1>1, UnsentHasNone DEF Allow, Requests, providerVars
  <2>2. "cancelled" \in Answers \ {"none"}
    BY DEF Answers
  <2> QED
    BY <1>1, <1>3, <2>1, <2>2, AnswerStep DEF Allow, providerVars
<1> QED
  BY <1>2, <1>3 DEF Allow

(* An adapter reads the row and the device again: nothing that counts moves.  *)
LEMMA PrepareStep ==
  ASSUME IInv, NEW w \in Worker, Prepare(w)
  PROVE  IInv'
<1>1. Unsent(w) /\ pc[w] # "idle" /\ try[w] \in Tries
  BY DEF Prepare, Unsent, IInv, MemoryOK
<1>2. CASE /\ pc' = [pc EXCEPT ![w] = "prepared"]
           /\ try' = [try EXCEPT ![w].native = native[Target[try[w].send]]]
           /\ UNCHANGED answer
  <2> DEFINE t == [try[w] EXCEPT !.native = native[Target[try[w].send]]]
  <2>1. native[Target[try[w].send]] \in Nat
    BY <1>1 DEF IInv, MemoryOK, Tries
  <2>2. t \in Tries /\ Of(t, try[w].send, try[w].claim)
    BY <1>1, <2>1 DEF Tries, Of
  <2>3. try' = [try EXCEPT ![w] = t]
    BY <1>2
  <2> QED
    BY <1>1, <1>2, <2>2, <2>3, GoOnStep DEF Prepare
<1>3. CASE Answer(w, "refused")
  <2>1. ~\E r \in Requests' : Of(r, try[w].send, try[w].claim)
    BY <1>1, UnsentHasNone DEF Prepare, Requests, providerVars
  <2>2. "refused" \in Answers \ {"none"}
    BY DEF Answers
  <2> QED
    BY <1>1, <1>3, <2>1, <2>2, AnswerStep DEF Prepare, providerVars
<1> QED
  BY <1>2, <1>3 DEF Prepare

\* The call turns an attempt into a request: what was loose stays it.
LEMMA CallStep ==
  ASSUME IInv, NEW w \in Worker, Call(w)
  PROVE  IInv'
<1>0. /\ pc[w] = "prepared" /\ pc' = [pc EXCEPT ![w] = "calling"] /\ wire' = wire \cup {try[w]}
      /\ UNCHANGED <<sendVars, deviceVars, accepted, try, answer>>
  BY DEF Call
<1>1. Unsent(w) /\ try[w] \in Tries
  BY <1>0 DEF Unsent, IInv, MemoryOK
<1>2. /\ pc' \in [Worker -> Places] /\ pc'[w] = "calling"
      /\ \A v \in Worker : v # w => pc'[v] = pc[v]
  BY <1>0 DEF IInv, TypeOK, Places
<1>3. Requests' = Requests \cup {try[w]}
  BY <1>0 DEF Requests
<1>4. ~\E r \in Requests : Of(r, try[w].send, try[w].claim)
  BY <1>1, UnsentHasNone
<1>5. MemoryOK'
  BY <1>0, <1>1, <1>2 DEF IInv, MemoryOK, sendVars, deviceVars
<1>6. Drawn'
  BY <1>0, <1>2, <1>3 DEF IInv, Drawn, sendVars
<1>7. OneTry'
  BY <1>0, <1>2 DEF IInv, OneTry, Of
<1>8. OneRequest'
  <2>1. wire' \cap accepted' = {}
    BY <1>0, <1>4 DEF IInv, OneRequest, Requests, Of
  <2>2. \A r, q \in Requests' : Of(r, q.send, q.claim) => r = q
    BY <1>3, <1>4 DEF IInv, OneRequest, Of
  <2> QED
    BY <2>1, <2>2 DEF OneRequest
<1>9. AnswersAreTrue'
  <2> SUFFICES ASSUME NEW v \in Worker
               PROVE  /\ \A r \in Requests' : pc'[v] # "idle" /\ Of(r, try[v].send, try[v].claim)
                                                => MayHaveCalled(v)'
                      /\ pc'[v] = "answered" /\ answer[v] = "ok" => try[v] \in accepted
    BY <1>0 DEF AnswersAreTrue, Of
  <2>1. CASE v = w
    BY <1>2, <2>1 DEF MayHaveCalled
  <2>2. CASE v # w
    <3>1. pc[v] # "idle" => ~Of(try[w], try[v].send, try[v].claim)
      BY <1>0, <2>2 DEF IInv, OneTry, Of
    <3> QED
      BY <1>0, <1>2, <1>3, <2>2, <3>1 DEF IInv, AnswersAreTrue, MayHaveCalled
  <2> QED
    BY <2>1, <2>2
<1>10. \A s \in Send : Loose(s)' \subseteq Loose(s)
  <2>1. \A v \in Worker : Unsent(v)' => Unsent(v) /\ Of(try'[v], try[v].send, try[v].claim)
    BY <1>0, <1>2 DEF Unsent, Of
  <2> QED
    BY <1>0, <1>1, <1>3, <2>1, LooseShrinks DEF sendVars
<1>11. Counted' /\ NewestIsLoose' /\ LooseWasAcked' /\ SentIsDelivered'
  BY <1>0, <1>10, RowsStay DEF sendVars
<1>12. TypeOK'
  BY <1>0, <1>2, RowsType DEF IInv, TypeOK, sendVars
<1> QED
  BY <1>5, <1>6, <1>7, <1>8, <1>9, <1>11, <1>12 DEF IInv

\* Ends of an attempt: before the call nothing can have arrived, after it only a
\* provider's word can say so.
LEMMA EndStep ==
  ASSUME IInv, NEW w \in Worker,
         \/ Unprepared(w) \/ Lose(w) \/ Receive(w)
         \/ \E a \in {"permanent", "refused", "transient"} : Rejected(w, a)
  PROVE  IInv'
<1>0. {"ok", "refused", "transient", "permanent", "uncertain"} \subseteq Answers \ {"none"}
  BY DEF Answers
<1>1. CASE Unprepared(w)
  <2>1. PICK a \in {"refused", "transient"} : Answer(w, a)
    BY <1>1 DEF Unprepared
  <2>2. Unsent(w) /\ pc[w] # "idle" /\ UNCHANGED <<sendVars, deviceVars, providerVars>>
    BY <1>1 DEF Unprepared, Unsent
  <2>3. ~\E r \in Requests' : Of(r, try[w].send, try[w].claim)
    BY <2>2, UnsentHasNone DEF Requests, providerVars
  <2> QED
    BY <1>0, <2>1, <2>2, <2>3, AnswerStep DEF providerVars
<1>2. CASE Lose(w)
  BY <1>0, <1>2, AnswerStep DEF Lose, providerVars
<1>3. CASE Receive(w)
  BY <1>0, <1>3, AnswerStep DEF Receive, providerVars
<1>4. ASSUME NEW a \in {"permanent", "refused", "transient"}, Rejected(w, a)
      PROVE  IInv'
  <2>1. /\ try[w] \in wire /\ wire' = wire \ {try[w]} /\ pc[w] # "idle" /\ Answer(w, a)
        /\ UNCHANGED <<sendVars, deviceVars, accepted>>
    BY <1>4 DEF Rejected
  <2>2. ~\E r \in Requests' : Of(r, try[w].send, try[w].claim)
    BY <2>1 DEF IInv, OneRequest, Requests
  <2> QED
    BY <1>0, <1>4, <2>1, <2>2, AnswerStep
<1> QED
  BY <1>1, <1>2, <1>3, <1>4

\* A worker that crashes, or whose answer comes too late, leaves its row as it is.
LEMMA LostStep ==
  ASSUME IInv, NEW w \in Worker, FinishLost(w) \/ Crash(w)
  PROVE  IInv'
<1>1. Rest(w) /\ UNCHANGED <<sendVars, deviceVars, providerVars>>
  BY DEF FinishLost, Crash
<1>2. /\ MemoryOK' /\ Drawn' /\ OneTry' /\ OneRequest' /\ AnswersAreTrue'
      /\ pc' \in [Worker -> Places] /\ answer' \in [Worker -> Answers]
      /\ \A s \in Send : Loose(s)' \subseteq Loose(s)
  BY <1>1, RestStep DEF sendVars, deviceVars
<1>3. Counted' /\ NewestIsLoose' /\ LooseWasAcked' /\ SentIsDelivered'
  BY <1>1, <1>2, RowsStay DEF sendVars, providerVars
<1>4. TypeOK'
  BY <1>1, <1>2, RowsType DEF IInv, TypeOK, sendVars
<1> QED
  BY <1>2, <1>3, <1>4 DEF IInv

\* A delivered request is still the only one of its claim.
LEMMA DeliverStep ==
  ASSUME IInv, NEW r \in wire, Deliver(r)
  PROVE  IInv'
<1>0. /\ wire' = wire \ {r} /\ accepted' = accepted \cup {r}
      /\ UNCHANGED <<sendVars, deviceVars, workerVars>>
  BY DEF Deliver
<1>1. Requests' = Requests
  BY <1>0 DEF Requests
<1>2. MemoryOK'
  BY <1>0 DEF IInv, MemoryOK, sendVars, deviceVars, workerVars
<1>3. Drawn' /\ OneTry'
  BY <1>0, <1>1 DEF IInv, Drawn, OneTry, Of, sendVars, workerVars
<1>4. OneRequest'
  BY <1>0, <1>1 DEF IInv, OneRequest
<1>5. AnswersAreTrue'
  BY <1>0, <1>1 DEF IInv, AnswersAreTrue, MayHaveCalled, Of, workerVars
<1>6. \A s \in Send : Loose(s)' \subseteq Loose(s)
  BY <1>0, <1>1 DEF Loose, Unsent, Of, sendVars, workerVars
<1>7. Counted' /\ NewestIsLoose' /\ LooseWasAcked' /\ SentIsDelivered'
  BY <1>0, <1>6, RowsStay DEF sendVars
<1>8. TypeOK'
  BY <1>0, RowsType DEF IInv, TypeOK, sendVars, workerVars
<1> QED
  BY <1>2, <1>3, <1>4, <1>5, <1>7, <1>8 DEF IInv

\* The row of an attempt that ends says what its worker was told.
LEMMA FinishStep ==
  ASSUME IInv, NEW w \in Worker, Finish(w)
  PROVE  IInv'
<1> DEFINE s == try[w].send
           o == IF answer[w] \in {"refused", "transient"} THEN "http" ELSE answer[w]
<1>0. /\ pc[w] = "answered" /\ Holds(w) /\ Rest(w)
      /\ status' = [status EXCEPT ![s] = StatusOf(w)]
      /\ outcome' = [outcome EXCEPT ![s] = o]
      /\ retries' = [retries EXCEPT ![s] =
            IF StatusOf(w) = "queued" THEN retries[s] + 1 ELSE retries[s]]
      /\ due' = [due EXCEPT ![s] = StatusOf(w) # "queued"]
      /\ lease' = [lease EXCEPT ![s] = 0]
      /\ UNCHANGED <<live, cred, claims, acks, since, native, active, issued, providerVars>>
  BY DEF Finish
<1>1. /\ try[w] \in Tries /\ s \in Send /\ answer[w] \in Answers \ {"none"}
      /\ status[s] = "queued" /\ lease[s] = try[w].claim /\ lease[s] \in Nat \ {0}
  BY <1>0 DEF IInv, TypeOK, MemoryOK, Tries, Holds
<1>2. lease[s] = claims[s] /\ retries[s] \in 0..MaxRetries
  BY <1>1 DEF IInv, TypeOK, Counted
<1>3. /\ StatusOf(w) \in {"queued", "sent", "failed"}
      /\ StatusOf(w) = "queued" <=> answer[w] = "transient" /\ retries[s] < MaxRetries
      /\ StatusOf(w) = "sent" <=> answer[w] = "ok"
  BY <1>1, <1>2 DEF StatusOf, Terminal, Answers
<1> HIDE DEF s
<1>4. /\ MemoryOK' /\ Drawn' /\ OneTry' /\ OneRequest' /\ AnswersAreTrue'
      /\ pc' \in [Worker -> Places] /\ answer' \in [Worker -> Answers]
      /\ \A k \in Send : Loose(k)' \subseteq Loose(k)
  BY <1>0, RestStep
<1>5. /\ status' \in [Send -> {"absent", "queued", "sent", "failed"}] /\ status'[s] = StatusOf(w)
      /\ outcome' \in [Send -> {"none", "ok", "uncertain", "permanent", "http", "cancelled"}]
      /\ outcome'[s] = o /\ lease' \in [Send -> Nat] /\ lease'[s] = 0
      /\ retries' \in [Send -> 0..MaxRetries]
      /\ retries'[s] = IF StatusOf(w) = "queued" THEN retries[s] + 1 ELSE retries[s]
      /\ \A k \in Send : k # s => /\ status'[k] = status[k] /\ outcome'[k] = outcome[k]
                                  /\ lease'[k] = lease[k] /\ retries'[k] = retries[k]
  <2>1. o \in {"none", "ok", "uncertain", "permanent", "http", "cancelled"}
    BY <1>1 DEF Answers
  <2>2. (IF StatusOf(w) = "queued" THEN retries[s] + 1 ELSE retries[s]) \in 0..MaxRetries
    BY <1>2, <1>3
  <2> HIDE DEF o
  <2> QED
    BY <1>0, <1>1, <1>3, <2>1, <2>2 DEF IInv, TypeOK
<1>6. TypeOK'
  <2>1. due' \in [Send -> BOOLEAN]
    BY <1>0 DEF IInv, TypeOK
  <2>2. status'[s] = "queued" => outcome'[s] \in {"none", "http"}
    BY <1>3, <1>5
  <2> HIDE DEF o
  <2> QED
    BY <1>0, <1>4, <1>5, <2>1, <2>2 DEF IInv, TypeOK
<1> HIDE DEF o
<1>7. Counted'
  <2> SUFFICES ASSUME NEW k \in Send
               PROVE  /\ status'[k] = "absent" => outcome'[k] = "none"
                      /\ lease'[k] \in {0, claims[k]}
                      /\ claims[k] = since[k] + retries'[k] + (IF Waits(k)' THEN 0 ELSE 1)
    BY <1>0 DEF Counted
  <2>1. CASE k # s
    BY <1>5, <2>1 DEF IInv, Counted, Waits
  <2>2. CASE k = s
    <3>1. claims[s] = since[s] + retries[s] + 1 /\ since[s] \in Nat
      BY <1>1 DEF IInv, Counted, Waits, MemoryOK
    <3> QED
      BY <1>2, <1>3, <1>5, <2>2, <3>1 DEF Waits
  <2> QED
    BY <2>1, <2>2
<1>8. NewestIsLoose'
  <2> SUFFICES ASSUME NEW k \in Send, NEW c \in Loose(k)', c > since[k]
               PROVE  c = claims[k] /\ ~Sure(k)'
    BY <1>0 DEF NewestIsLoose
  <2>1. c \in Loose(k) /\ c = claims[k] /\ ~Sure(k)
    BY <1>4 DEF IInv, NewestIsLoose
  <2>2. CASE k # s
    BY <1>5, <2>1, <2>2 DEF Sure, Waits
  <2>3. CASE k = s
    <3>1. \A v \in Worker : ~(Unsent(v)' /\ Of(try'[v], s, c))
      <4> SUFFICES ASSUME NEW v \in Worker, Unsent(v)', Of(try'[v], s, c) PROVE FALSE
        OBVIOUS
      <4>1. v # w /\ pc[v] # "idle" /\ Of(try[v], s, c)
        BY <1>0 DEF Rest, Unsent, IInv, TypeOK, MemoryOK
      <4> QED
        BY <1>0, <1>1, <1>2, <2>1, <2>3, <4>1 DEF IInv, OneTry, Of, s
    <3>2. \E r \in Requests : Of(r, s, c)
      BY <1>0, <2>3, <3>1 DEF Loose, Requests, providerVars, Of
    <3>3. MayHaveCalled(w)
      BY <1>0, <1>1, <1>2, <2>1, <2>3, <3>2 DEF IInv, AnswersAreTrue, s
    <3>4. answer[w] \in {"ok", "uncertain"}
      BY <1>0, <3>3 DEF MayHaveCalled
    <3>5. status'[s] \in {"sent", "failed"} /\ (status'[s] = "failed" => outcome'[s] = "uncertain")
      BY <1>3, <1>5, <3>4 DEF o
    <3> QED
      BY <2>1, <2>3, <3>5 DEF Sure, Waits
  <2> QED
    BY <2>2, <2>3
<1>9. LooseWasAcked'
  BY <1>0, <1>4, AckedStays
<1>10. SentIsDelivered'
  <2> SUFFICES ASSUME NEW k \in Send, status'[k] = "sent"
               PROVE  \E r \in accepted : r.send = k /\ r.claim > since[k]
    BY <1>0 DEF SentIsDelivered, providerVars
  <2>1. CASE k # s
    BY <1>5, <2>1 DEF IInv, SentIsDelivered
  <2>2. CASE k = s
    <3>1. try[w] \in accepted
      BY <1>0, <1>3, <1>5, <2>2 DEF IInv, AnswersAreTrue
    <3>2. claims[s] = since[s] + retries[s] + 1 /\ since[s] \in Nat
      BY <1>1 DEF IInv, Counted, Waits, MemoryOK
    <3>3. try[w].send = s /\ try[w].claim > since[s]
      BY <1>1, <1>2, <3>2 DEF s
    <3> QED
      BY <2>2, <3>1, <3>3
  <2> QED
    BY <2>1, <2>2
<1> QED
  BY <1>4, <1>6, <1>7, <1>8, <1>9, <1>10 DEF IInv

-----------------------------------------------------------------------------
(* The theorems.                                                           *)

\* One step per action.
LEMMA InvStep == IInv /\ [Next]_vars => IInv'
<1> SUFFICES ASSUME IInv, [Next]_vars PROVE IInv'
  OBVIOUS
<1>1. /\ native \in [Device -> Nat] /\ issued \in [Device -> Nat]
      /\ active \in Credential \cup {NoCredential}
  BY DEF IInv, MemoryOK
<1>2. ASSUME NEW d \in Device,
             \/ Reissue(d) \/ Register(d) \/ \E who \in {"device", "operator"} : Revoke(d, who)
      PROVE  IInv'
  <2>1. /\ native' \in [Device -> Nat] /\ issued' \in [Device -> Nat] /\ active' = active
        /\ UNCHANGED <<sendVars, providerVars, workerVars>>
    BY <1>1, <1>2 DEF Reissue, Register, Revoke
  <2> QED
    BY <1>1, <2>1, DeviceStep
<1>3. ASSUME NEW c \in Credential \cup {NoCredential}, Rotate(c) PROVE IInv'
  BY <1>1, <1>3, DeviceStep DEF Rotate
<1>4. CASE UNCHANGED vars
  BY <1>1, <1>4, DeviceStep DEF vars, deviceVars
<1>5. ASSUME NEW w \in Worker, WorkerStep(w) PROVE IInv'
  BY <1>5, AllowStep, PrepareStep, CallStep, EndStep, FinishStep, LostStep DEF WorkerStep
<1> QED
  BY <1>2, <1>3, <1>4, <1>5, EnqueueStep, RequeueStep, TimeStep, SweepStep, ClaimStep, LostStep,
     DeliverStep DEF Next

\* The inductive invariant: claims, requests and rows agree in every state.
THEOREM Invariance == Spec => []IInv
<1> QED
  BY InvInit, InvStep, PTL DEF Spec

\* Columns and memory stay in their domains, and only queued rows are leased.
THEOREM PushTypes == Spec => []TypeOK
<1>1. IInv => TypeOK
  BY DEF IInv
<1> QED
  BY <1>1, Invariance, PTL

\* A send makes at most 1 + MAX_RETRIES attempts each time it is queued (push_worker.rs,
\* finish), whoever crashes: an attempt whose end nobody knows closes the row instead of
\* running again.
THEOREM AttemptsAreBounded == Spec => []AttemptsBounded
<1>1. IInv => AttemptsBounded
  BY DEF IInv, TypeOK, MemoryOK, Counted, AttemptsBounded
<1> QED
  BY <1>1, Invariance, PTL

\* What a row says of its delivery since it was queued last is true (push_worker.rs,
\* finish and the sweep): no crash, late answer or lost lease makes it lie.
THEOREM OutcomeIsHonest == Spec => []HonestOutcome
<1>1. ASSUME IInv PROVE HonestOutcome
  <2> SUFFICES ASSUME NEW s \in Send
               PROVE  LET delivered == {r \in DeliveredBy(s) : r.claim > since[s]}
                      IN  /\ status[s] = "sent" => delivered # {}
                          /\ status[s] = "failed" /\ outcome[s] # "uncertain" => delivered = {}
                          /\ status[s] = "queued" /\ lease[s] = 0 => delivered = {}
    BY DEF HonestOutcome
  <2> DEFINE delivered == {r \in DeliveredBy(s) : r.claim > since[s]}
  <2>1. status[s] = "sent" => delivered # {}
    BY <1>1 DEF IInv, SentIsDelivered, DeliveredBy
  <2>2. ASSUME Sure(s) PROVE delivered = {}
    <3> SUFFICES ASSUME NEW r \in accepted, r.send = s, r.claim > since[s] PROVE FALSE
      BY DEF DeliveredBy
    <3>1. r \in Requests /\ r.claim \in Nat \ {0} /\ r.claim <= claims[s] /\ claims[s] \in Nat
      BY <1>1 DEF Requests, IInv, MemoryOK, Tries, Drawn, TypeOK
    <3>2. r.claim \in Loose(s)
      BY <3>1 DEF Loose, Of
    <3> QED
      BY <1>1, <2>2, <3>2 DEF IInv, NewestIsLoose
  <2> QED
    BY <2>1, <2>2 DEF Sure, Waits
<1> QED
  BY <1>1, Invariance, PTL

\* A message arrives twice only if an operator accepted that it might
\* (push_commands.rs, retry_send): no crash, timeout, retry, expired lease or late
\* answer repeats it.
THEOREM NoDuplicateUnasked == Spec => []NoUnaskedDuplicate
<1>1. ASSUME IInv PROVE NoUnaskedDuplicate
  <2> SUFFICES ASSUME NEW s \in Send PROVE Cardinality(DeliveredBy(s)) <= 1 + acks[s]
    BY DEF NoUnaskedDuplicate
  <2> DEFINE Old == {c \in Loose(s) : c <= since[s]}
             All == Old \cup {claims[s]}
             f == [r \in DeliveredBy(s) |-> r.claim]
  <2>1. /\ IsFiniteSet(Old) /\ Cardinality(Old) \in Nat
        /\ Cardinality(Old) <= acks[s] /\ acks[s] \in Nat
    BY <1>1, LooseFinite DEF IInv, TypeOK, LooseWasAcked, MemoryOK
  <2>2. IsFiniteSet(All) /\ Cardinality(All) <= Cardinality(Old) + 1 /\ Cardinality(All) \in Nat
    <3>1. /\ IsFiniteSet(All)
          /\ Cardinality(All) = IF claims[s] \in Old THEN Cardinality(Old) ELSE Cardinality(Old) + 1
      BY <2>1, FS_AddElement
    <3> HIDE DEF Old
    <3> QED
      BY <2>1, <3>1
  <2>3. \A r \in DeliveredBy(s) : r.claim \in All
    <3> SUFFICES ASSUME NEW r \in accepted, r.send = s PROVE r.claim \in All
      BY DEF DeliveredBy
    <3>1. r \in Requests /\ r.claim \in Nat \ {0} /\ r.claim <= claims[s] /\ claims[s] \in Nat
      BY <1>1 DEF Requests, IInv, MemoryOK, Tries, Drawn, TypeOK
    <3>2. r.claim \in Loose(s)
      BY <3>1 DEF Loose, Of
    <3>3. r.claim > since[s] => r.claim = claims[s]
      BY <1>1, <3>2 DEF IInv, NewestIsLoose
    <3>4. since[s] \in Nat
      BY <1>1 DEF IInv, MemoryOK
    <3> QED
      BY <3>1, <3>2, <3>3, <3>4
  <2>4. \A r, q \in DeliveredBy(s) : r.claim = q.claim => r = q
    BY <1>1 DEF IInv, OneRequest, Requests, DeliveredBy, Of
  <2>5. f \in Injection(DeliveredBy(s), All)
    BY <2>3, <2>4 DEF Injection, IsInjective
  <2>6. IsFiniteSet(DeliveredBy(s)) /\ Cardinality(DeliveredBy(s)) <= Cardinality(All)
    BY <2>2, <2>5, FS_Injection
  <2>7. Cardinality(DeliveredBy(s)) \in Nat
    BY <2>6, FS_CardinalityType
  <2> QED
    BY <2>1, <2>2, <2>6, <2>7
<1> QED
  BY <1>1, Invariance, PTL

-----------------------------------------------------------------------------
(* The refinement of PushPromise.                                          *)

\* The domains that the promise is read from.
LEMMA Types ==
  ASSUME IInv
  PROVE  /\ status \in [Send -> {"absent", "queued", "sent", "failed"}]
         /\ outcome \in [Send -> {"none", "ok", "uncertain", "permanent", "http", "cancelled"}]
         /\ retries \in [Send -> 0..MaxRetries] /\ lease \in [Send -> Nat]
         /\ claims \in [Send -> Nat] /\ since \in [Send -> Nat] /\ acks \in [Send -> Nat]
         /\ \A r \in accepted : r \in Tries /\ r.claim \in Nat \ {0} /\ r.send \in Send
                                /\ r.claim <= claims[r.send]
  BY DEF IInv, TypeOK, MemoryOK, Drawn, Requests, Tries

\* Every delivered claim is loose.
LEMMA DeliveredIsLoose ==
  ASSUME IInv, NEW s \in Send, NEW r \in DeliveredBy(s)
  PROVE  r.claim \in Loose(s)
<1>1. r \in Requests /\ r.send = s /\ r.claim \in 1..claims[s]
  BY Types DEF DeliveredBy, Requests
<1> QED
  BY <1>1 DEF Loose, Of

\* A row that is sure of it has not been delivered since it was queued last.
LEMMA SureIsStale ==
  ASSUME IInv, NEW s \in Send, Sure(s)
  PROVE  s \notin fresh
  BY DeliveredIsLoose DEF IInv, NewestIsLoose, fresh, DeliveredBy

\* Finitely many requests are delivered, and the acknowledgements pay for the early ones.
LEMMA EarlyWasRisked ==
  ASSUME IInv, NEW s \in Send
  PROVE  /\ IsFiniteSet(DeliveredBy(s))
         /\ early[s] \in Nat /\ early[s] <= acks[s]
<1> DEFINE Old == {c \in Loose(s) : c <= since[s]}
           Early == {r \in DeliveredBy(s) : r.claim <= since[s]}
           f == [r \in Early |-> r.claim]
           g == [r \in DeliveredBy(s) |-> r.claim]
<1>1. /\ IsFiniteSet(Old) /\ Cardinality(Old) \in Nat
      /\ Cardinality(Old) <= acks[s] /\ acks[s] \in Nat
  BY LooseFinite DEF IInv, TypeOK, LooseWasAcked, MemoryOK
<1>2. \A r, q \in DeliveredBy(s) : r.claim = q.claim => r = q
  BY DEF IInv, OneRequest, Requests, DeliveredBy, Of
<1>3. IsFiniteSet(Loose(s))
  BY LooseFinite, Types
<1>4. g \in Injection(DeliveredBy(s), Loose(s))
  BY <1>2, DeliveredIsLoose DEF Injection, IsInjective
<1>5. IsFiniteSet(DeliveredBy(s))
  BY <1>3, <1>4, FS_Injection
<1>6. f \in Injection(Early, Old)
  BY <1>2, DeliveredIsLoose DEF Injection, IsInjective
<1>7. IsFiniteSet(Early) /\ Cardinality(Early) <= Cardinality(Old)
  BY <1>1, <1>6, FS_Injection
<1>8. Cardinality(Early) \in Nat
  BY <1>7, FS_CardinalityType
<1>9. early[s] = Cardinality(Early)
  BY DEF early
<1> HIDE DEF Early, Old
<1> QED
  BY <1>1, <1>5, <1>7, <1>8, <1>9

\* The acknowledgements cover what arrived before the row was queued last.
Paid == \A s \in Send : early[s] <= acks[s]
LEMMA EarlyIsPaid == IInv => Paid
  BY EarlyWasRisked DEF Paid

\* What the promise sees of a row that an action leaves as it is.
LEMMA PromiseStays ==
  ASSUME UNCHANGED <<status, outcome, claims, since, acks, accepted>>
  PROVE  UNCHANGED <<row, tries, fresh, early, acks>>
  BY DEF row, tries, fresh, early, DeliveredBy

\* What it sees of the deliveries while none is made and nothing is queued again.
LEMMA ArrivalsStay ==
  ASSUME UNCHANGED <<since, accepted>>
  PROVE  UNCHANGED <<fresh, early>>
  BY DEF fresh, early, DeliveredBy

\* A row that enters the queue.
LEMMA AskStep ==
  ASSUME IInv, NEW s \in Send, Enqueue(s)
  PROVE  Promise!Ask(s)
<1>1. /\ UNCHANGED <<outcome, claims, since, acks, accepted>>
      /\ status[s] = "absent" /\ status' = [status EXCEPT ![s] = "queued"]
  BY DEF Enqueue, providerVars
<1>2. row[s] = "absent" /\ row' = [row EXCEPT ![s] = "open"]
  BY <1>1, Types DEF row
<1>3. tries' = tries
  BY <1>1 DEF tries
<1> QED
  BY <1>1, <1>2, <1>3, ArrivalsStay DEF Promise!Ask

\* A claim is an attempt within the limit, of what has not arrived.
LEMMA AttemptStep ==
  ASSUME IInv, NEW w \in Worker, NEW s \in Send, Claim(w, s)
  PROVE  Promise!Attempt(s)
<1>1. /\ UNCHANGED <<status, outcome, since, acks, accepted>>
      /\ status[s] = "queued" /\ lease[s] = 0
      /\ claims' = [claims EXCEPT ![s] = claims[s] + 1]
  BY DEF Claim, providerVars
<1>2. row[s] = "open" /\ row' = row
  BY <1>1 DEF row
<1>3. Sure(s) /\ Waits(s)
  BY <1>1 DEF Sure, Waits
<1>4. s \notin fresh
  BY <1>3, SureIsStale
<1>5. claims[s] = since[s] + retries[s]
  BY <1>3, Types DEF IInv, Counted
<1>6. tries[s] <= MaxRetries
  BY <1>5, Types DEF tries
<1>7. tries' = [tries EXCEPT ![s] = tries[s] + 1]
  <2>1. \A k \in Send : /\ claims[k] \in Nat /\ since[k] \in Nat
                        /\ claims'[k] = IF k = s THEN claims[k] + 1 ELSE claims[k]
    BY <1>1, Types
  <2>2. \A k \in Send : tries'[k] = IF k = s THEN tries[k] + 1 ELSE tries[k]
    BY <1>1, <2>1 DEF tries
  <2> QED
    BY <2>2 DEF tries
<1> QED
  BY <1>1, <1>2, <1>4, <1>6, <1>7, ArrivalsStay DEF Promise!Attempt

\* What an operator queues again: the delivery it may have had is now an early one.
LEMMA RepeatStep ==
  ASSUME IInv, NEW s \in Send, NEW b \in BOOLEAN, Requeue(s, b)
  PROVE  Promise!Repeat(s)
<1>1. /\ UNCHANGED <<claims, accepted>>
      /\ status[s] = "failed" /\ status' = [status EXCEPT ![s] = "queued"]
      /\ outcome' = [outcome EXCEPT ![s] = "none"]
      /\ acks' = [acks EXCEPT ![s] = IF outcome[s] = "uncertain" THEN acks[s] + 1 ELSE acks[s]]
      /\ since' = [since EXCEPT ![s] = claims[s]]
  BY DEF Requeue, providerVars
<1>2. row[s] \in {"failed", "unknown"} /\ (row[s] = "unknown" <=> outcome[s] = "uncertain")
  BY <1>1 DEF row
<1>3. row' = [row EXCEPT ![s] = "open"]
  BY <1>1, Types DEF row
<1>4. tries' = [tries EXCEPT ![s] = 0]
  <2>1. \A k \in Send : /\ claims[k] \in Nat
                        /\ since'[k] = IF k = s THEN claims[k] ELSE since[k]
    BY <1>1, Types
  <2>2. \A k \in Send : tries'[k] = IF k = s THEN 0 ELSE tries[k]
    BY <1>1, <2>1 DEF tries
  <2> QED
    BY <2>2 DEF tries
<1>5. \A k \in Send : DeliveredBy(k)' = DeliveredBy(k)
  BY <1>1 DEF DeliveredBy
<1>6. /\ since'[s] = claims[s] /\ \A k \in Send : k # s => since'[k] = since[k]
      /\ \A r \in DeliveredBy(s) : r.claim \in Nat /\ r.claim <= claims[s]
      /\ claims[s] \in Nat /\ since[s] \in Nat
  BY <1>1, Types DEF DeliveredBy
<1>7. fresh' = fresh \ {s}
  <2>1. s \notin fresh'
    BY <1>5, <1>6 DEF fresh
  <2>2. \A k \in Send : k # s => (k \in fresh' <=> k \in fresh)
    BY <1>5, <1>6 DEF fresh
  <2> QED
    BY <2>1, <2>2 DEF fresh
<1>8. early' = [early EXCEPT ![s] = IF s \in fresh THEN early[s] + 1 ELSE early[s]]
  <2> DEFINE Old == {r \in DeliveredBy(s) : r.claim <= since[s]}
  <2>1. \A k \in Send : k # s => early'[k] = early[k]
    BY <1>5, <1>6 DEF early
  <2>2. early'[s] = Cardinality(DeliveredBy(s))
    <3>1. {r \in DeliveredBy(s) : r.claim <= claims[s]} = DeliveredBy(s)
      BY <1>6
    <3> QED
      BY <1>5, <1>6, <3>1 DEF early
  <2>3. early[s] = Cardinality(Old) /\ IsFiniteSet(DeliveredBy(s))
    BY EarlyWasRisked DEF early
  <2>4. CASE s \notin fresh
    <3>1. Old = DeliveredBy(s)
      BY <1>6, <2>4 DEF fresh
    <3> QED
      BY <2>1, <2>2, <2>3, <2>4, <3>1 DEF early
  <2>5. CASE s \in fresh
    <3>1. PICK q \in DeliveredBy(s) : q.claim > since[s]
      BY <2>5 DEF fresh
    <3>2. \A r \in DeliveredBy(s) : r.claim > since[s] => r = q
      <4>1. \A r \in DeliveredBy(s) : r.claim > since[s] => r.claim = claims[s]
        BY DeliveredIsLoose DEF IInv, NewestIsLoose
      <4> QED
        BY <3>1, <4>1 DEF IInv, OneRequest, Requests, DeliveredBy, Of
    <3>3. DeliveredBy(s) = Old \cup {q} /\ q \notin Old
      BY <1>6, <3>1, <3>2
    <3>4. IsFiniteSet(Old)
      BY <2>3, FS_Subset
    <3>5. Cardinality(Old \cup {q}) = Cardinality(Old) + 1
      BY <3>3, <3>4, FS_AddElement
    <3> HIDE DEF Old
    <3>6. early'[s] = early[s] + 1
      BY <2>2, <2>3, <3>3, <3>5
    <3> QED
      BY <2>1, <2>5, <3>6 DEF early
  <2> QED
    BY <2>4, <2>5
<1>9. acks' = [acks EXCEPT ![s] = IF row[s] = "unknown" THEN acks[s] + 1 ELSE acks[s]]
  BY <1>1, <1>2
<1> QED
  BY <1>2, <1>3, <1>4, <1>7, <1>8, <1>9 DEF Promise!Repeat

\* A leased row has an attempt to show.
LEMMA LeasedHasTried ==
  ASSUME IInv, NEW s \in Send, status[s] = "queued", lease[s] # 0
  PROVE  row[s] = "open" /\ tries[s] > 0
<1>1. claims[s] = since[s] + retries[s] + 1
  BY DEF IInv, Counted, Waits
<1> QED
  BY <1>1, Types DEF row, tries

\* The sweep closes every send whose lease ran out, and knows nothing of their ends.
LEMMA GiveUpStep ==
  ASSUME IInv, NEW w \in Worker, Sweep(w)
  PROVE  \E S \in SUBSET Send : Promise!GiveUp(S)
<1> DEFINE S == {s \in Send : Expired(s)}
<1>1. /\ UNCHANGED <<claims, since, acks, accepted>>
      /\ status' = [s \in Send |-> IF Expired(s) THEN "failed" ELSE status[s]]
      /\ outcome' = [s \in Send |-> IF Expired(s) THEN "uncertain" ELSE outcome[s]]
  BY DEF Sweep, providerVars
<1>2. \A s \in S : row[s] = "open" /\ tries[s] > 0
  BY LeasedHasTried DEF Expired
<1>3. row' = [s \in Send |-> IF s \in S THEN "unknown" ELSE row[s]]
  BY <1>1 DEF row
<1>4. tries' = tries
  BY <1>1 DEF tries
<1>5. Promise!GiveUp(S)
  BY <1>1, <1>2, <1>3, <1>4, ArrivalsStay DEF Promise!GiveUp
<1> QED
  BY <1>5

\* What a row that is closed for certain says of its end, in the words of the promise.
ClosedForCertain ==
    \A s \in Send : /\ status[s] = "sent" => s \in fresh
                    /\ status[s] = "failed" /\ outcome[s] # "uncertain" => s \notin fresh

\* The invariant knows the end of every row that is closed for certain (HonestOutcome).
LEMMA ClosedIsFresh == IInv => ClosedForCertain
<1> SUFFICES ASSUME IInv, NEW s \in Send
             PROVE  /\ status[s] = "sent" => s \in fresh
                    /\ status[s] = "failed" /\ outcome[s] # "uncertain" => s \notin fresh
  BY DEF ClosedForCertain
<1>1. status[s] = "sent" => s \in fresh
  BY DEF IInv, SentIsDelivered, fresh, DeliveredBy
<1> QED
  BY <1>1, SureIsStale DEF Sure

\* The end of an attempt keeps its row open for a retry, closes it or gives it up.
LEMMA CloseStep ==
  ASSUME IInv, IInv', NEW w \in Worker, Finish(w)
  PROVE  \/ UNCHANGED <<row, tries, fresh, early, acks>>
         \/ \E s \in Send : Promise!Close(s)
         \/ \E S \in SUBSET Send : Promise!GiveUp(S)
<1> DEFINE s == try[w].send
<1>1. /\ s \in Send /\ status[s] = "queued" /\ lease[s] # 0
  BY DEF IInv, MemoryOK, Finish, Holds, Tries
<1>2. /\ UNCHANGED <<claims, since, acks, accepted>>
      /\ \A k \in Send : k # s => status'[k] = status[k] /\ outcome'[k] = outcome[k]
      /\ status'[s] \in {"queued", "sent", "failed"}
  BY <1>1, Types DEF Finish, StatusOf, providerVars
<1> HIDE DEF s
<1>3. row[s] = "open" /\ tries[s] > 0
  BY <1>1, LeasedHasTried
<1>4. UNCHANGED <<tries, fresh, early>>
  BY <1>2, ArrivalsStay DEF tries
<1>5. \A k \in Send : k # s => row'[k] = row[k]
  BY <1>2 DEF row
<1>6. CASE status'[s] = "queued"
  <2>1. row' = row
    BY <1>3, <1>5, <1>6 DEF row
  <2> QED
    BY <1>2, <1>4, <2>1
<1>7. CASE status'[s] = "failed" /\ outcome'[s] = "uncertain"
  <2>1. row' = [k \in Send |-> IF k \in {s} THEN "unknown" ELSE row[k]]
    BY <1>1, <1>5, <1>7 DEF row
  <2>2. Promise!GiveUp({s})
    BY <1>2, <1>3, <1>4, <2>1 DEF Promise!GiveUp
  <2> QED
    BY <1>1, <2>2
<1>8. CASE status'[s] = "sent" \/ (status'[s] = "failed" /\ outcome'[s] # "uncertain")
  <2>1. \/ status'[s] = "sent" /\ s \in fresh'
        \/ status'[s] = "failed" /\ outcome'[s] # "uncertain" /\ s \notin fresh'
    <3>1. ClosedForCertain'
      BY ClosedIsFresh, PTL
    <3> QED
      BY <1>1, <1>8, <3>1 DEF ClosedForCertain
  <2>2. row'[s] = IF s \in fresh THEN "sent" ELSE "failed"
    BY <1>1, <1>4, <2>1 DEF row
  <2>3. row' = [row EXCEPT ![s] = IF s \in fresh THEN "sent" ELSE "failed"]
    BY <1>1, <1>5, <2>2 DEF row
  <2>4. Promise!Close(s)
    BY <1>2, <1>3, <1>4, <2>3 DEF Promise!Close
  <2> QED
    BY <1>1, <2>4
<1> QED
  BY <1>2, <1>6, <1>7, <1>8

\* A delivery is the first since the row was queued last, or one that was risked.
LEMMA ArriveStep ==
  ASSUME IInv, IInv', NEW r \in wire, Deliver(r)
  PROVE  \E s \in Send : Promise!Arrive(s) \/ Promise!ArriveLate(s)
<1> DEFINE s == r.send
<1>1. /\ accepted' = accepted \cup {r}
      /\ UNCHANGED <<status, outcome, lease, claims, since, acks>>
  BY DEF Deliver, sendVars
<1>2. /\ s \in Send /\ r.claim \in Nat \ {0} /\ r.claim <= claims[s] /\ r \notin accepted
      /\ r \in Requests
  BY DEF IInv, MemoryOK, Tries, Drawn, Requests, OneRequest
<1>3. DeliveredBy(s)' = DeliveredBy(s) \cup {r} /\ r \notin DeliveredBy(s)
      /\ \A k \in Send : k # s => DeliveredBy(k)' = DeliveredBy(k)
  BY <1>1, <1>2 DEF DeliveredBy
<1>4. row' = row /\ tries' = tries
  BY <1>1 DEF row, tries
<1>5. r.claim \in Loose(s)
  BY <1>2, Types DEF Loose, Of
<1>6. since[s] \in Nat /\ claims[s] \in Nat /\ acks[s] \in Nat
  BY <1>2, Types
<1> HIDE DEF s
<1>7. CASE r.claim > since[s]
  <2>1. ~Sure(s) /\ r.claim = claims[s]
    BY <1>2, <1>5, <1>7 DEF IInv, NewestIsLoose
  <2>2. s \notin fresh
    <3> SUFFICES ASSUME NEW q \in DeliveredBy(s), q.claim > since[s] PROVE FALSE
      BY DEF fresh
    <3>1. q.claim = claims[s] /\ q \in Requests /\ q.send = s
      BY <1>2, DeliveredIsLoose DEF IInv, NewestIsLoose, DeliveredBy, Requests
    <3>2. q = r
      BY <1>2, <2>1, <3>1 DEF IInv, OneRequest, Of, s
    <3> QED
      BY <1>3, <3>2
  <2>3. row[s] \in {"open", "unknown"}
    <3>1. status[s] # "sent"
      BY <1>2, <2>2, ClosedIsFresh DEF ClosedForCertain
    <3> QED
      <4>1. status[s] = "queued" \/ (status[s] = "failed" /\ outcome[s] = "uncertain")
        <5>1. status[s] # "absent"
          <6>1. status[s] = "absent" => lease[s] = 0
            BY <1>2 DEF IInv, TypeOK
          <6> QED
            BY <2>1, <6>1 DEF Sure, Waits
        <5> QED
          BY <1>2, <2>1, <3>1, <5>1, Types DEF Sure
      <4> QED
        BY <1>2, <4>1 DEF row
  <2>4. tries[s] > 0
    BY <1>2, <1>6, <1>7, <2>1 DEF tries
  <2>5. fresh' = fresh \cup {s}
    BY <1>1, <1>2, <1>3, <1>7 DEF fresh
  <2>6. early' = early
    <3>1. {q \in DeliveredBy(s)' : q.claim <= since[s]} = {q \in DeliveredBy(s) : q.claim <= since[s]}
      BY <1>2, <1>3, <1>6, <1>7
    <3> QED
      BY <1>1, <1>2, <1>3, <3>1 DEF early
  <2>7. Promise!Arrive(s)
    BY <1>1, <1>4, <2>2, <2>3, <2>4, <2>5, <2>6 DEF Promise!Arrive
  <2> QED
    BY <1>2, <2>7
<1>8. CASE ~(r.claim > since[s])
  <2> DEFINE Old == {q \in DeliveredBy(s) : q.claim <= since[s]}
  <2>1. fresh' = fresh
    <3>1. \A k \in Send : k \in fresh' <=> k \in fresh
      BY <1>1, <1>2, <1>3, <1>8 DEF fresh
    <3> QED
      BY <3>1 DEF fresh
  <2>2. \A k \in Send : k # s => early'[k] = early[k]
    BY <1>1, <1>3 DEF early
  <2>3. early[s] = Cardinality(Old) /\ IsFiniteSet(DeliveredBy(s)) /\ early[s] \in Nat
    BY <1>2, EarlyWasRisked DEF early
  <2>4. {q \in DeliveredBy(s)' : q.claim <= since[s]} = Old \cup {r} /\ r \notin Old
    BY <1>2, <1>3, <1>6, <1>8
  <2>5. IsFiniteSet(Old)
    BY <2>3, FS_Subset
  <2>6. Cardinality(Old \cup {r}) = Cardinality(Old) + 1
    BY <2>4, <2>5, FS_AddElement
  <2>7. early'[s] = Cardinality(Old \cup {r})
    BY <1>1, <1>2, <2>4 DEF early
  <2> HIDE DEF Old
  <2>8. early'[s] = early[s] + 1
    BY <2>3, <2>6, <2>7
  <2>9. early'[s] <= acks'[s]
    <3>1. Paid'
      BY EarlyIsPaid, PTL
    <3> QED
      BY <1>2, <3>1 DEF Paid
  <2>10. early[s] < acks[s]
    BY <1>1, <1>6, <2>3, <2>8, <2>9
  <2>11. early' = [early EXCEPT ![s] = early[s] + 1]
    BY <1>2, <2>2, <2>8 DEF early
  <2>12. Promise!ArriveLate(s)
    BY <1>1, <1>4, <2>1, <2>10, <2>11 DEF Promise!ArriveLate
  <2> QED
    BY <1>2, <2>12
<1> QED
  BY <1>7, <1>8

\* Every step of the worker is one of the promise, or leaves it alone.
LEMMA PromiseStep ==
  ASSUME IInv, [Next]_vars
  PROVE  [Promise!Next]_<<row, tries, fresh, early, acks>>
<1> USE DEF Promise!Next
<1>1. IInv'
  BY InvStep
<1>2. ASSUME UNCHANGED sendVars, UNCHANGED accepted
      PROVE  UNCHANGED <<row, tries, fresh, early, acks>>
  BY <1>2, PromiseStays DEF sendVars
<1>3. ASSUME NEW s \in Send, Enqueue(s) \/ (\E b \in BOOLEAN : Requeue(s, b))
      PROVE  Promise!Next
  BY <1>3, AskStep, RepeatStep
<1>4. ASSUME NEW s \in Send, LeaseExpires(s) \/ BackoffElapses(s)
      PROVE  UNCHANGED <<row, tries, fresh, early, acks>>
  BY <1>4, PromiseStays DEF LeaseExpires, BackoffElapses, providerVars
<1>5. ASSUME NEW d \in Device, \/ Reissue(d) \/ Register(d)
                               \/ \E who \in {"device", "operator"} : Revoke(d, who)
      PROVE  UNCHANGED <<row, tries, fresh, early, acks>>
  BY <1>2, <1>5 DEF Reissue, Register, Revoke, providerVars
<1>6. ASSUME NEW c \in Credential \cup {NoCredential}, Rotate(c)
      PROVE  UNCHANGED <<row, tries, fresh, early, acks>>
  BY <1>2, <1>6 DEF Rotate, providerVars
<1>7. ASSUME NEW w \in Worker, WorkerStep(w) \/ Crash(w), ~Finish(w)
      PROVE  UNCHANGED <<row, tries, fresh, early, acks>>
  BY <1>2, <1>7 DEF WorkerStep, Crash, Allow, Prepare, Call, Unprepared, Lose, Receive, Rejected,
                    FinishLost, providerVars
<1>8. ASSUME NEW w \in Worker, Sweep(w) \/ Finish(w) \/ (\E s \in Send : Claim(w, s))
      PROVE  [Promise!Next]_<<row, tries, fresh, early, acks>>
  BY <1>1, <1>8, GiveUpStep, CloseStep, AttemptStep
<1>9. ASSUME NEW r \in wire, Deliver(r)
      PROVE  Promise!Next
  BY <1>1, <1>9, ArriveStep
<1>10. CASE UNCHANGED vars
  BY <1>2, <1>10 DEF vars, providerVars
<1> QED
  BY <1>3, <1>4, <1>5, <1>6, <1>7, <1>8, <1>9, <1>10 DEF Next

\* The protocol of leases, claims, workers and providers keeps PushPromise: attempts to a
\* limit, none after the message has arrived, honest ends, and a second arrival only for
\* what an operator risked (push_worker.rs, push_commands.rs).
THEOREM KeepsThePromise == Spec => ImplementsPromise
<1>1. Init => Promise!Init
  <2> SUFFICES ASSUME Init PROVE Promise!Init
    OBVIOUS
  <2>1. row = [s \in Send |-> "absent"]
    BY DEF Init, row
  <2>2. tries = [s \in Send |-> 0] /\ acks = [s \in Send |-> 0]
    BY DEF Init, tries
  <2>3. \A s \in Send : DeliveredBy(s) = {}
    BY DEF Init, DeliveredBy
  <2>4. fresh = {}
    BY <2>3 DEF fresh
  <2>5. early = [s \in Send |-> 0]
    <3>1. \A s \in Send : {r \in DeliveredBy(s) : r.claim <= since[s]} = {}
      BY <2>3
    <3> QED
      BY <3>1, FS_EmptySet DEF early
  <2> QED
    BY <2>1, <2>2, <2>4, <2>5 DEF Promise!Init
<1>2. IInv /\ [Next]_vars => [Promise!Next]_<<row, tries, fresh, early, acks>>
  BY PromiseStep
<1> QED
  BY <1>1, <1>2, Invariance, PTL DEF Spec, ImplementsPromise, Promise!Spec, Promise!promiseVars
=============================================================================
