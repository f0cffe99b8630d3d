---------------------------- MODULE PushDelivery ----------------------------
(***************************************************************************)
(* Durable push attempts with database leases (server/src/push_worker.rs): *)
(* a worker claims a queued row, calls the provider outside any            *)
(* transaction and closes the attempt under its lease.  An attempt whose   *)
(* end nobody knows is `uncertain' and only an operator who accepts a      *)
(* duplicate may repeat it.                                                *)
(*                                                                         *)
(* Beside the workers: the providers, the operator (push_commands.rs), and *)
(* the devices, which register again when their provider gives them a new  *)
(* native token.  A lease's UUID is the number of the claim that draws it; *)
(* `live' says that lease_until is in the future, `due' that               *)
(* next_attempt_at is in the past.                                         *)
(***************************************************************************)
EXTENDS Integers, FiniteSets

CONSTANTS
    Worker,       \* push workers, one per server process
    Send,         \* rows of push_sends
    Device, Target,  \* Target: [Send -> Device]
    Credential,
    MaxRetries,   \* MAX_RETRIES, 5 in the code
    MaxRequeues,  \* bound: times an operator requeues a send
    MaxTokens,    \* bound: native tokens a provider issues to a device
    NoCredential

ASSUME PushAssumption ==
    /\ MaxRetries \in Nat /\ MaxRequeues \in Nat /\ MaxTokens \in Nat \ {0}
    /\ Target \in [Send -> Device] /\ NoCredential \notin Credential

VARIABLES
    \* Columns of push_sends
    status, outcome, retries, lease, live, due, cred,
    claims,       \* history: how many claims a row has seen
    requeues, acks,  \* history: times it was requeued, and requeued as a possible duplicate
    since,        \* history: its claims when it was queued last
    \* Devices and credentials
    native, revoked,  \* columns of device_tokens: native token; who revoked it
    active,       \* the active credential
    \* The providers
    issued,       \* the token that is valid for a device; earlier ones are dead
    wire,         \* requests on their way
    accepted,     \* requests a provider delivered
    \* Memory of the workers
    pc, try, answer  \* place, attempt in hand, result of the call

sendVars == <<status, outcome, retries, lease, live, due, cred, claims, requeues, acks, since>>
deviceVars == <<native, revoked, active, issued>>
providerVars == <<wire, accepted>>
workerVars == <<pc, try, answer>>
vars == <<sendVars, deviceVars, providerVars, workerVars>>

NoTry == [send |-> 0, claim |-> 0, native |-> 0]

Init ==
    /\ status = [s \in Send |-> "absent"] /\ outcome = [s \in Send |-> "none"]
    /\ retries = [s \in Send |-> 0] /\ lease = [s \in Send |-> 0]
    /\ live = [s \in Send |-> FALSE] /\ due = [s \in Send |-> TRUE]
    /\ cred = [s \in Send |-> NoCredential]
    /\ claims = [s \in Send |-> 0] /\ requeues = [s \in Send |-> 0]
    /\ acks = [s \in Send |-> 0] /\ since = [s \in Send |-> 0]
    /\ native = [d \in Device |-> 1] /\ revoked = [d \in Device |-> "no"]
    /\ active \in {NoCredential} \cup Credential
    /\ issued = [d \in Device |-> 1]
    /\ wire = {} /\ accepted = {}
    /\ pc = [w \in Worker |-> "idle"] /\ try = [w \in Worker |-> NoTry]
    /\ answer = [w \in Worker |-> "none"]

-----------------------------------------------------------------------------
(* Plausible bugs: definitions of the next sections with a mistake, and    *)
(* the property that notices.                                              *)

HoldsQueued(w) ==        \* Holds, without the lease: HonestOutcome
    status[try[w].send] = "queued"
UncertainRetries(w) ==   \* Terminal, an uncertain end is retried: NoUnaskedDuplicate
    answer[w] \in {"ok", "cancelled", "permanent", "refused"}
    \/ retries[try[w].send] >= MaxRetries
ExpiredRunning(s) ==     \* Expired, the lease is not looked at: EverySendEnds
    status[s] = "queued" /\ lease[s] # 0 /\ live[s]
NeverGivesUp(w) ==       \* Terminal, retries are not counted: ImplementsPromise
    answer[w] \in {"ok", "cancelled", "permanent", "refused", "uncertain"}
StatusUnclosed(w) ==     \* StatusOf, a failure keeps its row queued: TypeOK
    IF answer[w] = "ok" THEN "sent" ELSE "queued"

-----------------------------------------------------------------------------
(* The API: enqueue, and the operator's commands.                          *)

\* POST /v1/push/send leaves the credential to the claim; a test send pins it.
Enqueue(s) ==
    /\ status[s] = "absent" /\ revoked[Target[s]] = "no"
    /\ status' = [status EXCEPT ![s] = "queued"]
    /\ \E c \in {NoCredential, active} : cred' = [cred EXCEPT ![s] = c]
    /\ UNCHANGED <<outcome, retries, lease, live, due, claims, requeues, acks, since,
                   deviceVars, providerVars, workerVars>>

\* retry_send, and retry_failed for what is certain: an uncertain send needs the
\* operator's acknowledgement that it may arrive twice.
Requeue(s, acknowledged) ==
    /\ status[s] = "failed" /\ requeues[s] < MaxRequeues
    /\ outcome[s] = "uncertain" => acknowledged
    /\ status' = [status EXCEPT ![s] = "queued"]
    /\ outcome' = [outcome EXCEPT ![s] = "none"]
    /\ retries' = [retries EXCEPT ![s] = 0]
    /\ lease' = [lease EXCEPT ![s] = 0]
    /\ due' = [due EXCEPT ![s] = TRUE]
    /\ cred' = [cred EXCEPT ![s] = NoCredential]
    /\ requeues' = [requeues EXCEPT ![s] = @ + 1]
    /\ acks' = [acks EXCEPT ![s] = IF outcome[s] = "uncertain" THEN @ + 1 ELSE @]
    /\ since' = [since EXCEPT ![s] = claims[s]]
    /\ UNCHANGED <<live, claims, deviceVars, providerVars, workerVars>>

\* Activation of another credential, or deletion of the active one.
Rotate(c) ==
    /\ active # c /\ active' = c
    /\ UNCHANGED <<sendVars, native, revoked, issued, providerVars, workerVars>>

\* The device itself or the operator takes a registration back.
Revoke(d, who) ==
    /\ revoked[d] = "no" /\ revoked' = [revoked EXCEPT ![d] = who]
    /\ UNCHANGED <<sendVars, native, active, issued, providerVars, workerVars>>

\* The provider replaces a token (or the app is gone): the old one is dead at once.
Reissue(d) ==
    /\ issued[d] < MaxTokens /\ issued' = [issued EXCEPT ![d] = @ + 1]
    /\ UNCHANGED <<sendVars, native, revoked, active, providerVars, workerVars>>

\* The installation registers with the token it has been given: same row, same id,
\* and whatever revoked it is lifted.
Register(d) ==
    /\ native[d] # issued[d] \/ revoked[d] # "no"
    /\ native' = [native EXCEPT ![d] = issued[d]]
    /\ revoked' = [revoked EXCEPT ![d] = "no"]
    /\ UNCHANGED <<sendVars, active, issued, providerVars, workerVars>>

-----------------------------------------------------------------------------
(* The worker.                                                             *)

\* The sweep at the head of drain_once: a lease that ran out leaves the send uncertain.
Expired(s) == status[s] = "queued" /\ lease[s] # 0 /\ ~live[s]
Sweep(w) ==
    /\ pc[w] = "idle" /\ \E s \in Send : Expired(s)
    /\ status' = [s \in Send |-> IF Expired(s) THEN "failed" ELSE status[s]]
    /\ outcome' = [s \in Send |-> IF Expired(s) THEN "uncertain" ELSE outcome[s]]
    /\ lease' = [s \in Send |-> IF Expired(s) THEN 0 ELSE lease[s]]
    /\ UNCHANGED <<retries, live, due, cred, claims, requeues, acks, since,
                   deviceVars, providerVars, workerVars>>

Claim(w, s) ==
    /\ pc[w] = "idle"
    /\ status[s] = "queued" /\ lease[s] = 0 /\ due[s]
    /\ claims' = [claims EXCEPT ![s] = @ + 1]
    /\ lease' = [lease EXCEPT ![s] = claims[s] + 1]
    /\ live' = [live EXCEPT ![s] = TRUE]
    /\ cred' = [cred EXCEPT ![s] = IF @ = NoCredential THEN active ELSE @]
    /\ pc' = [pc EXCEPT ![w] = "claimed"]
    /\ try' = [try EXCEPT ![w] = [send |-> s, claim |-> claims[s] + 1, native |-> 0]]
    /\ UNCHANGED <<status, outcome, retries, due, requeues, acks, since, deviceVars,
                   providerVars, answer>>

\* status='queued' AND lease_owner=$2
Holds(w) == status[try[w].send] = "queued" /\ lease[try[w].send] = try[w].claim

Answer(w, a) ==
    /\ pc' = [pc EXCEPT ![w] = "answered"]
    /\ answer' = [answer EXCEPT ![w] = a]
    /\ UNCHANGED try

\* dispatch_one's check before anything is sent.
Allow(w) ==
    LET s == try[w].send IN
    /\ pc[w] = "claimed"
    /\ IF Holds(w) /\ live[s] /\ revoked[Target[s]] = "no"
       THEN pc' = [pc EXCEPT ![w] = "allowed"] /\ UNCHANGED <<try, answer>>
       ELSE Answer(w, "cancelled")
    /\ UNCHANGED <<sendVars, deviceVars, providerVars>>

\* The adapter reads device and credential again; the lease is not part of it.
Prepare(w) ==
    LET s == try[w].send IN
    /\ pc[w] = "allowed"
    /\ IF revoked[Target[s]] = "no" /\ cred[s] = active /\ active # NoCredential
       THEN /\ pc' = [pc EXCEPT ![w] = "prepared"]
            /\ try' = [try EXCEPT ![w].native = native[Target[s]]]
            /\ UNCHANGED answer
       ELSE Answer(w, "refused")
    /\ UNCHANGED <<sendVars, deviceVars, providerVars>>

Call(w) ==
    /\ pc[w] = "prepared"
    /\ pc' = [pc EXCEPT ![w] = "calling"]
    /\ wire' = wire \cup {try[w]}
    /\ UNCHANGED <<sendVars, deviceVars, accepted, try, answer>>

\* Nothing leaves the server: a bad secret or endpoint is refused, a database
\* error is as good as a provider's bad moment.
Unprepared(w) ==
    /\ pc[w] \in {"allowed", "prepared"}
    /\ Answer(w, "refused") \/ Answer(w, "transient")
    /\ UNCHANGED <<sendVars, deviceVars, providerVars>>

\* The 30 s timeout, or a connection that breaks: what the request did is unknown.
Lose(w) ==
    /\ pc[w] \in {"allowed", "prepared", "calling"}
    /\ Answer(w, "uncertain")
    /\ UNCHANGED <<sendVars, deviceVars, providerVars>>

Receive(w) ==
    /\ pc[w] = "calling" /\ try[w] \in accepted
    /\ Answer(w, "ok")
    /\ UNCHANGED <<sendVars, deviceVars, providerVars>>

\* Statuses a retry cannot fix, and those it can; `permanent' names the token.
Rejected(w, a) ==
    /\ pc[w] = "calling" /\ try[w] \in wire
    /\ a = "permanent" => try[w].native # issued[Target[try[w].send]]
    /\ wire' = wire \ {try[w]}
    /\ Answer(w, a)
    /\ UNCHANGED <<sendVars, deviceVars, accepted>>

Terminal(w) ==
    answer[w] \in {"ok", "cancelled", "permanent", "refused", "uncertain"}
    \/ retries[try[w].send] >= MaxRetries
StatusOf(w) ==
    IF answer[w] = "ok" THEN "sent" ELSE IF Terminal(w) THEN "failed" ELSE "queued"

Rest(w) ==
    /\ pc' = [pc EXCEPT ![w] = "idle"]
    /\ try' = [try EXCEPT ![w] = NoTry]
    /\ answer' = [answer EXCEPT ![w] = "none"]

\* finish: row, log and device in one transaction, fenced by a valid lease.
Finish(w) ==
    LET s == try[w].send
        d == Target[s]
    IN
    /\ pc[w] = "answered" /\ Holds(w) /\ live[s]
    /\ status' = [status EXCEPT ![s] = StatusOf(w)]
    /\ outcome' = [outcome EXCEPT ![s] =
          IF answer[w] \in {"refused", "transient"} THEN "http" ELSE answer[w]]
    /\ retries' = [retries EXCEPT ![s] = IF StatusOf(w) = "queued" THEN @ + 1 ELSE @]
    /\ due' = [due EXCEPT ![s] = StatusOf(w) # "queued"]
    /\ lease' = [lease EXCEPT ![s] = 0]
    /\ revoked' = IF answer[w] = "permanent" THEN [revoked EXCEPT ![d] = "provider"] ELSE revoked
    /\ Rest(w)
    /\ UNCHANGED <<live, cred, claims, requeues, acks, since, native, active, issued, providerVars>>

\* A late answer changes nothing; a crash or a database error loses it.
FinishLost(w) ==
    /\ pc[w] = "answered" /\ ~(Holds(w) /\ live[try[w].send])
    /\ Rest(w)
    /\ UNCHANGED <<sendVars, deviceVars, providerVars>>
Crash(w) ==
    /\ pc[w] # "idle"
    /\ Rest(w)
    /\ UNCHANGED <<sendVars, deviceVars, providerVars>>

-----------------------------------------------------------------------------
(* Providers and the clock.                                                *)

\* A provider delivers to a token that is valid, whoever still waits for the answer.
Deliver(r) ==
    /\ r \in wire /\ r.native = issued[Target[r.send]]
    /\ wire' = wire \ {r} /\ accepted' = accepted \cup {r}
    /\ UNCHANGED <<sendVars, deviceVars, workerVars>>

LeaseExpires(s) ==
    /\ lease[s] # 0 /\ live[s]
    /\ live' = [live EXCEPT ![s] = FALSE]
    /\ UNCHANGED <<status, outcome, retries, lease, due, cred, claims, requeues, acks, since,
                   deviceVars, providerVars, workerVars>>

BackoffElapses(s) ==
    /\ ~due[s]
    /\ due' = [due EXCEPT ![s] = TRUE]
    /\ UNCHANGED <<status, outcome, retries, lease, live, cred, claims, requeues, acks, since,
                   deviceVars, providerVars, workerVars>>

-----------------------------------------------------------------------------
WorkerStep(w) ==
    \/ Allow(w) \/ Prepare(w) \/ Call(w) \/ Unprepared(w) \/ Lose(w) \/ Receive(w)
    \/ \E a \in {"permanent", "refused", "transient"} : Rejected(w, a)
    \/ Finish(w) \/ FinishLost(w)

Next ==
    \/ \E s \in Send : \/ Enqueue(s) \/ \E b \in BOOLEAN : Requeue(s, b)
                       \/ LeaseExpires(s) \/ BackoffElapses(s)
    \/ \E d \in Device : \/ Reissue(d) \/ Register(d)
                         \/ \E who \in {"device", "operator"} : Revoke(d, who)
    \/ \E c \in Credential \cup {NoCredential} : Rotate(c)
    \/ \E w \in Worker : Sweep(w) \/ (\E s \in Send : Claim(w, s)) \/ WorkerStep(w) \/ Crash(w)
    \/ \E r \in wire : Deliver(r)

Spec == Init /\ [][Next]_vars

\* Workers keep polling, calls end in an answer or a timeout, and time passes.
Fairness ==
    /\ \A w \in Worker : WF_vars(WorkerStep(w))
    /\ WF_vars(\E w \in Worker : Sweep(w)) /\ WF_vars(\E w \in Worker, s \in Send : Claim(w, s))
    /\ \A s \in Send : WF_vars(LeaseExpires(s)) /\ WF_vars(BackoffElapses(s))
FairSpec == Spec /\ Fairness

-----------------------------------------------------------------------------
Places == {"idle", "claimed", "allowed", "prepared", "calling", "answered"}
Answers == {"none", "ok", "cancelled", "permanent", "refused", "transient", "uncertain"}
\* Columns and memory stay in their domains; only queued rows are leased, and a row
\* that is queued again has a retry or an operator to thank for it.
TypeOK ==
    /\ status \in [Send -> {"absent", "queued", "sent", "failed"}]
    /\ outcome \in [Send -> {"none", "ok", "uncertain", "permanent", "http", "cancelled"}]
    /\ retries \in [Send -> 0..MaxRetries] /\ lease \in [Send -> Nat] /\ claims \in [Send -> Nat]
    /\ live \in [Send -> BOOLEAN] /\ due \in [Send -> BOOLEAN]
    /\ cred \in [Send -> Credential \cup {NoCredential}]
    /\ pc \in [Worker -> Places] /\ answer \in [Worker -> Answers]
    /\ \A s \in Send : /\ lease[s] # 0 => status[s] = "queued"
                       /\ status[s] = "queued" => outcome[s] \in {"none", "http"}

DeliveredBy(s) == {r \in accepted : r.send = s}

\* A message reaches its device twice only if an operator accepted that it might:
\* crashes, timeouts, retries, expired leases and late answers never repeat it.
NoUnaskedDuplicate == \A s \in Send : Cardinality(DeliveredBy(s)) <= 1 + acks[s]

\* What a row says happened since it was queued last is true: `sent' was delivered, a
\* failure that is not uncertain was not, and neither was one that will be retried.
HonestOutcome ==
    \A s \in Send :
        LET delivered == {r \in DeliveredBy(s) : r.claim > since[s]} IN
        /\ status[s] = "sent" => delivered # {}
        /\ status[s] = "failed" /\ outcome[s] # "uncertain" => delivered = {}
        /\ status[s] = "queued" /\ lease[s] = 0 => delivered = {}

\* A send makes at most 1 + MAX_RETRIES attempts each time it is queued.
AttemptsBounded == \A s \in Send : claims[s] - since[s] <= MaxRetries + 1

\* The worker keeps the promise of PushPromise.
row == [s \in Send |->
          CASE status[s] = "queued" -> "open"
            [] status[s] = "failed" /\ outcome[s] = "uncertain" -> "unknown"
            [] OTHER -> status[s]]
tries == [s \in Send |-> claims[s] - since[s]]
fresh == {s \in Send : \E r \in DeliveredBy(s) : r.claim > since[s]}
early == [s \in Send |-> Cardinality({r \in DeliveredBy(s) : r.claim <= since[s]})]
Promise == INSTANCE PushPromise WITH risked <- acks
ImplementsPromise == Promise!Spec

\* Every accepted send is closed, however often workers crash or providers fail.
EverySendEnds == \A s \in Send : status[s] = "queued" ~> status[s] # "queued"

\* push_quarantine.rs: a row is retired when the provider names its token.
QuarantineNamesToken ==
    [][\A w \in Worker : Finish(w) /\ answer[w] = "permanent" =>
         native[Target[try[w].send]] = try[w].native]_vars

\* register_token.rs: a registration undoes what the device or a provider did, and
\* "nothing an operator did is being undone".
OperatorRevocationStands ==
    [][\A d \in Device : revoked[d] = "operator" => revoked'[d] = "operator"]_vars
=============================================================================
