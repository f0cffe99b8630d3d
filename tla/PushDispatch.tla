----------------------------- MODULE PushDispatch -----------------------------
(* The dispatcher of the push-provider crate (push-provider/src/dispatcher.rs) *)
(* over its tables of tokens and credentials.  A dispatch reads its targets    *)
(* once and then takes them one by one, holding nothing while the vendor is    *)
(* asked: devices register again and others dispatch in between.  The server   *)
(* itself sends with push_worker.rs; of this crate it uses the token table.    *)
EXTENDS Naturals, FiniteSets
CONSTANTS
  Device,      \* native tokens of one project
  KindOf,      \* Device -> the provider it belongs to
  Wired,       \* kinds with an implementation in the registry
  User,
  Dispatch,
  Max,         \* sends of a kind in a window
  None

VARIABLES
  token,      \* Device -> its row, or None
  credential, \* kinds with a stored credential
  spent,      \* kind -> what the limiter has admitted in this window
  dispatch,   \* Dispatch -> how far it is, or None
  accepted,   \* Dispatch -> devices whose vendor took its message
  condemned   \* devices of which a vendor ever said that they are dead
vars == <<token, credential, spent, dispatch, accepted, condemned>>

Kind == {KindOf[t] : t \in Device}
Quarantined(t) == token[t] # None /\ token[t].quarantined
Live(t) == token[t] # None /\ ~token[t].quarantined

Init ==
  /\ token = [t \in Device |-> None]
  /\ credential \in SUBSET Kind
  /\ spent = [k \in Kind |-> 0]
  /\ dispatch = [d \in Dispatch |-> None]
  /\ accepted = [d \in Dispatch |-> {}]
  /\ condemned = {}

-----------------------------------------------------------------------------
(* DeviceTokenStore::upsert: a device that registers is alive again, and      *)
(* belongs to whom it names, or to whom it did.                               *)
Register(t, user) ==
  /\ token' = [token EXCEPT ![t] =
       [user |-> IF user # None THEN user ELSE IF token[t] # None THEN token[t].user ELSE None,
        quarantined |-> FALSE]]
  /\ UNCHANGED <<credential, spent, dispatch, accepted, condemned>>
Forget(t) ==
  /\ token[t] # None
  /\ token' = [token EXCEPT ![t] = None]
  /\ UNCHANGED <<credential, spent, dispatch, accepted, condemned>>

(* CredentialStore::upsert and delete.                                        *)
Configure(k) ==
  /\ credential' = IF k \in credential THEN credential \ {k} ELSE credential \cup {k}
  /\ UNCHANGED <<token, spent, dispatch, accepted, condemned>>

(* The limiter's window passes.                                               *)
WindowPasses ==
  /\ spent' = [k \in Kind |-> 0]
  /\ UNCHANGED <<token, credential, dispatch, accepted, condemned>>

-----------------------------------------------------------------------------
(* resolve_target: one device, all live ones of a kind, or of a user.         *)
Targets(by, x) ==
  CASE by = "token" -> {x} \cap {t \in Device : Live(t)}
    [] by = "kind" -> {t \in Device : Live(t) /\ KindOf[t] = x}
    [] by = "user" -> {t \in Device : Live(t) /\ token[t].user = x}
Begin(d, by, x) ==
  /\ dispatch[d] = None
  /\ by = "token" => Targets(by, x) # {}      \* TokenNotFound
  /\ dispatch' = [dispatch EXCEPT ![d] =
       [aim |-> Targets(by, x), left |-> Targets(by, x), now |-> None, said |-> None,
        at |-> "running", sent |-> 0, refused |-> 0, limited |-> 0,
        barred |-> {t \in Device : Quarantined(t)}]]
  /\ UNCHANGED <<token, credential, spent, accepted, condemned>>

Running(d) == dispatch[d] # None /\ dispatch[d].at = "running"
Free(d) == Running(d) /\ dispatch[d].now = None

(* The limiter says no: the device is skipped.                                *)
SkipLimited(d, t) ==
  /\ Free(d) /\ t \in dispatch[d].left /\ spent[KindOf[t]] >= Max
  /\ dispatch' = [dispatch EXCEPT ![d].left = @ \ {t}, ![d].limited = @ + 1]
  /\ UNCHANGED <<token, credential, spent, accepted, condemned>>

(* It says yes; then the provider and the credential are looked up.           *)
Ready(t) == KindOf[t] \in Wired /\ KindOf[t] \in credential
Asked(row, t) == [row EXCEPT !.left = @ \ {t}, !.now = t]
Ask(d, t) ==
  /\ Free(d) /\ t \in dispatch[d].left /\ spent[KindOf[t]] < Max
  /\ spent' = [spent EXCEPT ![KindOf[t]] = @ + 1]
  /\ dispatch' = [dispatch EXCEPT ![d] =
       IF Ready(t) THEN Asked(@, t) ELSE [@ EXCEPT !.at = "error"]]
  /\ UNCHANGED <<token, credential, accepted, condemned>>

(* The vendor answers.                                                        *)
Outcome == {"sent", "dead", "environment", "transient", "terminal"}
ShouldQuarantine(outcome) == outcome = "dead"
Answer(d, outcome) ==
  /\ Running(d) /\ dispatch[d].now # None /\ dispatch[d].said = None
  /\ dispatch' = [dispatch EXCEPT ![d].said = outcome]
  /\ accepted' = [accepted EXCEPT ![d] = IF outcome = "sent" THEN @ \cup {dispatch[d].now} ELSE @]
  /\ condemned' = IF outcome = "dead" THEN condemned \cup {dispatch[d].now} ELSE condemned
  /\ UNCHANGED <<token, credential, spent>>

(* quarantine, whose failure is only logged; then the outcome is counted.     *)
Counted(row) ==
  [row EXCEPT !.now = None, !.said = None,
              !.sent = IF row.said = "sent" THEN @ + 1 ELSE @,
              !.refused = IF row.said = "sent" THEN @ ELSE @ + 1]
Note(d, written) ==
  /\ Running(d) /\ dispatch[d].said # None
  /\ LET t == dispatch[d].now IN
     token' = IF ShouldQuarantine(dispatch[d].said) /\ written /\ token[t] # None
                THEN [token EXCEPT ![t].quarantined = TRUE] ELSE token
  /\ dispatch' = [dispatch EXCEPT ![d] = Counted(@)]
  /\ UNCHANGED <<credential, spent, accepted, condemned>>

Report(d) ==
  /\ Free(d) /\ dispatch[d].left = {}
  /\ dispatch' = [dispatch EXCEPT ![d].at = "ok"]
  /\ UNCHANGED <<token, credential, spent, accepted, condemned>>

Step(d) ==
  \/ \E t \in Device : Begin(d, "token", t) \/ SkipLimited(d, t) \/ Ask(d, t)
  \/ \E k \in Kind : Begin(d, "kind", k)
  \/ \E u \in User : Begin(d, "user", u)
  \/ \E outcome \in Outcome : Answer(d, outcome)
  \/ \E written \in BOOLEAN : Note(d, written)
  \/ Report(d)

Next ==
  \/ \E d \in Dispatch : Step(d)
  \/ \E t \in Device : Forget(t) \/ \E u \in User \cup {None} : Register(t, u)
  \/ \E k \in Kind : Configure(k)
  \/ WindowPasses
Spec == Init /\ [][Next]_vars

-----------------------------------------------------------------------------
Count == 0 .. Cardinality(Device)
TypeOK ==
  /\ token \in [Device -> {None} \cup [user : User \cup {None}, quarantined : BOOLEAN]]
  /\ credential \subseteq Kind
  /\ spent \in [Kind -> 0 .. Max]
  /\ dispatch \in [Dispatch -> {None} \cup
       [aim : SUBSET Device, left : SUBSET Device, now : Device \cup {None},
        said : Outcome \cup {None}, at : {"running", "ok", "error"}, sent : Count,
        refused : Count, limited : Count, barred : SUBSET Device]]
  /\ accepted \in [Dispatch -> SUBSET Device]
  /\ condemned \subseteq Device

(* What a dispatch reports accounts for every device that it targeted, and it *)
(* calls sent what the vendors took (dispatcher.rs:69).                       *)
ReportIsTrue == \A d \in Dispatch :
  dispatch[d] # None /\ dispatch[d].at = "ok" =>
    /\ dispatch[d].sent + dispatch[d].refused + dispatch[d].limited
         = Cardinality(dispatch[d].aim)
    /\ dispatch[d].sent = Cardinality(accepted[d])

(* A device that was quarantined when a dispatch began hears nothing of it,   *)
(* unless it is one that the dispatch had read before.                        *)
QuarantinedAreSkipped == \A d \in Dispatch :
  dispatch[d] # None => (dispatch[d].aim \cup accepted[d]) \cap dispatch[d].barred = {}

(* Only of a device that a vendor called dead is the row quarantined, whatever *)
(* registered, was forgotten or was refused meanwhile (model.rs: an            *)
(* environment mismatch is "Not a quarantine on its own").                     *)
OnlyDeadAreBarred == \A t \in Device : Quarantined(t) => t \in condemned
=============================================================================
