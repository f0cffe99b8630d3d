---------------------------- MODULE PushCredentials ----------------------------
(* Provider credentials of a project: added beside the one in use, asked of   *)
(* the vendor, and promoted by hand (migration 0017, push_credentials.rs).    *)
(* Commands (push_commands.rs) and the end of a probe hold the project's row; *)
(* the vendor is asked in between, without it, and may answer anything at any *)
(* time.  The credentials of this model are of one provider.                  *)
EXTENDS Naturals, FiniteSets
CONSTANTS
  Credential,
  Probed,        \* the credentials whose provider can be asked (apns, fcm)
  Probe,         \* requests of probe
  Command,       \* command ids
  MaxCredentials, \* credentials of a project, at most (32 in the code)
  MaxVersion,    \* bound
  None

VARIABLES
  credential,  \* Credential -> its row, or None
  probe,       \* Probe -> what the request has read and heard, or None
  receipt,     \* Command -> what it was, once executed, or None
  answers      \* Credential -> the vendor's answers that were recorded
vars == <<credential, probe, receipt, answers>>

Exists(c) == credential[c] # None
New == [version |-> 1, active |-> FALSE, verdict |-> "none", changed |-> 0, sealed |-> TRUE]
Legacy == [New EXCEPT !.sealed = FALSE]      \* from before secrets were sealed

Init ==
  /\ credential \in [Credential -> {None, Legacy}]
  /\ probe = [p \in Probe |-> None]
  /\ receipt = [k \in Command |-> None]
  /\ answers = [c \in Credential |-> 0]

(* push_row_version: every update of a row is a new version of it.            *)
Bumped(c) == [credential[c] EXCEPT !.version = @ + 1]

-----------------------------------------------------------------------------
(* execute: a command acts once, and answers from its receipt after that.     *)
Execute(k, what) == receipt[k] = None /\ receipt' = [receipt EXCEPT ![k] = what]

(* create_credential, after push_credential_check has accepted its form.      *)
Create(k, c) ==
  /\ ~Exists(c) /\ \A j \in Command : receipt[j] # <<"delete", c>>   \* an id is minted once
  /\ Execute(k, <<"create", c>>)
  /\ Cardinality({d \in Credential : Exists(d)}) < MaxCredentials
  /\ credential' = [credential EXCEPT ![c] = New]
  /\ UNCHANGED <<probe, answers>>

(* activate_credential: with the version that the operator saw, or without.   *)
Expected(c, version) == version = None \/ version = credential[c].version
Activate(k, c, version, force) ==
  /\ Execute(k, <<"activate", c>>) /\ Exists(c) /\ Expected(c, version)
  /\ \A d \in Credential : Exists(d) => credential[d].version < MaxVersion
  /\ credential[c].verdict = "ok" \/ force
  /\ credential' = [d \in Credential |->
       IF d = c THEN [Bumped(c) EXCEPT !.active = TRUE]
       ELSE IF Exists(d) /\ credential[d].active THEN [Bumped(d) EXCEPT !.active = FALSE]
       ELSE credential[d]]
  /\ UNCHANGED <<probe, answers>>

Delete(k, c, version) ==
  /\ Execute(k, <<"delete", c>>) /\ Exists(c) /\ Expected(c, version)
  /\ credential' = [credential EXCEPT ![c] = None]
  /\ UNCHANGED <<probe, answers>>

-----------------------------------------------------------------------------
(* push_secrets::migrate, every five seconds: a row like any other update.    *)
Seal(c) ==
  /\ Exists(c) /\ ~credential[c].sealed /\ credential[c].version < MaxVersion
  /\ credential' = [credential EXCEPT ![c] = [Bumped(c) EXCEPT !.sealed = TRUE]]
  /\ UNCHANGED <<probe, receipt, answers>>

(* probe: reads the row, asks, and records the verdict if the row is the one  *)
(* that was read.                                                             *)
Read(p, c) ==
  /\ probe[p] = None /\ Exists(c)
  /\ probe' = [probe EXCEPT ![p] = [credential |-> c, version |-> credential[c].version,
                                    answers |-> answers[c], verdict |-> None]]
  /\ UNCHANGED <<credential, receipt, answers>>

(* probe, apns_verdict, fcm_verdict: what the vendor makes of a message to a  *)
(* device that does not exist, or nothing in 20 seconds.                      *)
Verdicts(c) ==
  IF c \in Probed THEN {"ok", "limited", "rejected", "unreachable"} ELSE {"not_implemented"}
Ask(p) ==
  /\ probe[p] # None /\ probe[p].verdict = None
  /\ \E v \in Verdicts(probe[p].credential) : probe' = [probe EXCEPT ![p].verdict = v]
  /\ UNCHANGED <<credential, receipt, answers>>

Same(p) ==
  LET c == probe[p].credential IN Exists(c) /\ credential[c].version = probe[p].version
Record(p) ==
  /\ probe[p] # None /\ probe[p].verdict # None
  /\ LET c == probe[p].credential IN
       IF Same(p)
       THEN /\ credential[c].version < MaxVersion
            /\ credential' = [credential EXCEPT ![c] =
                 [Bumped(c) EXCEPT !.verdict = probe[p].verdict, !.changed = probe[p].answers]]
            /\ answers' = [answers EXCEPT ![c] = @ + 1]
       ELSE UNCHANGED <<credential, answers>>
  /\ probe' = [probe EXCEPT ![p] = None]
  /\ UNCHANGED receipt
Drop(p) ==
  /\ probe[p] # None /\ probe' = [probe EXCEPT ![p] = None]
  /\ UNCHANGED <<credential, receipt, answers>>

Next ==
  \/ \E k \in Command, c \in Credential :
       \/ Create(k, c)
       \/ \E v \in {None} \cup 1..MaxVersion :
            Delete(k, c, v) \/ \E force \in BOOLEAN : Activate(k, c, v, force)
  \/ \E c \in Credential : Seal(c)
  \/ \E p \in Probe : Ask(p) \/ Record(p) \/ Drop(p) \/ \E c \in Credential : Read(p, c)
Spec == Init /\ [][Next]_vars

-----------------------------------------------------------------------------
TypeOK ==
  /\ \A c \in Credential : Exists(c) =>
       /\ credential[c].version \in 1..MaxVersion
       /\ credential[c].verdict \in {"none", "ok", "limited", "rejected", "unreachable",
                                     "not_implemented"}
  /\ \A p \in Probe : probe[p] # None => probe[p].credential \in Credential

(* The verdict beside a credential is the vendor's answer to a question asked *)
(* after the verdict before it was recorded, so that an older "ok" never      *)
(* covers a newer refusal and lets the key be promoted; and of one provider   *)
(* at most one credential sends.                                              *)
VerdictsInOrder ==
  /\ \A c \in Credential : Exists(c) /\ credential[c].verdict # "none" =>
       credential[c].changed = answers[c] - 1
  /\ Cardinality({c \in Credential : Exists(c) /\ credential[c].active}) <= 1
=============================================================================
