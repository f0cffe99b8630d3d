----------------------------- MODULE PushAudience -----------------------------
(* Who gets a push: the console previews an exact set of devices and queues    *)
(* that set or nothing (handlers/admin/push_audience.rs), a backend names its   *)
(* devices through the API (handlers/sdk/push/send.rs), failed rows are retried *)
(* (push_commands.rs, push_sends.rs), and the instance is restored from a       *)
(* backup taken earlier.  Console commands of a project hold its row; devices   *)
(* that register or revoke, API calls and the worker do not.  One actor, one    *)
(* project and one audience, whose members are `fits`.                          *)
EXTENDS Naturals, FiniteSets, Sequences
CONSTANTS
  Device,          \* rows of device_tokens, numbered by id
  Key,             \* command ids of console sends
  Call,            \* idempotency keys of API calls
  MaxTargets,      \* devices that one API call queues for, at most
  MaxPreviews,     \* bound: previews taken
  MaxGeneration,   \* bound: restores
  None

VARIABLES
  device,      \* Device -> "absent", "live" or "revoked"
  fits,        \* the devices whose attributes the audience describes
  preview,     \* push_audience_previews, in the order they were taken
  row,         \* (Key \cup Call) \X Device -> the push_sends row, or None
  receipt,     \* Key -> the command and the preview it used, or None
  console,     \* the send that holds the project's row, or None
  generation, mode, backup,
  taken,       \* previews ever taken, those a restore forgot included
  got          \* <<key, preview, device>> of each message sent -> how often
vars == <<device, fits, preview, row, receipt, console, generation, mode, backup, taken, got>>
instance == <<generation, mode, backup, taken>>

Slot == (Key \cup Call) \X Device
Live == {d \in Device : device[d] = "live"}
Queued == [state |-> "queued", generation |-> generation]

Init ==
  /\ device = [d \in Device |-> "absent"] /\ fits = {}
  /\ preview = <<>>
  /\ row = [s \in Slot |-> None]
  /\ receipt = [k \in Key |-> None]
  /\ console = None
  /\ generation = 1 /\ mode = "normal" /\ backup = None
  /\ taken = 0 /\ got = [m \in Key \X (1..MaxPreviews) \X Device |-> 0]

-----------------------------------------------------------------------------
(* register_token, which revives; revoke_token, revoke_device and quarantine. *)
(* A registration may change what the device's attributes are.                *)
Register(d, fit) ==
  /\ device' = [device EXCEPT ![d] = "live"]
  /\ fits' = IF fit THEN fits \cup {d} ELSE fits \ {d}
  /\ UNCHANGED <<preview, row, receipt, console, instance, got>>
Revoke(d) ==
  /\ device[d] = "live"
  /\ device' = [device EXCEPT ![d] = "revoked"]
  /\ UNCHANGED <<fits, preview, row, receipt, console, instance, got>>

(* preview, and the ten minutes after it.                                     *)
Selection == Live \cap fits
TakePreview ==
  /\ console = None /\ taken < MaxPreviews
  /\ taken' = taken + 1
  /\ preview' = Append(preview, [no |-> taken + 1, ids |-> Selection,
                                 generation |-> generation, fresh |-> TRUE])
  /\ UNCHANGED <<device, fits, row, receipt, console, generation, mode, backup, got>>
Expire(p) ==
  /\ preview[p].fresh
  /\ preview' = [preview EXCEPT ![p].fresh = FALSE]
  /\ UNCHANGED <<device, fits, row, receipt, console, instance, got>>

(* send: a command that has its receipt answers from it.  Another one uses    *)
(* the preview it names; an old console names none and gets the latest.       *)
Usable(p) == preview[p].fresh /\ preview[p].generation = generation
Latest(p) == \A q \in DOMAIN preview : q > p => ~Usable(q)
Compare(k, named, p, expected) ==
  /\ console = None /\ receipt[k] = None
  /\ Usable(p) /\ (named \/ Latest(p))
  /\ preview[p].ids = Selection /\ Cardinality(Selection) = expected
  /\ console' = [key |-> k, preview |-> p]
  /\ UNCHANGED <<device, fits, preview, row, receipt, instance, got>>

Complete(inserted) == inserted = preview[console.preview].ids
Insert ==
  /\ console # None
  /\ LET inserted == {d \in preview[console.preview].ids \cap Live :
                        row[<<console.key, d>>] = None} IN
       IF Complete(inserted)
       THEN /\ row' = [s \in Slot |-> IF s[1] = console.key /\ s[2] \in inserted
                                      THEN Queued ELSE row[s]]
            /\ receipt' = [receipt EXCEPT ![console.key] = console.preview]
       ELSE UNCHANGED <<row, receipt>>
  /\ console' = None
  /\ UNCHANGED <<device, fits, preview, instance, got>>
Abort ==
  /\ console # None /\ console' = None
  /\ UNCHANGED <<device, fits, preview, row, receipt, instance, got>>

-----------------------------------------------------------------------------
(* enqueue: one statement, the first MaxTargets of the devices the call names *)
(* by id, by topic or as the audience; rows that its key already has stay.    *)
First(S) == {d \in S : Cardinality({e \in S : e < d}) < MaxTargets}
Enqueue(c, named, audience) ==
  /\ named # {} \/ audience
  /\ LET targets == First(Live \cap (named \cup IF audience THEN fits ELSE {})) IN
       row' = [s \in Slot |-> IF s[1] = c /\ s[2] \in targets /\ row[s] = None
                              THEN Queued ELSE row[s]]
  /\ UNCHANGED <<device, fits, preview, receipt, console, instance, got>>

(* The worker closes a row: sent, or refused by the provider.                 *)
Deliver(s) ==
  /\ mode = "normal" /\ row[s] # None /\ row[s].state = "queued"
  /\ \/ /\ row' = [row EXCEPT ![s].state = "sent"]
        /\ got' = IF s[1] \in Call THEN got
                  ELSE [got EXCEPT ![<<s[1], preview[receipt[s[1]]].no, s[2]>>] = @ + 1]
     \/ /\ row' = [row EXCEPT ![s].state = "failed"]
        /\ UNCHANGED got
  /\ UNCHANGED <<device, fits, preview, receipt, console, instance>>

(* retry_send, retry_failed: only what failed in this generation.             *)
Retriable(s) == row[s].state = "failed" /\ row[s].generation = generation
Retry(chosen) ==
  /\ console = None /\ chosen # {}
  /\ \A s \in chosen : row[s] # None /\ Retriable(s)
  /\ row' = [s \in Slot |-> IF s \in chosen THEN [row[s] EXCEPT !.state = "queued"] ELSE row[s]]
  /\ UNCHANGED <<device, fits, preview, receipt, console, instance, got>>

-----------------------------------------------------------------------------
(* capture, restore and resume: what was queued is closed.                    *)
Closed(r) == [s \in Slot |->
  IF r[s] # None /\ r[s].state = "queued" THEN [r[s] EXCEPT !.state = "failed"] ELSE r[s]]
Backup ==
  /\ backup = None /\ mode = "normal" /\ generation < MaxGeneration
  /\ backup' = [device |-> device, fits |-> fits, preview |-> preview, row |-> row,
                receipt |-> receipt]
  /\ UNCHANGED <<device, fits, preview, row, receipt, console, generation, mode, taken, got>>
Restore ==
  /\ backup # None
  /\ generation' = generation + 1 /\ mode' = "restore_validation" /\ backup' = None
  /\ device' = backup.device /\ fits' = backup.fits
  /\ preview' = backup.preview /\ row' = Closed(backup.row) /\ receipt' = backup.receipt
  /\ console' = None
  /\ UNCHANGED <<taken, got>>
Resume ==
  /\ mode = "restore_validation" /\ mode' = "normal" /\ console = None
  /\ row' = Closed(row)
  /\ UNCHANGED <<device, fits, preview, receipt, console, generation, backup, taken, got>>

Next ==
  \/ \E d \in Device : (\E fit \in BOOLEAN : Register(d, fit)) \/ Revoke(d)
  \/ TakePreview
  \/ \E p \in DOMAIN preview : Expire(p)
  \/ \E k \in Key, named \in BOOLEAN, p \in DOMAIN preview, n \in 0..Cardinality(Device) :
       Compare(k, named, p, n)
  \/ Insert \/ Abort
  \/ \E c \in Call, named \in SUBSET Device, audience \in BOOLEAN : Enqueue(c, named, audience)
  \/ \E s \in Slot : Deliver(s)
  \/ \E chosen \in SUBSET Slot : Retry(chosen)
  \/ Backup \/ Restore \/ Resume

Spec == Init /\ [][Next]_vars

-----------------------------------------------------------------------------
TypeOK ==
  /\ device \in [Device -> {"absent", "live", "revoked"}] /\ fits \subseteq Device
  /\ \A s \in Slot : row[s] # None =>
       /\ row[s].state \in {"queued", "sent", "failed"}
       /\ row[s].generation \in 1..generation
  /\ \A k \in Key : receipt[k] # None => receipt[k] \in DOMAIN preview
  /\ console # None => console.key \in Key /\ console.preview \in DOMAIN preview
  /\ mode \in {"normal", "restore_validation"} /\ generation \in 1..MaxGeneration

(* "Preview an exact device selection, then queue that reviewed selection     *)
(* atomically" (push_audience.rs:1): a console send has rows for exactly the  *)
(* devices its operator reviewed once it has answered, and none before.       *)
ReviewedOrNothing ==
  \A k \in Key :
    {d \in Device : row[<<k, d>>] # None} =
      IF receipt[k] = None THEN {} ELSE preview[receipt[k]].ids

(* No device gets the message of a reviewed send twice: not by resending the  *)
(* command, not by a retry, and not by either of them on an instance restored *)
(* from a backup that is older than the delivery.                             *)
NobodyTwice == \A m \in DOMAIN got : got[m] <= 1
=============================================================================
