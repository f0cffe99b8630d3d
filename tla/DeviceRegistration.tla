-------------------------- MODULE DeviceRegistration --------------------------
(* A React Native app keeps its device row true: it registers for push, follows*)
(* the person who signs in and out and the token that the vendor rotates, and  *)
(* unregisters.  Every await of the client is a place where other calls, the   *)
(* drain tick, or the end of the process come in.                              *)
(*                                                                             *)
(* A request that has been sent is served or lost, late ones included, until   *)
(* the process ends; an answer may be lost too.  Permission is granted and the *)
(* device's storage works: without them register() ends early, or an install   *)
(* lasts for one launch.  init() has run, so that sessions listen to identity  *)
(* changes (init.ts:148) and none is kept for a listener to come.  Messages,   *)
(* taps and their acks are left out.                                           *)
EXTENDS Naturals, FiniteSets

CONSTANTS Flow,          \* calls that may be under way at once
          Person, Nobody,  \* Nobody as traits: {}
          Token,         \* vendor tokens, in the order in which they are issued: 1 .. n
          MaxSent, MaxInstall, None

VARIABLES key, traits, hashing,  \* scope.ts: _userKey, _traits, the person being hashed
          vendor,      \* the token that the vendor has issued
          lastNative, lastSent, cached, installId, listening, pumping,  \* push.ts
          stored,      \* AsyncStorage: [install, handle]
          flow,        \* what each call is at
          row,         \* device_tokens: [install, token, user, traits, revoked] by handle
          sent, served, minted,   \* counters: bodies read, newest one served, installs minted
          behind,      \* history: the row may have been left behind the person
          mixed,       \* history: two bodies went out or came in in the other order
          crossed,     \* history: the last call began while another was under way
          twice,       \* history: two calls were about to mint an install at once
          gone         \* history: unregister() has succeeded, nothing was called since

memory == <<key, traits, hashing, lastNative, lastSent, cached, installId, listening, pumping>>
counts == <<sent, served, minted>>
vars == <<memory, vendor, stored, flow, row, counts, behind, mixed, crossed, twice, gone>>
Handle == 1 .. MaxInstall

Init ==
  /\ key = None /\ traits = None /\ hashing = None /\ vendor = 1
  /\ lastNative = None /\ lastSent = None /\ cached = None /\ installId = None
  /\ listening = FALSE /\ pumping = FALSE
  /\ stored = [install |-> None, handle |-> None]
  /\ flow = [f \in Flow |-> None] /\ row = [h \in Handle |-> None]
  /\ sent = 0 /\ served = 0 /\ minted = 0 /\ behind = FALSE /\ mixed = FALSE /\ crossed = FALSE
  /\ twice = FALSE /\ gone = FALSE

At(f, step) == flow[f] # None /\ flow[f].step = step
Idle(f) == flow[f] = None
Busy == {f \in Flow : ~Idle(f)}

Said(k, t, no) == [user |-> k, traits |-> t, no |-> no]
Now == Said(key, traits, sent)
(* identityKey: no traits and empty traits are the same string.               *)
Identity(x) == <<x.user, IF x.traits = None THEN Nobody ELSE x.traits>>
Alike(x, y) == x.user = y.user /\ x.traits = y.traits

(* registerWithServer reads the person once, before it waits for the install. *)
Body(kind, token) ==
  [kind |-> kind, step |-> "install", token |-> token, user |-> key, traits |-> traits,
   no |-> sent + 1, install |-> None, was |-> lastNative, handle |-> None]
Begin(f, kind, token) ==
  /\ sent < MaxSent /\ sent' = sent + 1 /\ UNCHANGED <<served, minted>>
  /\ flow' = [flow EXCEPT ![f] = Body(kind, token)]

-----------------------------------------------------------------------------
(* register: permission, then the native token, then the server.              *)
Register(f) ==
  /\ Idle(f) /\ flow' = [flow EXCEPT ![f] = [kind |-> "register", step |-> "token"]]
  /\ gone' = FALSE /\ crossed' = (Busy # {})
  /\ UNCHANGED <<memory, vendor, stored, row, counts, behind, mixed, twice>>
WaitForToken(f) ==
  /\ At(f, "token")
  /\ \/ Begin(f, "register", vendor)
     \/ flow' = [flow EXCEPT ![f] = None] /\ UNCHANGED counts    \* token-timeout
  /\ UNCHANGED <<memory, vendor, stored, row, behind, mixed, crossed, gone, twice>>

(* installId: memory, else storage, else a fresh one that is stored first.    *)
InstallId(f) ==
  /\ At(f, "install")
  /\ flow' = [flow EXCEPT ![f].step = IF installId # None THEN "send" ELSE "reading",
                          ![f].install = installId]
  /\ UNCHANGED <<memory, vendor, stored, row, counts, behind, mixed, crossed, gone, twice>>
ReadInstall(f) ==
  /\ At(f, "reading")
  /\ IF stored.install # None
     THEN /\ installId' = stored.install /\ UNCHANGED <<counts, twice>>
          /\ flow' = [flow EXCEPT ![f].step = "send", ![f].install = stored.install]
     ELSE /\ minted < MaxInstall /\ minted' = minted + 1 /\ UNCHANGED <<sent, served>>
          /\ installId' = minted + 1
          /\ flow' = [flow EXCEPT ![f].step = "storing", ![f].install = minted + 1]
          /\ twice' = (twice \/ \E g \in Flow \ {f} : At(g, "reading") \/ At(g, "storing"))
  /\ UNCHANGED <<key, traits, hashing, lastNative, lastSent, cached, listening, pumping,
                 vendor, stored, row, behind, mixed, crossed, gone>>
StoreInstall(f) ==
  /\ At(f, "storing") /\ stored' = [stored EXCEPT !.install = flow[f].install]
  /\ flow' = [flow EXCEPT ![f].step = "send"]
  /\ UNCHANGED <<memory, vendor, row, counts, behind, mixed, crossed, gone, twice>>

Send(f) ==
  /\ At(f, "send") /\ lastSent' = Said(flow[f].user, flow[f].traits, flow[f].no)
  /\ flow' = [flow EXCEPT ![f].step = "wire"]
  /\ LET late == lastSent # None /\ flow[f].no < lastSent.no IN
       behind' = (behind \/ late) /\ mixed' = (mixed \/ late)
  /\ UNCHANGED <<key, traits, hashing, lastNative, cached, installId, listening, pumping,
                 vendor, stored, row, counts, crossed, gone, twice>>

(* The server: the installation's row, else the token's, else a new one; what *)
(* the body does not say stays as it was, and the row lives again.            *)
Mine(b) == {h \in Handle : row[h] # None /\ row[h].install = b.install}
Holding(b) == {h \in Handle : row[h] # None /\ row[h].token = b.token}
Written(h, b) ==
  [install |-> b.install, token |-> b.token, revoked |-> FALSE,
   user |-> IF b.user = None /\ row[h] # None THEN row[h].user ELSE b.user,
   traits |-> IF b.traits # None THEN b.traits ELSE IF row[h] # None THEN row[h].traits ELSE Nobody]
Target(b) ==
  IF Mine(b) # {} THEN IF Holding(b) \subseteq Mine(b) THEN Mine(b) ELSE {}
  ELSE IF Holding(b) # {} THEN Holding(b)
  ELSE {h \in Handle : row[h] = None /\ \A g \in 1 .. h - 1 : row[g] # None}
Serve(f) ==
  /\ At(f, "wire") /\ flow[f].kind # "unregister"
  /\ LET b == flow[f] IN
       \E h \in Target(b) :
         /\ row' = [row EXCEPT ![h] = Written(h, b)]
         /\ flow' = [flow EXCEPT ![f].step = "answer", ![f].handle = h]
         /\ IF b.no < served
            THEN behind' = TRUE /\ mixed' = TRUE /\ UNCHANGED counts
            ELSE /\ served' = b.no /\ UNCHANGED <<sent, minted, mixed>>
                 /\ behind' = (behind /\ ~(/\ lastSent # None /\ hashing = None
                                          /\ Alike(b, Now) /\ Alike(lastSent, Now)
                                          /\ \A g \in Busy \ {f} : At(g, "token")))
  /\ UNCHANGED <<memory, vendor, stored, crossed, gone, twice>>

(* A request is lost, refused, or its answer is.                              *)
Lose(f) ==
  /\ flow[f] # None /\ flow[f].kind # "unregister" /\ flow[f].step \in {"wire", "answer"}
  /\ flow' = [flow EXCEPT ![f].step = "failed"] /\ behind' = TRUE
  /\ UNCHANGED <<memory, vendor, stored, row, counts, mixed, crossed, gone, twice>>

(* The rest of each call, when its request has been answered.                 *)
End(f) == flow' = [flow EXCEPT ![f] = None]
Registered(f) ==
  /\ At(f, "answer") /\ flow[f].kind = "register" /\ End(f)
  /\ cached' = flow[f].handle /\ stored' = [stored EXCEPT !.handle = flow[f].handle]
  /\ lastNative' = flow[f].token /\ listening' = TRUE /\ pumping' = TRUE
  /\ UNCHANGED <<key, traits, hashing, lastSent, installId, vendor, row, counts, behind, mixed,
                 crossed, gone, twice>>
Followed(f) ==
  /\ At(f, "answer") /\ flow[f].kind = "person" /\ End(f)
  /\ UNCHANGED <<memory, vendor, stored, row, counts, behind, mixed, crossed, gone, twice>>
Rotated(f) ==
  /\ At(f, "answer") /\ flow[f].kind = "rotation" /\ End(f)
  /\ cached' = flow[f].handle /\ stored' = [stored EXCEPT !.handle = flow[f].handle]
  /\ UNCHANGED <<key, traits, hashing, lastNative, lastSent, installId, listening, pumping,
                 vendor, row, counts, behind, mixed, crossed, gone, twice>>
PutBack(f) == IF flow[f].kind = "rotation" THEN flow[f].was ELSE lastNative
Failed(f) ==
  /\ At(f, "failed") /\ End(f)
  /\ lastSent' = IF flow[f].kind = "person" THEN None ELSE lastSent
  /\ lastNative' = PutBack(f)
  /\ UNCHANGED <<key, traits, hashing, cached, installId, listening, pumping,
                 vendor, stored, row, counts, behind, mixed, crossed, gone, twice>>

-----------------------------------------------------------------------------
(* A body has been read and not yet been sent.                                *)
Waits(f) == flow[f] # None /\ flow[f].step \in {"install", "reading", "storing", "send"}
(* user(): the traits at once, the key when its hash has landed; then whoever *)
(* listens is told.                                                           *)
Announce(f, k, t) ==
  LET now == Said(k, t, sent + 1)
      same == lastSent # None /\ Identity(lastSent) = Identity(now)
  IN
  IF listening /\ lastNative # None /\ ~same
  THEN /\ Idle(f) /\ sent < MaxSent /\ sent' = sent + 1 /\ UNCHANGED <<served, minted>>
       /\ flow' = [flow EXCEPT ![f] = [Body("person", lastNative) EXCEPT !.user = k, !.traits = t]]
       /\ lastSent' = now /\ crossed' = (Busy # {}) /\ UNCHANGED <<behind, mixed>>
  ELSE /\ UNCHANGED <<flow, lastSent, counts, mixed, crossed>>
       /\ behind' = \/ behind
                    \/ ~listening
                    \/ same /\ ~Alike(lastSent, now)
                    \/ \E g \in Flow : Waits(g) /\ ~Alike(flow[g], now)
SignOut(f) ==
  /\ key' = None /\ traits' = Nobody /\ hashing' = None /\ Announce(f, None, Nobody)
  /\ UNCHANGED <<lastNative, cached, installId, listening, pumping, vendor, stored, row, gone, twice>>
SignIn(p) ==
  /\ key' = None /\ traits' = p /\ hashing' = p
  /\ UNCHANGED <<lastNative, lastSent, cached, installId, listening, pumping, vendor, stored,
                 flow, row, counts, behind, mixed, crossed, gone, twice>>
Hashed(f) ==
  /\ hashing # None /\ key' = hashing /\ hashing' = None /\ Announce(f, hashing, traits)
  /\ UNCHANGED <<traits, lastNative, cached, installId, listening, pumping, vendor, stored,
                 row, gone, twice>>

(* The vendor rotates the token; the drain tick sees it, in the foreground.   *)
Rotate ==
  /\ vendor + 1 \in Token /\ vendor' = vendor + 1
  /\ UNCHANGED <<memory, stored, flow, row, counts, behind, mixed, crossed, gone, twice>>
Tick(f) ==
  /\ pumping /\ lastNative \notin {None, vendor} /\ Idle(f)
  /\ Begin(f, "rotation", vendor) /\ lastNative' = vendor /\ crossed' = (Busy # {})
  /\ UNCHANGED <<key, traits, hashing, lastSent, cached, installId, listening, pumping,
                 vendor, stored, row, behind, mixed, gone, twice>>

(* unregister: the server first, and everything is forgotten either way.      *)
Unregister(f) ==
  /\ Idle(f) /\ crossed' = (Busy # {}) /\ gone' = FALSE
  /\ LET h == IF cached # None THEN cached ELSE stored.handle IN
       flow' = [flow EXCEPT ![f] = [kind |-> "unregister", handle |-> h, no |-> sent,
                                   step |-> IF h = None THEN "failed" ELSE "wire"]]
  /\ UNCHANGED <<memory, vendor, stored, row, counts, behind, mixed, twice>>
Revoke(f) ==
  /\ At(f, "wire") /\ flow[f].kind = "unregister"
  /\ \/ /\ row[flow[f].handle] # None /\ row' = [row EXCEPT ![flow[f].handle].revoked = TRUE]
        /\ flow' = [flow EXCEPT ![f].step = "answer"]
     \/ UNCHANGED row /\ flow' = [flow EXCEPT ![f].step = "failed"]
  /\ UNCHANGED <<memory, vendor, stored, counts, behind, mixed, crossed, gone, twice>>
Unregistered(f) ==
  /\ flow[f] # None /\ flow[f].kind = "unregister" /\ flow[f].step \in {"answer", "failed"}
  /\ gone' = (flow[f].step = "answer") /\ End(f)
  /\ lastNative' = None /\ lastSent' = None /\ cached' = None
  /\ stored' = [stored EXCEPT !.handle = None] /\ listening' = FALSE /\ pumping' = FALSE
  /\ UNCHANGED <<key, traits, hashing, installId, vendor, row, counts, behind, mixed, crossed, twice>>

(* The process ends; what it has sent and has not been served is lost.        *)
Kill ==
  /\ key' = None /\ traits' = None /\ hashing' = None /\ lastNative' = None /\ lastSent' = None
  /\ cached' = None /\ installId' = None /\ listening' = FALSE /\ pumping' = FALSE
  /\ flow' = [f \in Flow |-> None] /\ behind' = TRUE
  /\ UNCHANGED <<vendor, stored, row, counts, mixed, crossed, gone, twice>>

Next ==
  \/ \E f \in Flow :
       \/ Register(f) \/ WaitForToken(f) \/ InstallId(f) \/ ReadInstall(f) \/ StoreInstall(f)
       \/ Send(f) \/ Serve(f) \/ Lose(f)
       \/ Registered(f) \/ Followed(f) \/ Rotated(f) \/ (Failed(f) /\ flow[f].kind # "unregister")
       \/ SignOut(f) \/ Hashed(f) \/ Tick(f)
       \/ Unregister(f) \/ Revoke(f) \/ Unregistered(f)
  \/ \E p \in Person : SignIn(p)
  \/ Rotate \/ Kill
Spec == Init /\ [][Next]_vars

-----------------------------------------------------------------------------
TypeOK ==
  /\ key \in Person \cup {None} /\ traits \in Person \cup {None, Nobody} /\ vendor \in Token
  /\ lastNative \in Token \cup {None} /\ cached \in Handle \cup {None}
  /\ sent \in 0 .. MaxSent /\ served \in 0 .. sent /\ minted \in 0 .. MaxInstall

Quiet == Busy = {} /\ hashing = None /\ lastNative = vendor
(* "Signing in or out updates the row by itself" (push.ts:208): a registered  *)
(* device at rest belongs to who is signed in.  What may leave it behind: a   *)
(* request lost; two that reach the server in the other order; a change while *)
(* push is not listening; one that reads the same as what was sent last, or   *)
(* as what was sent before a body that still waits for its install id.  A key *)
(* is never taken back: who signed out is known by the traits alone.          *)
RowFollowsPerson ==
  Quiet /\ ~behind =>
    \E h \in Handle : row[h] # None /\ row[h].token = vendor
      /\ (key # None => row[h].user = key) /\ (traits # None => row[h].traits = traits)
(* A token that has rotated is reported, again if need be: "one failed report  *)
(* means the rotation is never mentioned again" (push.ts:512) is not so.       *)
RowFollowsToken ==
  Quiet /\ ~mixed => \E h \in Handle : row[h] # None /\ row[h].token = vendor

(* One installation, one row (push.ts:60): whatever is rotated, lost or       *)
(* restarted, unless two first registrations run at once.                     *)
OneRow == ~twice => Cardinality({h \in Handle : row[h] # None}) <= 1

(* Who unregistered, with nothing else under way, is not addressable until    *)
(* the app registers again.                                                   *)
StaysUnregistered ==
  gone /\ ~crossed => \A h \in Handle : row[h] # None => row[h].revoked
=============================================================================
