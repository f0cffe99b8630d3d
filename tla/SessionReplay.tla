---------------------------- MODULE SessionReplay ----------------------------
(* What the last seconds of an app looked like: the replay ring of keyframes   *)
(* and deltas, its two feeders (React Native, and the web, which has no        *)
(* lifecycle of its own), the ring of screenshots, and the player that draws a *)
(* recording again.                                                            *)
(*                                                                             *)
(* A node of a screen is a place and a look; ids are a place and an occurrence.*)
(* A recording is drained when an error goes out; what it would hold is defined*)
(* at every moment.  The app's state changes in two steps: AppState knows it,  *)
(* and then its callback comes, before the next change.  Upload of what was    *)
(* drained is the transport's.                                                 *)
EXTENDS Integers, FiniteSets, SequencesExt

CONSTANTS Web,       \* the web's feeder; else React Native's
          Pixels,    \* are screenshots taken?
          Screens,   \* what the app may show: [nodes: sequence of [at, look], size]
          KeyMs, WindowMs, MaxItems,   \* the ring's options
          MinNodes,  \* KEYFRAME_RATIO_MIN_NODES
          Capacity,  \* slots of the screenshot ring
          MaxTime, MaxStay, None

VARIABLES screen, clock,
          back,      \* has the clock been set back? (bound: once)
          host,      \* AppState.currentState is active
          pending,   \* its callback is to come
          stay,      \* history: changes of the app's state
          seen,      \* lifecycle.ts: [active, epoch]
          ring,      \* [entries, last, lastKey, lastTs, epoch]
          taken,     \* history: frames captured since the ring was cold
          shots,     \* screenshots: [t, stay]
          shotEpoch,
          capturing  \* the capture under way, or None

life == <<host, pending, stay, seen>>
pixels == <<shots, shotEpoch, capturing>>
vars == <<screen, clock, back, life, ring, taken, pixels>>

-----------------------------------------------------------------------------
(* Geometry plus occurrence in walk order.                                    *)
Id(nodes, i) ==
  <<nodes[i].at, Cardinality({j \in 1 .. i - 1 : nodes[j].at = nodes[i].at})>>
Index(nodes) == [i \in DOMAIN nodes |-> [id |-> Id(nodes, i), node |-> nodes[i]]]
Ids(order) == {order[i].id : i \in DOMAIN order}

(* Added nodes keep their position, in walk order.                            *)
Delta(prev, curr) ==
  LET was == ToSet(Index(prev))
      fresh == [i \in DOMAIN curr |-> [id |-> Id(curr, i), node |-> curr[i], at |-> i]]
  IN [added |-> SelectSeq(fresh, LAMBDA e : e.id \notin Ids(Index(prev))),
      changed |-> {e \in ToSet(Index(curr)) :
                     \E x \in was : x.id = e.id /\ x.node.look # e.node.look},
      removed |-> Ids(Index(prev)) \ Ids(Index(curr))]
Touched(d) == Len(d.added) + Cardinality(d.changed) + Cardinality(d.removed)

Drained(r) == [r EXCEPT !.entries = <<>>, !.last = None, !.lastKey = 0]
Key(s, ts) == [kind |-> "key", ts |-> ts, nodes |-> s.nodes, size |-> s.size]

(* What has left the window goes from the front, and so does what is too much.*)
Young(entries, now) ==
  LET old == {i \in DOMAIN entries : \A j \in 1 .. i : entries[j].ts + WindowMs < now}
  IN SubSeq(entries, Cardinality(old) + 1, Len(entries))
Capped(entries) ==
  IF Len(entries) <= MaxItems THEN entries
  ELSE SubSeq(entries, Len(entries) - MaxItems + 1, Len(entries))
Keep(r, entry, s) ==
  [r EXCEPT !.entries = Capped(Young(Append(@, entry), entry.ts)), !.last = s.nodes,
            !.lastKey = IF entry.kind = "key" THEN entry.ts ELSE @]

(* A keyframe when there is nothing to start from, when one is due, or when   *)
(* most of the screen is new; nothing for a screen that stands still.         *)
NeedsKey(r, s, ts) ==
  \/ r.last = None
  \/ ts - r.lastKey >= KeyMs
  \/ Len(s.nodes) >= MinNodes /\ 10 * Touched(Delta(r.last, s.nodes)) >= 4 * Len(s.nodes)
Push(r, s, ts) ==
  IF NeedsKey(r, s, ts) THEN Keep(r, Key(s, ts), s)
  ELSE LET d == Delta(r.last, s.nodes) IN
       IF Touched(d) = 0 THEN r ELSE Keep(r, [kind |-> "delta", ts |-> ts, d |-> d], s)

-----------------------------------------------------------------------------
Init ==
  /\ screen \in Screens /\ clock = 1 /\ back = FALSE
  /\ host = TRUE /\ pending = FALSE /\ stay = 0 /\ seen = [active |-> TRUE, epoch |-> 0]
  /\ ring = [entries |-> <<>>, last |-> None, lastKey |-> 0, lastTs |-> 0, epoch |-> 0]
  /\ taken = <<>> /\ shots = <<>> /\ shotEpoch = 0 /\ capturing = None

(* The world around: what is shown, the clock, the app's state.               *)
Show(s) ==
  /\ host /\ s # screen /\ screen' = s
  /\ UNCHANGED <<clock, back, life, ring, taken, pixels>>
Pass == clock < MaxTime /\ clock' = clock + 1 /\ UNCHANGED <<screen, back, life, ring, taken, pixels>>
SetBack ==
  /\ ~back /\ clock > 1 /\ back' = TRUE /\ clock' = clock - 1
  /\ UNCHANGED <<screen, life, ring, taken, pixels>>
Switch ==
  /\ ~Web /\ ~pending /\ stay < MaxStay
  /\ host' = ~host /\ pending' = TRUE /\ stay' = stay + 1
  /\ UNCHANGED <<screen, clock, back, seen, ring, taken, pixels>>

(* updateState: every transition is a new generation.                         *)
Updated == IF seen.active = host THEN seen ELSE [active |-> host, epoch |-> seen.epoch + 1]
Callback ==
  /\ pending /\ pending' = FALSE /\ seen' = Updated
  /\ UNCHANGED <<screen, clock, back, host, stay, ring, taken, pixels>>
Look == IF Web THEN UNCHANGED life ELSE seen' = Updated /\ UNCHANGED <<host, pending, stay>>

(* syncLifecycle: nothing survives the background.                            *)
Over(epoch) == ~Web /\ (~host \/ Updated.epoch # epoch)
Synced == IF Over(ring.epoch) THEN [Drained(ring) EXCEPT !.lastTs = 0, !.epoch = Updated.epoch]
          ELSE ring
(* encodeAndPush: a frame older than the last one starts anew.                *)
Forward(r) == IF ~Web /\ clock < r.lastTs THEN Drained(r) ELSE r

SameOrder(p, c) ==
  LET of(nodes, other) ==
        SelectSeq([i \in DOMAIN nodes |-> Id(nodes, i)], LAMBDA id : id \in Ids(Index(other)))
  IN of(p, c) = of(c, p)
(* steady: history, that nothing has changed its place in the walk, nor the   *)
(* screen its size, since the keyframe.                                       *)
Taken(r, s) ==
  LET before == IF r.last = None THEN <<>> ELSE taken
      same == /\ before # <<>> /\ ~NeedsKey(r, s, clock)
              /\ Last(before).steady /\ Last(before).s.size = s.size
              /\ SameOrder(Last(before).s.nodes, s.nodes)
  IN Append(before, [ts |-> clock, s |-> s, steady |-> NeedsKey(r, s, clock) \/ same])

(* One tick of the capture, if the app is in front.                           *)
Tick ==
  /\ Look /\ UNCHANGED <<screen, clock, back, pixels>>
  /\ taken # <<>> => Last(taken).ts # clock
  /\ IF Web \/ host
     THEN LET r == Forward(Synced) IN
            /\ ring' = [Push(r, screen, clock) EXCEPT !.lastTs = clock]
            /\ taken' = Taken(r, screen)
     ELSE ring' = Synced /\ taken' = <<>>

(* drainReplay: React Native sends what is in the window, from a keyframe on. *)
FromKey(entries) ==
  LET keys == {i \in DOMAIN entries : entries[i].kind = "key"} IN
    IF keys = {} THEN <<>>
    ELSE SubSeq(entries, CHOOSE i \in keys : \A j \in keys : i <= j, Len(entries))
Retained(entries) ==
  FromKey(SelectSeq(entries, LAMBDA e : e.ts + WindowMs >= clock /\ e.ts <= clock))
Lines == IF Web THEN ring.entries ELSE Retained(Synced.entries)

(* The screenshot ring: evicted by time, then by number; it is not cleared.   *)
Recent(s) == SelectSeq(s, LAMBDA x : x.t + WindowMs >= clock /\ x.t <= clock)
OfThisStay == IF Over(shotEpoch) THEN <<>> ELSE shots
Pictures == Recent(OfThisStay)

(* An error or a warning goes out.                                            *)
Emit ==
  /\ ring' = Drained(Synced) /\ taken' = <<>> /\ Look
  /\ IF Pixels THEN shots' = Pictures /\ shotEpoch' = Updated.epoch ELSE UNCHANGED <<shots, shotEpoch>>
  /\ UNCHANGED <<screen, clock, back, capturing>>

(* A screenshot: one at a time, and other things happen while it is taken.    *)
StartShot ==
  /\ Pixels /\ capturing = None /\ Look
  /\ shots' = OfThisStay /\ shotEpoch' = Updated.epoch
  /\ capturing' = IF host THEN [t |-> clock, epoch |-> Updated.epoch, stay |-> stay] ELSE None
  /\ UNCHANGED <<screen, clock, back, ring, taken>>
SameStay == host /\ capturing.epoch = Updated.epoch
EndShot ==
  /\ capturing # None /\ Look /\ shotEpoch' = Updated.epoch /\ capturing' = None
  /\ \/ shots' = IF SameStay
                 THEN LET all == Recent(Append(OfThisStay, [t |-> capturing.t, stay |-> capturing.stay]))
                      IN IF Len(all) > Capacity THEN SubSeq(all, Len(all) - Capacity + 1, Len(all)) ELSE all
                 ELSE OfThisStay
     \/ shots' = OfThisStay
  /\ UNCHANGED <<screen, clock, back, ring, taken>>

Next ==
  \/ \E s \in Screens : Show(s)
  \/ Pass \/ SetBack \/ Switch \/ Callback
  \/ Tick \/ Emit \/ StartShot \/ EndShot
Spec == Init /\ [][Next]_vars

-----------------------------------------------------------------------------
(* The player: in the order of time, from the first keyframe.                 *)
Decoded(lines) == FromKey(SortSeq(lines, LAMBDA a, b : a.ts < b.ts))
Placed(order, e) ==
  LET entry == [id |-> e.id, node |-> e.node] IN
  IF e.id \in Ids(order)
  THEN [i \in DOMAIN order |-> IF order[i].id = e.id THEN entry ELSE order[i]]
  ELSE IF e.at <= Len(order) + 1 THEN InsertAt(order, e.at, entry) ELSE Append(order, entry)
Changed(order, changed) ==
  [i \in DOMAIN order |->
     IF order[i].id \in {c.id : c \in changed}
     THEN CHOOSE c \in changed : c.id = order[i].id ELSE order[i]]
Applied(picture, f) ==
  IF f.kind = "key" THEN [order |-> Index(f.nodes), size |-> f.size]
  ELSE LET left == SelectSeq(picture.order, LAMBDA e : e.id \notin f.d.removed)
       IN [picture EXCEPT !.order = FoldLeft(Placed, Changed(left, f.d.changed), f.d.added)]
Picture(frames, n) == FoldLeft(Applied, [order |-> <<>>, size |-> None], SubSeq(frames, 1, n))

TypeOK ==
  /\ screen \in Screens /\ clock \in 1 .. MaxTime /\ stay \in 0 .. MaxStay
  /\ Len(ring.entries) <= MaxItems /\ Len(shots) <= Capacity

(* "Nothing about a wrong frame looks wrong" (replay-ring.ts:15): whenever an *)
(* error goes out, the recording played at the moment of any capture that it  *)
(* reaches back to shows the nodes that were captured then, those dropped as  *)
(* unchanged included; in their order and at their size, if those have been   *)
(* what they were at the keyframe.  On the web, unless the clock went back.   *)
PlaybackIsTrue ==
  LET frames == Decoded(Lines)
      upTo(ts) == Cardinality({i \in DOMAIN frames : frames[i].ts <= ts})
      forward == \A n \in 1 .. Len(taken) - 1 : taken[n].ts < taken[n + 1].ts
  IN (Web => forward) /\ ~Over(ring.epoch) => \A n \in DOMAIN taken :
       LET c == taken[n]
           p == Picture(frames, upTo(c.ts))
       IN upTo(c.ts) > 0 /\ c.ts <= clock =>
            /\ ToSet(p.order) = ToSet(Index(c.s.nodes))
            /\ c.steady => p.order = Index(c.s.nodes) /\ p.size = c.s.size

(* A recording of an app that was captured all the while reaches back over    *)
(* the window, less at most one keyframe's time.                              *)
ReachesBack ==
  LET all == \A t \in clock - WindowMs .. clock : \E n \in DOMAIN taken : taken[n].ts = t
      frames == Decoded(Lines)
  IN ~back /\ ~Over(ring.epoch) /\ all /\ MaxItems > WindowMs =>
       frames # <<>> /\ frames[1].ts <= clock - WindowMs + KeyMs

(* "Even a full suspend/resume between two ticks is visible" (lifecycle.ts:3):*)
(* no recording has a picture, or a frame, of an earlier stay in front.       *)
OneStay ==
  /\ \A i \in DOMAIN Pictures : Pictures[i].stay = stay
  /\ ~Web /\ ~host => Lines = <<>> /\ Pictures = <<>>
=============================================================================
