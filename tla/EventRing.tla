------------------------------ MODULE EventRing ------------------------------
(* The bounded buffer between many producers and those who drain it: the      *)
(* oldest gives way to the newest, and what is lost is counted.               *)
(*                                                                            *)
(* A push is up to four atomic steps, a push to the queue, a pop, another push*)
(* and an addition to the counter, and other threads come in between.  An item*)
(* is its producer and the producer's count of it.                            *)
EXTENDS Naturals, Sequences, FiniteSets

CONSTANTS Producer, Capacity,
          MaxPushes   \* bound: items of a producer

VARIABLES queue, dropped,
          at,        \* producer -> "idle", "evict", "retry", "count"
          made,      \* producer -> its items so far
          evicted,   \* producer -> the item that its pop took out, in a set
          lost,      \* producer -> the items of this push that are lost
          outcome,   \* producer -> what its last push answered
          drained,   \* history: what was popped, in order
          counted    \* history: what the counter stands for

vars == <<queue, dropped, at, made, evicted, lost, outcome, drained, counted>>

Item(p) == <<p, made[p]>>
Full == Len(queue) >= Capacity
InQueue == {queue[i] : i \in DOMAIN queue}

Init ==
  /\ queue = <<>> /\ dropped = 0 /\ drained = <<>> /\ counted = {}
  /\ at = [p \in Producer |-> "idle"] /\ made = [p \in Producer |-> 0]
  /\ evicted = [p \in Producer |-> {}] /\ lost = [p \in Producer |-> {}]
  /\ outcome = [p \in Producer |-> "none"]

Push(p) ==
  /\ at[p] = "idle" /\ made[p] < MaxPushes
  /\ made' = [made EXCEPT ![p] = @ + 1]
  /\ IF Full
     THEN at' = [at EXCEPT ![p] = "evict"] /\ UNCHANGED <<queue, outcome>>
     ELSE /\ queue' = Append(queue, <<p, made[p] + 1>>)
          /\ outcome' = [outcome EXCEPT ![p] = "inserted"] /\ UNCHANGED at
  /\ UNCHANGED <<dropped, evicted, lost, drained, counted>>

Evict(p) ==
  /\ at[p] = "evict" /\ at' = [at EXCEPT ![p] = "retry"]
  /\ IF queue = <<>> THEN UNCHANGED <<queue, evicted>>
     ELSE evicted' = [evicted EXCEPT ![p] = {Head(queue)}] /\ queue' = Tail(queue)
  /\ UNCHANGED <<dropped, made, lost, outcome, drained, counted>>

(* What is lost by a push that got its slot or did not.                       *)
Losses(p, pushed) == IF pushed THEN evicted[p] ELSE evicted[p] \cup {Item(p)}
Outcome(p, pushed) ==
  IF ~pushed THEN "dropped" ELSE IF evicted[p] = {} THEN "inserted" ELSE "evicted"
Retry(p) ==
  /\ at[p] = "retry" /\ queue' = IF Full THEN queue ELSE Append(queue, Item(p))
  /\ lost' = [lost EXCEPT ![p] = Losses(p, ~Full)]
  /\ outcome' = [outcome EXCEPT ![p] = Outcome(p, ~Full)]
  /\ evicted' = [evicted EXCEPT ![p] = {}] /\ at' = [at EXCEPT ![p] = "count"]
  /\ UNCHANGED <<dropped, made, drained, counted>>

(* The addition, if anything was lost.                                        *)
Count(p) ==
  /\ at[p] = "count" /\ at' = [at EXCEPT ![p] = "idle"]
  /\ dropped' = dropped + Cardinality(lost[p])
  /\ counted' = counted \cup lost[p] /\ lost' = [lost EXCEPT ![p] = {}]
  /\ UNCHANGED <<queue, made, evicted, outcome, drained>>

Pop ==
  /\ queue # <<>> /\ drained' = Append(drained, Head(queue)) /\ queue' = Tail(queue)
  /\ UNCHANGED <<dropped, at, made, evicted, lost, outcome, counted>>

Next == Pop \/ \E p \in Producer : Push(p) \/ Evict(p) \/ Retry(p) \/ Count(p)
Spec == Init /\ [][Next]_vars

-----------------------------------------------------------------------------
TypeOK ==
  /\ queue \in Seq(Producer \X Nat) /\ drained \in Seq(Producer \X Nat)
  /\ counted \in SUBSET (Producer \X Nat) /\ dropped \in Nat
  /\ at \in [Producer -> {"idle", "evict", "retry", "count"}]
  /\ made \in [Producer -> Nat]
  /\ evicted \in [Producer -> SUBSET (Producer \X Nat)]
  /\ lost \in [Producer -> SUBSET (Producer \X Nat)]
  /\ outcome \in [Producer -> {"none", "inserted", "evicted", "dropped"}]

Drained == {drained[i] : i \in DOMAIN drained}
Made == UNION {{p} \X (1 .. made[p]) : p \in Producer}
InHand(p) ==
  evicted[p] \cup lost[p] \cup (IF at[p] \in {"evict", "retry"} THEN {Item(p)} ELSE {})

(* Whatever the threads do to one another, an item is in exactly one place: in*)
(* the queue, drained, in the hands of one push that has yet to put it back or*)
(* to count it, or in the count; and the counter says how many those are      *)
(* (lib.rs:26, "Every dropped item is counted").                              *)
NothingUncounted ==
  /\ dropped = Cardinality(counted)
  /\ Made = InQueue \cup Drained \cup counted \cup UNION {InHand(p) : p \in Producer}
  /\ \A p, q \in Producer : p # q => InHand(p) \cap InHand(q) = {}
  /\ \A p \in Producer :
       InHand(p) \cap (InQueue \cup Drained \cup counted) = {}
  /\ InQueue \cap (Drained \cup counted) = {} /\ Drained \cap counted = {}

(* What one producer pushed comes out in the order in which it was pushed, and*)
(* comes out once.                                                            *)
InOrder ==
  LET line == drained \o queue IN
    \A i, j \in DOMAIN line :
      i < j /\ line[i][1] = line[j][1] => line[i][2] < line[j][2]
=============================================================================
