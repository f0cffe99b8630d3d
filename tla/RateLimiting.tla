----------------------------- MODULE RateLimiting -----------------------------
(* Two limiters of one shape: the server's, of tokens and addresses, and the  *)
(* crate's, which also says when to come back.  The clock is read before the  *)
(* lock is taken.                                                             *)
EXTENDS Naturals, Sequences, FiniteSets

CONSTANTS Key, Caller, Max, Window,
          Told,      \* the crate's limiter: answers say more than yes or no
          MaxTime, None

VARIABLES clock,
          bucket,    \* key -> stamps
          call,      \* caller -> [key, now] with the clock read, or None
          admitted,  \* history: key -> stamps since it was forgotten
          late,      \* history: key -> was a stamp older than one before it?
          answer     \* caller -> its last answer

vars == <<clock, bucket, call, admitted, late, answer>>

Init ==
  /\ clock = 0 /\ bucket = [k \in Key |-> <<>>] /\ call = [c \in Caller |-> None]
  /\ admitted = [k \in Key |-> <<>>] /\ late = [k \in Key |-> FALSE]
  /\ answer = [c \in Caller |-> None]

Tick == clock < MaxTime /\ clock' = clock + 1 /\ UNCHANGED <<bucket, call, admitted, late, answer>>

(* auth_rate_limit_mw, rate_limit_mw, check: the call, and its clock.         *)
Ask(c, k) ==
  /\ call[c] = None /\ call' = [call EXCEPT ![c] = [key |-> k, now |-> clock]]
  /\ UNCHANGED <<clock, bucket, admitted, late, answer>>

Out(stamp, now) == now > stamp + Window
(* From the front, up to one that stays.                                      *)
Evicted(stamps, now) ==
  LET out == {i \in DOMAIN stamps : \A j \in 1 .. i : Out(stamps[j], now)}
  IN SubSeq(stamps, Cardinality(out) + 1, Len(stamps))
Room(stamps, now) == Len(Evicted(stamps, now)) < Max
RetryAfter(stamps, now) ==
  LET oldest == IF stamps = <<>> THEN now ELSE Head(stamps)
  IN IF oldest + Window > now THEN oldest + Window - now ELSE 0

Decide(c) ==
  /\ call[c] # None /\ call' = [call EXCEPT ![c] = None]
  /\ LET k == call[c].key
         now == call[c].now
         kept == Evicted(bucket[k], now)
     IN IF Room(bucket[k], now)
        THEN /\ bucket' = [bucket EXCEPT ![k] = Append(kept, now)]
             /\ admitted' = [admitted EXCEPT ![k] = Append(@, now)]
             /\ late' = [late EXCEPT ![k] = @ \/ \E i \in DOMAIN admitted[k] : admitted[k][i] > now]
             /\ answer' = [answer EXCEPT ![c] = [remaining |-> IF Told THEN Max - Len(kept) - 1 ELSE None]]
        ELSE /\ bucket' = [bucket EXCEPT ![k] = kept] /\ UNCHANGED <<admitted, late>>
             /\ answer' = [answer EXCEPT ![c] =
                             [retry |-> IF Told THEN RetryAfter(kept, now) ELSE None]]
  /\ UNCHANGED clock

(* reset and clear: the crate's.                                              *)
Forget(keys) ==
  /\ Told
  /\ bucket' = [k \in Key |-> IF k \in keys THEN <<>> ELSE bucket[k]]
  /\ admitted' = [k \in Key |-> IF k \in keys THEN <<>> ELSE admitted[k]]
  /\ late' = [k \in Key |-> IF k \in keys THEN FALSE ELSE late[k]]
  /\ UNCHANGED <<clock, call, answer>>

Next ==
  \/ Tick
  \/ \E c \in Caller : (\E k \in Key : Ask(c, k)) \/ Decide(c)
  \/ \E k \in Key : Forget({k})
  \/ Forget(Key)
Spec == Init /\ [][Next]_vars

-----------------------------------------------------------------------------
TypeOK ==
  /\ clock \in 0 .. MaxTime
  /\ \A k \in Key : Len(bucket[k]) <= Max

(* "The rate over any sliding window is guaranteed" (memory.rs:15): no window *)
(* holds more than Max admissions of a key, as long as no caller that had read*)
(* the clock was overtaken by one with a later stamp.                         *)
Within(stamps, from) == {i \in DOMAIN stamps : from <= stamps[i] /\ stamps[i] <= from + Window}
RateIsKept ==
  \A k \in Key : ~late[k] => \A t \in 0 .. clock : Cardinality(Within(admitted[k], t)) <= Max

(* Of a full bucket: nobody is admitted before the time to wait is over, and  *)
(* one moment later somebody is, whatever order the stamps came in.           *)
WaitIsEnough ==
  \A k \in Key : \A now \in clock .. MaxTime :
    LET stamps == Evicted(bucket[k], now) IN
      ~Room(bucket[k], now) => \A w \in 0 .. Window + MaxTime :
        /\ w <= RetryAfter(stamps, now) => ~Room(bucket[k], now + w)
        /\ w > RetryAfter(stamps, now) => Room(bucket[k], now + w)
=============================================================================
