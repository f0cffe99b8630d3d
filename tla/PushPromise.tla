---------------------------- MODULE PushPromise ----------------------------
(***************************************************************************)
(* What the push worker promises of a message that it is asked to send.    *)
(* It attempts to a limit, and never again once the message has arrived;   *)
(* it says `sent' of what arrived and `failed' of what did not, and of the *)
(* rest that it does not know.  Only what nobody knows, and an operator    *)
(* repeats all the same, can arrive once more.                             *)
(***************************************************************************)
EXTENDS Integers

CONSTANTS Send, MaxRetries

VARIABLES
    row,    \* "absent", "open", "sent", "failed" or "unknown"
    tries,  \* the attempts since it was asked for last
    fresh,  \* the sends whose message has arrived since
    early,  \* how often it arrived for what was asked before that
    risked  \* how often an operator repeated what nobody knew

promiseVars == <<row, tries, fresh, early, risked>>

Init ==
    /\ row = [s \in Send |-> "absent"] /\ tries = [s \in Send |-> 0]
    /\ fresh = {} /\ early = [s \in Send |-> 0] /\ risked = [s \in Send |-> 0]

Ask(s) ==
    /\ row[s] = "absent" /\ row' = [row EXCEPT ![s] = "open"]
    /\ UNCHANGED <<tries, fresh, early, risked>>

Attempt(s) ==
    /\ row[s] = "open" /\ s \notin fresh /\ tries[s] <= MaxRetries
    /\ tries' = [tries EXCEPT ![s] = @ + 1]
    /\ UNCHANGED <<row, fresh, early, risked>>

Arrive(s) ==
    /\ row[s] \in {"open", "unknown"} /\ s \notin fresh /\ tries[s] > 0
    /\ fresh' = fresh \cup {s}
    /\ UNCHANGED <<row, tries, early, risked>>

\* An attempt that was given up before the operator asked again.
ArriveLate(s) ==
    /\ early[s] < risked[s] /\ early' = [early EXCEPT ![s] = @ + 1]
    /\ UNCHANGED <<row, tries, fresh, risked>>

Close(s) ==
    /\ row[s] = "open" /\ tries[s] > 0
    /\ row' = [row EXCEPT ![s] = IF s \in fresh THEN "sent" ELSE "failed"]
    /\ UNCHANGED <<tries, fresh, early, risked>>

GiveUp(S) ==
    /\ \A s \in S : row[s] = "open" /\ tries[s] > 0
    /\ row' = [s \in Send |-> IF s \in S THEN "unknown" ELSE row[s]]
    /\ UNCHANGED <<tries, fresh, early, risked>>

Repeat(s) ==
    /\ row[s] \in {"failed", "unknown"} /\ row' = [row EXCEPT ![s] = "open"]
    /\ tries' = [tries EXCEPT ![s] = 0] /\ fresh' = fresh \ {s}
    /\ early' = [early EXCEPT ![s] = IF s \in fresh THEN @ + 1 ELSE @]
    /\ risked' = [risked EXCEPT ![s] = IF row[s] = "unknown" THEN @ + 1 ELSE @]

Next ==
    \/ \E s \in Send : Ask(s) \/ Attempt(s) \/ Arrive(s) \/ ArriveLate(s) \/ Close(s) \/ Repeat(s)
    \/ \E S \in SUBSET Send : GiveUp(S)

Spec == Init /\ [][Next]_promiseVars
=============================================================================
