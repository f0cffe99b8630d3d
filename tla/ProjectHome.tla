---------------------------- MODULE ProjectHome ----------------------------
(***************************************************************************)
(* What the transfer of a project promises.  At every moment at most one   *)
(* server accepts its events: the old one, nobody, or the new one.  An     *)
(* event is acknowledged only once it is stored at the project's home, and *)
(* what is stored there moves with the project.                            *)
(***************************************************************************)
CONSTANTS Event, Transfer, Source, Nobody

VARIABLES
    home,   \* Source, Nobody while a sealed project waits, or the transfer that took it
    kept,   \* the events stored at its home
    acked   \* the events whose senders were told that they are stored

Init == home = Source /\ kept = {} /\ acked = {}

Accept(e) ==
    /\ home # Nobody
    /\ kept' = kept \cup {e} /\ UNCHANGED <<home, acked>>

Acknowledge(e) ==
    /\ e \in kept
    /\ acked' = acked \cup {e} /\ UNCHANGED <<home, kept>>

\* The new home may store an event and acknowledge it at once.
AcceptAndAcknowledge(e) ==
    /\ home \in Transfer
    /\ kept' = kept \cup {e} /\ acked' = acked \cup {e} /\ UNCHANGED home

Leave == home = Source /\ home' = Nobody /\ UNCHANGED <<kept, acked>>

Arrive(t) == home = Nobody /\ home' = t /\ UNCHANGED <<kept, acked>>

Next ==
    \/ \E e \in Event : Accept(e) \/ Acknowledge(e) \/ AcceptAndAcknowledge(e)
    \/ Leave
    \/ \E t \in Transfer : Arrive(t)

Spec == Init /\ [][Next]_<<home, kept, acked>>
=============================================================================
