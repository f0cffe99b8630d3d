----------------------------- MODULE IssueIngest -----------------------------
(* How an event finds its issue.  Requests that carry the same fingerprint, or *)
(* the same event id, run at once, each in a transaction of statements that    *)
(* lock rows; an operator resolves and reopens issues, a guarding probe        *)
(* reopens the issue of another group, and a project is deleted under way.     *)
(*                                                                             *)
(* A row that a transaction has locked or inserted belongs to it until it ends;*)
(* nobody else sees what it wrote.  Whether an event is late enough to be a    *)
(* regression of a resolved issue (the releases' and the clocks' order) is a   *)
(* choice.  Event ids live until their project is deleted: retention is in     *)
(* JobQueue.                                                                   *)
EXTENDS Naturals, FiniteSets

CONSTANTS Request,   \* requests, resent ones included
          Group,     \* fingerprints, each of one project
          Content,   \* what a request may carry: [id, group, guards]
          Owner,     \* function: project of a group
          None

VARIABLES issue,     \* issues: [status, count] of a group
          event,     \* events: group of an id
          notice,    \* notification_events of each group: [new, regressed]
          tx,        \* the transaction of each request
          answer,    \* what each request was told
          deleted,   \* projects that are gone
          reopened   \* history: how often ingest took an issue from resolved to open

vars == <<issue, event, notice, tx, answer, deleted, reopened>>
Id == {c.id : c \in Content}

Init ==
  /\ issue = [g \in Group |-> None] /\ event = [e \in Id |-> None]
  /\ notice = [g \in Group |-> [new |-> 0, regressed |-> 0]]
  /\ tx = [r \in Request |-> None] /\ answer = [r \in Request |-> None]
  /\ deleted = {} /\ reopened = [g \in Group |-> 0]

Idle == None
At(r, step) == tx[r] # Idle /\ tx[r].step = step

(* Rows that a transaction holds: its issue, the issue it guards and reopens, *)
(* the event id it has inserted.                                              *)
HasIssue(r) == tx[r] # Idle /\ tx[r].step \in {"update", "event", "probe", "commit"}
HasEvent(r) == tx[r] # Idle /\ tx[r].step \in {"probe", "commit"}
Locked(r) ==
  IF ~HasIssue(r) THEN {}
  ELSE {tx[r].c.group} \cup IF tx[r].flipped THEN {tx[r].c.guards} ELSE {}
Free(r, g) == \A other \in Request \ {r} : g \notin Locked(other)

Step(r, step) == tx' = [tx EXCEPT ![r].step = step]
End(r, said) ==
  /\ tx' = [tx EXCEPT ![r] = Idle] /\ answer' = [answer EXCEPT ![r] = said]
Reads == UNCHANGED <<issue, event, notice, deleted, reopened>>

-----------------------------------------------------------------------------
(* ingest, one statement at a time.                                           *)
Arrive(r, c) ==
  /\ tx[r] = Idle /\ answer[r] = None
  /\ tx' = [tx EXCEPT ![r] = [step |-> "select", c |-> c, new |-> FALSE,
                             regressed |-> FALSE, flipped |-> FALSE]]
  /\ UNCHANGED answer /\ Reads

(* SELECT ... FOR UPDATE sees only what is committed, and waits for its lock. *)
Select(r) ==
  /\ At(r, "select")
  /\ LET g == tx[r].c.group IN
       IF issue[g] = None THEN Step(r, "insert") ELSE Free(r, g) /\ Step(r, "update")
  /\ UNCHANGED answer /\ Reads

(* INSERT ... ON CONFLICT DO NOTHING waits for a row that is not committed.   *)
Insert(r) ==
  /\ At(r, "insert")
  /\ LET g == tx[r].c.group IN
       \/ Owner[g] \in deleted /\ End(r, "failed")
       \/ /\ Owner[g] \notin deleted /\ issue[g] # None
          /\ Step(r, "reread") /\ UNCHANGED answer
       \/ /\ Owner[g] \notin deleted /\ issue[g] = None /\ Free(r, g)
          /\ tx' = [tx EXCEPT ![r].step = "event", ![r].new = TRUE] /\ UNCHANGED answer
  /\ Reads
Reread(r) ==
  /\ At(r, "reread")
  /\ LET g == tx[r].c.group IN
       \/ issue[g] = None /\ End(r, "refused")
       \/ issue[g] # None /\ Free(r, g) /\ Step(r, "update") /\ UNCHANGED answer
  /\ Reads

(* An issue that was there: a regression opens it again.                      *)
Update(r) ==
  /\ At(r, "update")
  /\ \E late \in BOOLEAN :
       tx' = [tx EXCEPT ![r].step = "event",
                ![r].regressed = issue[tx[r].c.group].status = "resolved" /\ late]
  /\ UNCHANGED answer /\ Reads

\* Mutant: an event that is there already is counted with the others.
NeverThere(e) == FALSE
There(e) == event[e] # None
(* INSERT INTO events ON CONFLICT(id) DO NOTHING, and what a duplicate does.  *)
Store(r) ==
  /\ At(r, "event") /\ \A other \in Request \ {r} : HasEvent(other) => tx[other].c.id # tx[r].c.id
  /\ Step(r, IF There(tx[r].c.id) THEN "lookup" ELSE "probe")
  /\ UNCHANGED answer /\ Reads
(* The rollback has released everything; the id is looked for in the project. *)
Lookup(r) ==
  /\ At(r, "lookup")
  /\ LET e == tx[r].c.id IN
       End(r, IF event[e] # None /\ Owner[event[e]] = Owner[tx[r].c.group]
              THEN "accepted" ELSE "refused")
  /\ Reads

(* A probe reopens the issue it guards, if that is resolved; a row that does  *)
(* not match when the statement begins is not waited for.                     *)
Probe(r) ==
  /\ At(r, "probe")
  /\ LET g == tx[r].c.guards
         flips == g # None /\ g # tx[r].c.group /\ issue[g] # None /\ issue[g].status = "resolved"
     IN /\ flips => Free(r, g)
        /\ tx' = [tx EXCEPT ![r].step = "commit", ![r].flipped = flips]
  /\ UNCHANGED answer /\ Reads

Flipped(r, g) == tx[r].flipped /\ g = tx[r].c.guards
Reopens(r, g) == Flipped(r, g) \/ (tx[r].regressed /\ g = tx[r].c.group)
Counted(r, g) == IF issue[g] = None THEN 1 ELSE issue[g].count + 1
Row(r, g) ==
  CASE g = tx[r].c.group ->
         [status |-> IF tx[r].new \/ tx[r].regressed THEN "open" ELSE issue[g].status,
          count |-> Counted(r, g)]
    [] Flipped(r, g) -> [issue[g] EXCEPT !.status = "open"]
    [] OTHER -> issue[g]
Announces(r, g) == Reopens(r, g)
Commit(r) ==
  /\ At(r, "commit")
  /\ issue' = [g \in Group |-> Row(r, g)]
  /\ event' = [event EXCEPT ![tx[r].c.id] = tx[r].c.group]
  /\ notice' = [g \in Group |->
       [new |-> notice[g].new + IF tx[r].new /\ g = tx[r].c.group THEN 1 ELSE 0,
        regressed |-> notice[g].regressed + IF Announces(r, g) THEN 1 ELSE 0]]
  /\ reopened' = [g \in Group |->
       reopened[g] + IF issue[g] # None /\ issue[g].status = "resolved" /\ Reopens(r, g)
                     THEN 1 ELSE 0]
  /\ End(r, "accepted") /\ UNCHANGED deleted

(* The answer is lost after the commit; a statement fails, the connection or  *)
(* the process ends, or the database picks the victim of a deadlock.          *)
Abort(r) == tx[r] # Idle /\ End(r, "failed") /\ Reads
LoseAnswer(r) ==
  /\ answer[r] = "accepted" /\ answer' = [answer EXCEPT ![r] = "failed"]
  /\ UNCHANGED tx /\ Reads

-----------------------------------------------------------------------------
(* resolve, ignore, reopen: single statements, which wait for the row.        *)
Turn(g, to) ==
  /\ issue[g] # None /\ issue[g].status # to /\ \A r \in Request : g \notin Locked(r)
  /\ issue' = [issue EXCEPT ![g].status = to]
  /\ UNCHANGED <<event, notice, tx, answer, deleted, reopened>>
Resolve(g) == Turn(g, "resolved")
SetStatus(g, to) == Turn(g, to)
(* A project goes with its issues, events and notices; a transaction that has *)
(* written a row of the project holds a share of the project's lock.          *)
Delete(p) ==
  LET mine == {g \in Group : Owner[g] = p} IN
  /\ p \notin deleted /\ \A r \in Request : Locked(r) \cap mine = {}
  /\ deleted' = deleted \cup {p}
  /\ issue' = [g \in Group |-> IF g \in mine THEN None ELSE issue[g]]
  /\ event' = [e \in Id |-> IF event[e] \in mine THEN None ELSE event[e]]
  /\ notice' = [g \in Group |-> IF g \in mine THEN [new |-> 0, regressed |-> 0] ELSE notice[g]]
  /\ reopened' = [g \in Group |-> IF g \in mine THEN 0 ELSE reopened[g]]
  /\ UNCHANGED <<tx, answer>>

Next ==
  \/ \E r \in Request, c \in Content : Arrive(r, c)
  \/ \E r \in Request : Select(r) \/ Insert(r) \/ Reread(r) \/ Update(r) \/ Store(r)
                        \/ Lookup(r) \/ Probe(r) \/ Commit(r) \/ Abort(r) \/ LoseAnswer(r)
  \/ \E g \in Group : Resolve(g)
  \/ \E g \in Group, to \in {"ignored", "open"} : SetStatus(g, to)
  \/ \E p \in {Owner[g] : g \in Group} : Delete(p)
Spec == Init /\ [][Next]_vars

-----------------------------------------------------------------------------
TypeOK ==
  /\ \A g \in Group : issue[g] # None => issue[g].status \in {"open", "resolved", "ignored"}
  /\ \A e \in Id : event[e] \in Group \cup {None}
  /\ \A r \in Request : answer[r] \in {None, "accepted", "refused", "failed"}

(* Concurrent first events, resent requests and failures in the middle of a   *)
(* transaction leave one issue per fingerprint with one "new issue" notice,   *)
(* which counts each stored event once; a request that was answered with      *)
(* success has its event stored in its own project (pipeline.rs:429-487).     *)
EventsCountedOnce ==
  \A g \in Group : issue[g] # None =>
    /\ issue[g].count = Cardinality({e \in Id : event[e] = g}) /\ notice[g].new = 1

(* Whoever reopened a resolved issue, through its own group or as the probe   *)
(* that guards it, the team is told once for each time.                       *)
ReopeningsAnnounced == \A g \in Group : notice[g].regressed = reopened[g]
=============================================================================
