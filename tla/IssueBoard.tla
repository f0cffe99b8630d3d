------------------------------ MODULE IssueBoard ------------------------------
(* The issue surface: people and agents decide about issues while occurrences  *)
(* come in, readers page through the list and open an issue.                   *)
(*                                                                             *)
(* A person's decision and its activity row are one statement, the agent's are *)
(* two; access is checked by a statement of its own before either.  Occurrences*)
(* of an issue wait for its row (IssueIngest), so one is a step here; decisions*)
(* that tasks make are in TaskAutomation.  Of an issue's columns the model     *)
(* keeps those that the filters, the orders and the decisions use.             *)
EXTENDS Naturals, Sequences, FiniteSets, SequencesExt

CONSTANTS Issue, Person, Project, Release,
          ProjectOf,   \* function: project of an issue
          Rank,        \* function: the order of issue ids
          Registered,  \* function: when a release was registered, 0 if it was not
          Root,        \* superadmins
          Request,     \* requests that may run at once
          Agent,       \* those of them that hold an api token, of any project
          Decision,    \* what is asked for: [op |-> "resolved", in, note: with a
                       \* note?], [op: "ignored", "open" or "note"],
                       \* [op |-> "assign", who]
          Query,       \* lists asked for: [filter, sort, limit]
          MaxPage,     \* rows that a page may have (500; 200 for agents)
          Shown,       \* activity rows that an issue's page shows (100)
          MaxRows, MaxTime, None

VARIABLES issue,     \* issues: [status, in, at, regressed, assignee, seen]
          log,       \* issue_activity of each issue, oldest first
          assigned,  \* project_assignments
          request,   \* what each request does, or None
          clock,
          byApi      \* history: issues that an agent has resolved

vars == <<issue, log, assigned, request, clock, byApi>>

Init ==
  /\ issue = [i \in Issue |-> [status |-> "open", in |-> None, at |-> 0,
                               regressed |-> None, assignee |-> None, seen |-> 0]]
  /\ log = [i \in Issue |-> <<>>] /\ assigned = Person \X Project
  /\ request = [q \in Request |-> None] /\ clock = 1 /\ byApi = {}

Sees(u, p) == u \in Root \/ <<u, p>> \in assigned
Row(kind, what) == [kind |-> kind, what |-> what, at |-> clock]
Record(i, row) == log' = [log EXCEPT ![i] = Append(@, row)]
Room(i) == Len(log[i]) < MaxRows
Done(q) == request' = [request EXCEPT ![q] = None]
At(q, step) == request[q] # None /\ request[q].step = step

-----------------------------------------------------------------------------
(* load_issue and load_scoped: who may decide is settled before the statement.*)
Ask(q, u, i, d) ==
  /\ request[q] = None /\ q \notin Agent /\ Sees(u, ProjectOf[i])
  /\ request' = [request EXCEPT ![q] = [step |-> "decide", issue |-> i, d |-> d]]
  /\ UNCHANGED <<issue, log, assigned, clock, byApi>>
AskApi(q, i, d) ==
  /\ request[q] = None /\ q \in Agent /\ d.op \in {"resolved", "note"}
  /\ request' = [request EXCEPT ![q] = [step |-> "decide", issue |-> i, d |-> d]]
  /\ UNCHANGED <<issue, log, assigned, clock, byApi>>

Resolved(was, in) ==
  [was EXCEPT !.status = "resolved", !.in = in, !.at = clock, !.regressed = None]

Current(q) == issue[request[q].issue]
\* Mutant: every resolve is a new decision.
Always(was, d) == TRUE
Differs(was, d) == was.status # "resolved" \/ was.in # d.in

(* resolve: an identical decision changes nothing, a note is a new row.       *)
Resolve(q) ==
  /\ At(q, "decide") /\ q \notin Agent /\ request[q].d.op = "resolved"
  /\ LET i == request[q].issue
         d == request[q].d
         changes == Differs(Current(q), d)
     IN /\ Room(i) /\ issue' = IF changes THEN [issue EXCEPT ![i] = Resolved(@, d.in)] ELSE issue
        /\ IF changes \/ d.note THEN Record(i, Row("resolved", d.in)) ELSE UNCHANGED log
  /\ Done(q) /\ UNCHANGED <<assigned, clock, byApi>>

(* set_status: what was resolved in a release is kept when it is reopened.    *)
SetStatus(q) ==
  /\ At(q, "decide") /\ request[q].d.op \in {"ignored", "open"}
  /\ LET i == request[q].issue
         to == request[q].d.op
         changes == Current(q).status # to
     IN /\ Room(i)
        /\ IF changes
           THEN issue' = [issue EXCEPT ![i].status = to] /\ Record(i, Row(to, None))
           ELSE UNCHANGED <<issue, log>>
  /\ Done(q) /\ UNCHANGED <<assigned, clock, byApi>>

(* assign: the assignee may see the project when the statement runs.          *)
Eligible(w, i) == w = None \/ Sees(w, ProjectOf[i])
Assign(q) ==
  /\ At(q, "decide") /\ request[q].d.op = "assign"
  /\ LET i == request[q].issue
         w == request[q].d.who
     IN /\ Room(i)
        /\ IF Eligible(w, i) /\ Current(q).assignee # w
           THEN issue' = [issue EXCEPT ![i].assignee = w] /\ Record(i, Row("assign", w))
           ELSE UNCHANGED <<issue, log>>
  /\ Done(q) /\ UNCHANGED <<assigned, clock, byApi>>

AddNote(q) ==
  /\ At(q, "decide") /\ request[q].d.op = "note"
  /\ Room(request[q].issue) /\ Record(request[q].issue, Row("note", None))
  /\ Done(q) /\ UNCHANGED <<issue, assigned, clock, byApi>>

(* An agent's resolve: always a change, and its row is written afterwards; if *)
(* that fails, or the server stops in between, nothing says so.               *)
ApiResolve(q) ==
  /\ At(q, "decide") /\ q \in Agent /\ request[q].d.op = "resolved"
  /\ LET i == request[q].issue IN
       /\ issue' = [issue EXCEPT ![i] = Resolved(@, request[q].d.in)]
       /\ byApi' = byApi \cup {i}
  /\ request' = [request EXCEPT ![q].step = "record"]
  /\ UNCHANGED <<log, assigned, clock>>
RecordActivity(q) ==
  /\ At(q, "record") /\ Room(request[q].issue)
  /\ Record(request[q].issue, Row("resolved", request[q].d.in)) \/ UNCHANGED log
  /\ Done(q) /\ UNCHANGED <<issue, assigned, clock, byApi>>

-----------------------------------------------------------------------------
(* is_regression: the order of two registered releases, else the clocks.      *)
IsRegression(was, in, at) ==
  IF was.in # None /\ in # None /\ Registered[was.in] > 0 /\ Registered[in] > 0
  THEN Registered[in] >= Registered[was.in]
  ELSE at > was.at
Later(a, b) == IF a > b THEN a ELSE b
Regressed(was, in, seen) ==
  [was EXCEPT !.status = "open", !.regressed = in, !.seen = seen]

(* An occurrence of release in (None: it names none) at a device's clock.     *)
Occur(i, in, at) ==
  /\ Room(i)
  /\ IF issue[i].status = "resolved" /\ IsRegression(issue[i], in, at)
     THEN /\ issue' = [issue EXCEPT ![i] = Regressed(@, IF in = None THEN "" ELSE in, at)]
          /\ Record(i, Row("open", in))
     ELSE issue' = [issue EXCEPT ![i].seen = Later(@, at)] /\ UNCHANGED log
  /\ UNCHANGED <<assigned, request, clock, byApi>>
(* A probe that guards the issue fires, whatever its release.                 *)
ProbeFires(i, in) ==
  /\ Room(i) /\ issue[i].status = "resolved"
  /\ issue' = [issue EXCEPT ![i] = Regressed(@, in, clock)] /\ Record(i, Row("open", in))
  /\ UNCHANGED <<assigned, request, clock, byApi>>
Tick == clock < MaxTime /\ clock' = clock + 1 /\ UNCHANGED <<issue, log, assigned, request, byApi>>
(* An administrator assigns people to projects and takes them off.            *)
Move(u, p) ==
  /\ assigned' = IF <<u, p>> \in assigned THEN assigned \ {<<u, p>>} ELSE assigned \cup {<<u, p>>}
  /\ UNCHANGED <<issue, log, request, clock, byApi>>

-----------------------------------------------------------------------------
(* The list: the projects that the caller sees, then one statement that       *)
(* filters, counts, sorts and cuts out the page.                              *)
Passes(was, filter) ==
  \/ filter = "all" \/ filter = was.status
  \/ filter = "regressed" /\ was.status = "open" /\ was.regressed # None
Above(i, j, sort) ==
  LET a == issue[i]
      b == issue[j]
      hot(x) == x.regressed # None /\ x.status = "open"
  IN CASE sort = "impact" /\ hot(a) # hot(b)         -> hot(a)
       [] sort = "oldest" /\ a.seen # b.seen         -> a.seen < b.seen
       [] a.seen # b.seen                            -> a.seen > b.seen
       [] OTHER                                      -> Rank[i] > Rank[j]
Ordered(S, sort) == SetToSortSeq(S, LAMBDA i, j : Above(i, j, sort))
Filtered(scope, k) == {i \in Issue : ProjectOf[i] \in scope /\ Passes(issue[i], k.filter)}

Cut(s, from, limit) ==
  SubSeq(s, from + 1, IF from + limit < Len(s) THEN from + limit ELSE Len(s))
Page(scope, k, from) == Cut(Ordered(Filtered(scope, k), k.sort), from, k.limit)

(* A limit is capped; 0 is a page of no rows to a person, of one to an agent. *)
Limit(n, least) == IF n > MaxPage THEN MaxPage ELSE IF n < least THEN least ELSE n
Scope(u) == {p \in Project : Sees(u, p)}

(* The client keeps asking from nextOffset; same: history, that the list has  *)
(* been the first page's throughout.                                          *)
Listing(q, u, scope, k, least) ==
  /\ request[q] = None
  /\ request' = [request EXCEPT ![q] =
       [step |-> "list", who |-> u, scope |-> scope,
        k |-> [k EXCEPT !.limit = Limit(@, least)],
        from |-> 0, first |-> None, pages |-> <<>>, same |-> TRUE]]
  /\ UNCHANGED <<issue, log, assigned, clock, byApi>>
OpenList(q, u, k) == q \notin Agent /\ Listing(q, u, Scope(u), k, 0)
(* An agent's token is of one project, and its lists are sorted by impact.    *)
OpenApiList(q, p, k) ==
  q \in Agent /\ k.sort = "impact" /\ k.filter # "regressed" /\ Listing(q, None, {p}, k, 1)
NextPage(q) ==
  /\ At(q, "list")
  /\ LET r == request[q]
         all == Ordered(Filtered(r.scope, r.k), r.k.sort)
         page == Page(r.scope, r.k, r.from)
         next == r.from + Len(page)
         more == r.k.limit > 0 /\ next < Len(all)
     IN request' = [request EXCEPT ![q] =
          [r EXCEPT !.step = IF more THEN "turn" ELSE "listed", !.from = next,
                    !.pages = @ \o page, !.first = IF @ = None THEN all ELSE @,
                    !.same = @ /\ r.first \in {None, all}]]
  /\ UNCHANGED <<issue, log, assigned, clock, byApi>>
(* Every page is a request of its own, and reads a person's scope again.      *)
Turn(q) ==
  /\ At(q, "turn")
  /\ request' = [request EXCEPT ![q].step = "list",
                   ![q].scope = IF q \in Agent THEN @ ELSE Scope(request[q].who)]
  /\ UNCHANGED <<issue, log, assigned, clock, byApi>>

(* get: the issue's row, and then the newest rows of its activity.            *)
Open(q, u, i) ==
  /\ request[q] = None /\ q \notin Agent /\ Sees(u, ProjectOf[i])
  /\ request' = [request EXCEPT ![q] = [step |-> "opening", issue |-> i, found |-> issue[i].status]]
  /\ UNCHANGED <<issue, log, assigned, clock, byApi>>
Newest(s) == IF Len(s) <= Shown THEN s ELSE SubSeq(s, Len(s) - Shown + 1, Len(s))
ReadActivity(q) ==
  /\ At(q, "opening")
  /\ request' = [request EXCEPT ![q] = [step |-> "opened", issue |-> request[q].issue,
       found |-> request[q].found, rows |-> Newest(log[request[q].issue])]]
  /\ UNCHANGED <<issue, log, assigned, clock, byApi>>
Close(q) ==
  /\ request[q] # None /\ request[q].step \in {"listed", "opened"} /\ Done(q)
  /\ UNCHANGED <<issue, log, assigned, clock, byApi>>

Next ==
  \/ \E q \in Request :
       \/ \E u \in Person, i \in Issue, d \in Decision : Ask(q, u, i, d)
       \/ \E i \in Issue, d \in Decision : AskApi(q, i, d)
       \/ Resolve(q) \/ SetStatus(q) \/ Assign(q) \/ AddNote(q)
       \/ ApiResolve(q) \/ RecordActivity(q)
       \/ \E u \in Person, k \in Query : OpenList(q, u, k)
       \/ \E p \in Project, k \in Query : OpenApiList(q, p, k)
       \/ NextPage(q) \/ Turn(q) \/ ReadActivity(q) \/ Close(q)
       \/ \E u \in Person, i \in Issue : Open(q, u, i)
  \/ \E i \in Issue, in \in Release :
       ProbeFires(i, in) \/ \E at \in 1 .. clock : Occur(i, in, at)
  \/ \E i \in Issue, at \in 1 .. clock : Occur(i, None, at)
  \/ \E u \in Person, p \in Project : Move(u, p)
  \/ Tick
Spec == Init /\ [][Next]_vars

-----------------------------------------------------------------------------
TypeOK ==
  /\ \A i \in Issue : issue[i].status \in {"open", "resolved", "ignored"} /\ Len(log[i]) <= MaxRows
  /\ assigned \subseteq Person \X Project /\ byApi \subseteq Issue /\ clock \in 1 .. MaxTime

StatusRows(s) == SelectSeq(s, LAMBDA row : row.kind \in {"open", "resolved", "ignored"})
LastKind(s) == IF StatusRows(s) = <<>> THEN "open" ELSE Last(StatusRows(s)).kind

(* "One statement commits the decision and its evidence together"             *)
(* (issues.rs:530): the activity of an issue that no agent resolved says what *)
(* the issue is and whom it is assigned to, whoever decided meanwhile.        *)
ActivityTells ==
  \A i \in Issue \ byApi :
    LET given == SelectSeq(log[i], LAMBDA row : row.kind = "assign") IN
      /\ issue[i].status = LastKind(log[i])
      /\ issue[i].assignee = IF given = <<>> THEN None ELSE Last(given).what

(* "Retrying an identical decision is a no-op" (issues.rs:530): an issue is   *)
(* resolved since the first of the identical decisions, so that what happened *)
(* after that one still counts as a regression; a regression is over.         *)
RetriesMoveNothing ==
  \A i \in Issue \ byApi : issue[i].status = "resolved" =>
    /\ issue[i].regressed = None
    /\ LET rows == StatusRows(log[i])
           same(n) == \A m \in n .. Len(rows) :
                        rows[m].kind = "resolved" /\ rows[m].what = issue[i].in
       IN \E n \in 1 .. Len(rows) :
            /\ same(n) /\ (n > 1 => ~same(n - 1)) /\ rows[n].at = issue[i].at

(* "Sort the full filtered set before pagination" (issues.rs:280): whoever    *)
(* turns the pages of a list that stays as it was sees it whole, in its order,*)
(* each issue once, person or agent, whatever limit was asked for.            *)
PagesAreTheList ==
  \A q \in Request : At(q, "listed") =>
    LET r == request[q] IN
      r.same => r.pages = IF r.k.limit = 0 THEN <<>> ELSE r.first

(* An opened issue shows why it is what it shows: the row of the decision, or *)
(* so many newer ones that it is cut off.                                     *)
DetailIsExplained ==
  \A q \in Request : At(q, "opened") =>
    LET r == request[q] IN
      r.issue \in byApi \/ r.found = "open" \/ Len(r.rows) = Shown
        \/ \E n \in 1 .. Len(r.rows) : r.rows[n].kind = r.found
=============================================================================
