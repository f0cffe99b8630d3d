------------------------------- MODULE Audience -------------------------------
(* A push audience as one expression (audience.rs): what a request is parsed   *)
(* into, what the compiled condition answers for a device, and what the        *)
(* request describes.  The condition is evaluated by a database, in which a    *)
(* comparison with a missing value answers neither true nor false.             *)
EXTENDS Naturals, Sequences, FiniteSets, SequencesExt
CONSTANTS User, Hit,      \* users; those whom the issue happened to
          MaxDepth, MaxNodes,
          MaxSize,        \* bound: conditions of a request
          None

VARIABLE request          \* the expression that an editor builds up
vars == <<request>>

Values == {"one", "two", "word", "list"}   \* two numbers, a text, an array
Number(v) == CASE v = "one" -> 1 [] v = "two" -> 2 [] OTHER -> 0
Readable(v) == v \in {"one", "two"}        \* as a number, and as a version
Scalar(v) == v # "list"
Devices == [user: User \cup {None}, plan: Values \cup {None}]

-----------------------------------------------------------------------------
(* What an editor writes.                                                     *)
Leaf ==
  [op: {"user"}, is: User] \cup [op: {"issue"}]
    \cup [op: {"is", "isNot"}, is: Values] \cup [op: {"in"}, of: {<<>>, <<"one", "list">>}]
    \cup [op: {"exists", "absent"}] \cup [op: {"prefix"}, is: {"word"}]
    \cup [op: {"gte"}, is: {"one", "two"}]
Group(op) == [op: {op}, of: {<<>>}]
Init == request \in Leaf \cup Group("all") \cup Group("any")

RECURSIVE Size(_)
Size(r) ==
  1 + CASE r.op \in {"all", "any", "not"} -> FoldLeft(LAMBDA n, b : n + Size(b), 0, r.of)
        [] r.op = "in" -> Len(r.of)
        [] OTHER -> 0
Negate == request' = [op |-> "not", of |-> <<request>>]
Extend(op, leaf) ==
  request' = IF request.op = op THEN [request EXCEPT !.of = Append(@, leaf)]
             ELSE [op |-> op, of |-> <<leaf, request>>]
Wrap(op) == request' = [op |-> op, of |-> <<request>>]
Next ==
  /\ Size(request) < MaxSize
  /\ \/ Negate
     \/ \E op \in {"all", "any"} : Wrap(op) \/ \E leaf \in Leaf : Extend(op, leaf)
Spec == Init /\ [][Next]_vars

-----------------------------------------------------------------------------
(* parse: the tree with its shorthands written out, or a refusal.  `budget` is*)
(* what is left of the number of conditions, and is threaded through the walk.*)
Refused == [op |-> "refused"]
Is(v) == [op |-> "is", is |-> v]
Not(n) == [op |-> "not", of |-> <<n>>]
Never == [op |-> "never"]
AnyOf(nodes) == IF nodes = <<>> THEN Never ELSE [op |-> "any", of |-> nodes]

RECURSIVE Parse(_, _, _), ParseBranches(_, _, _)
ParseBranches(list, depth, budget) ==
  FoldLeft(LAMBDA got, b :
             IF got.refused THEN got
             ELSE LET p == Parse(b, depth + 1, got.budget) IN
                    [nodes |-> Append(got.nodes, p.node), budget |-> p.budget,
                     refused |-> p.node = Refused],
           [nodes |-> <<>>, budget |-> budget, refused |-> FALSE], list)
ParseLeaf(r) ==
  CASE r.op = "isNot" -> Not(Is(r.is))
    [] r.op = "in" -> AnyOf([i \in DOMAIN r.of |-> Is(r.of[i])])
    [] r.op = "absent" -> Not([op |-> "exists"])
    [] OTHER -> r
Parse(r, depth, budget) ==
  IF depth > MaxDepth \/ budget = 0 THEN [node |-> Refused, budget |-> 0]
  ELSE IF r.op \in {"all", "any", "not"}
  THEN LET b == ParseBranches(r.of, depth, budget - 1) IN
         [budget |-> b.budget,
          node |-> CASE b.refused -> Refused
                     [] r.op = "any" -> AnyOf(b.nodes)
                     [] OTHER -> [op |-> r.op, of |-> b.nodes]]
  ELSE IF r.op = "in" /\ r.of # <<>> /\ (budget - 1 < Len(r.of) \/ depth + 1 > MaxDepth)
  THEN [node |-> Refused, budget |-> 0]
  ELSE [node |-> ParseLeaf(r), budget |-> budget - 1 - IF r.op = "in" THEN Len(r.of) ELSE 0]
Parsed(r) == Parse(r, 0, MaxNodes).node

(* compile, as the database answers it: "null" is neither true nor false.     *)
Truth(b) == IF b THEN "true" ELSE "false"
Both(a, b) ==
  CASE "false" \in {a, b} -> "false" [] "null" \in {a, b} -> "null" [] OTHER -> "true"
Either(a, b) ==
  CASE "true" \in {a, b} -> "true" [] "null" \in {a, b} -> "null" [] OTHER -> "false"
Negation(a) == CASE a = "true" -> "false" [] a = "false" -> "true" [] OTHER -> "null"
Compared(present, b) == IF present THEN Truth(b) ELSE "null"

RECURSIVE Compiled(_, _)
Compiled(n, d) ==
  CASE n.op = "all" -> FoldLeft(LAMBDA t, b : Both(t, Compiled(b, d)), "true", n.of)
    [] n.op = "any" -> FoldLeft(LAMBDA t, b : Either(t, Compiled(b, d)), "false", n.of)
    [] n.op = "not" -> Negation(Compiled(n.of[1], d))
    [] n.op = "never" -> "false"
    [] n.op = "user" -> Compared(d.user # None, d.user = n.is)
    [] n.op = "issue" -> Truth(d.user \in Hit)
    [] n.op = "exists" -> Truth(d.plan # None)
    [] n.op = "is" /\ ~Scalar(n.is) -> Compared(d.plan # None, d.plan = n.is)
    [] n.op = "is" -> Truth(d.plan = n.is)
    [] n.op = "prefix" -> Truth(d.plan = n.is)
    [] n.op = "gte" -> Truth(Readable(d.plan) /\ Number(d.plan) >= Number(n.is))
Selects(r, d) == Compiled(Parsed(r), d) = "true"

-----------------------------------------------------------------------------
(* What a request says of a device.                                           *)
RECURSIVE Describes(_, _)
Describes(r, d) ==
  CASE r.op = "all" -> \A i \in DOMAIN r.of : Describes(r.of[i], d)
    [] r.op = "any" -> \E i \in DOMAIN r.of : Describes(r.of[i], d)
    [] r.op = "not" -> ~Describes(r.of[1], d)
    [] r.op = "user" -> d.user = r.is
    [] r.op = "issue" -> d.user \in Hit
    [] r.op \in {"is", "prefix"} -> d.plan = r.is
    [] r.op = "isNot" -> d.plan # r.is
    [] r.op = "in" -> d.plan \in ToSet(r.of)
    [] r.op = "exists" -> d.plan # None
    [] r.op = "absent" -> d.plan = None
    [] r.op = "gte" -> Readable(d.plan) /\ Number(d.plan) >= Number(r.is)
(* Whether a comparison of the request may answer neither.                    *)
RECURSIVE Mentions(_, _)
Mentions(r, ops) ==
  r.op \in ops \/ (r.op \in {"all", "any", "not"} /\ \E i \in DOMAIN r.of : Mentions(r.of[i], ops))
Known(r, d) ==
  /\ d.user # None \/ ~Mentions(r, {"user"})
  /\ d.plan # None \/ ~Mentions(r, {"is", "isNot", "in"})

TypeOK == Size(request) \in 1..MaxSize + 3 /\ Parsed(request).op \in
            {"refused", "all", "any", "not", "never", "user", "issue", "is", "exists",
             "prefix", "gte"}

(* A push reaches nobody whom its audience does not describe (an empty "any"  *)
(* is "send this to everyone who has ever installed the app" one mistake away,*)
(* audience.rs:640), and everybody whom it describes, except that a device    *)
(* without a user, or without the attribute, may be missed by a condition     *)
(* about one.                                                                 *)
OnlyTheDescribed ==
  Parsed(request) # Refused =>
    \A d \in Devices :
      /\ Selects(request, d) => Describes(request, d)
      /\ Known(request, d) /\ Describes(request, d) => Selects(request, d)

(* An audience that is accepted is within its limits, shorthands written out. *)
RECURSIVE Depth(_)
Depth(n) ==
  IF n.op \in {"all", "any", "not"}
  THEN 1 + FoldLeft(LAMBDA m, b : IF Depth(b) > m THEN Depth(b) ELSE m, 0, n.of) ELSE 0
WithinLimits ==
  Parsed(request) # Refused => Size(request) <= MaxNodes /\ Depth(Parsed(request)) <= MaxDepth + 1
=============================================================================
