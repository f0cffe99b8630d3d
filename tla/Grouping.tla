------------------------------- MODULE Grouping -------------------------------
(* Which issue an event belongs to: the key that the pipeline hashes           *)
(* (pipeline.rs: group_identity, compute_fingerprint), and the one of the      *)
(* issue-fingerprint crate with its normalisation of messages.  What is hashed *)
(* is kept here; the hash is taken to tell apart whatever differs.             *)
EXTENDS Naturals, Sequences, SequencesExt
CONSTANTS
  Shape,   \* of a UUID: 8-4-4-4-12 hexadecimal digits "h" and dashes "-"
  MinRun,  \* MIN_DIGIT_RUN: 4
  MaxLen,  \* bound: the length of a message
  None

VARIABLE subject   \* a message that is written, or an event, or an input of the crate
vars == subject

Digit == {"1", "2"}
Hex == Digit \cup {"f"}
Char == Hex \cup {"-", "x"}
Or(field, default) == IF field = None THEN default ELSE field
Given(field) == IF field = None THEN <<>> ELSE <<field>>

Frame == [inApp : BOOLEAN, file : {"a", None}, function : {"f", "g", None}]
Deepest == [inApp |-> TRUE, file |-> None, function |-> "f"]
Stack == {<<>>} \cup {<<f>> : f \in Frame} \cup {<<f, Deepest>> : f \in Frame}
Message == {<<>>, <<"x", "1">>, <<"x", "2", "1">>}
Where == [environment : {"a", "f"}, platform : {"a", "f"}]
Event == [of : {"event"}, where : Where, is :
  [kind : {"error"}, type : {"a", None}, message : Message, stack : Stack]
  \cup [kind : {"warn"}, name : {"a", "f"}, screen : {"a", None}, element : {"a", None}]
  \cup [kind : {"trace", "assert", "probe"}, name : {"a", "f"}]]
Input == [of : {"input"}, is :
  [shape : {"message"}, release : {"a", "f"}, body : Message]
  \cup [shape : {"exception"}, release : {"a", "f"}, type : {"a", "f"}, message : Message,
        frame : {None} \cup [function : {"f", None}, file : {"a", "f"}]]
  \cup [shape : {"degenerate"}, release : {"a", "f"}, tag : {"a", "f"}, seed : {"a", "f"}]]

Init == subject \in {[of |-> "text", is |-> <<>>]} \cup Event \cup Input
Write(c) ==
  /\ subject.of = "text" /\ Len(subject.is) < MaxLen
  /\ subject' = [subject EXCEPT !.is = Append(@, c)]
Next == \E c \in Char : Write(c)
Spec == Init /\ [][Next]_vars

-----------------------------------------------------------------------------
(* collapse_numbers: every run of digits is one #.                            *)
CollapseNumbers(m) ==
  FoldLeft(LAMBDA acc, c :
    IF c \notin Digit THEN [out |-> Append(acc.out, c), digits |-> FALSE]
    ELSE [out |-> IF acc.digits THEN acc.out ELSE Append(acc.out, "#"), digits |-> TRUE],
    [out |-> <<>>, digits |-> FALSE], m).out

(* group_identity: the frames of the application; without any, the functions  *)
(* of all; without these, the message.                                        *)
Places(stack) == FlattenSeq([i \in DOMAIN stack |->
  IF stack[i].inApp THEN <<Or(stack[i].file, "?"), ":", Or(stack[i].function, "?"), "\n">> ELSE <<>>])
Functions(stack) == FlattenSeq([i \in DOMAIN stack |->
  IF stack[i].function # None THEN <<stack[i].function, "\n">> ELSE <<>>])
Signature(stack) == IF Places(stack) # <<>> THEN Places(stack) ELSE Functions(stack)
Sep == "\\x1f"
GroupIdentity(e) ==
  CASE e.kind = "error" ->
         <<"error", Sep, Or(e.type, "Error"), Sep>>
           \o (IF Signature(e.stack) # <<>> THEN Signature(e.stack) ELSE CollapseNumbers(e.message))
    [] e.kind = "warn" ->
         <<"warn", Sep, e.name, Sep>> \o Given(e.screen) \o <<Sep>> \o Given(e.element)
    [] OTHER -> <<e.kind, Sep, e.name>>
ComputeFingerprint(e) ==
  <<e.where.environment, Sep, e.where.platform, Sep>> \o GroupIdentity(e.is)

-----------------------------------------------------------------------------
(* normalize.rs: uuid_at, and the walk that tries it before a run of digits.  *)
UuidAt(m, i) ==
  /\ i + Len(Shape) - 1 <= Len(m)
  /\ \A j \in DOMAIN Shape :
       IF Shape[j] = "-" THEN m[i + j - 1] = "-" ELSE m[i + j - 1] \in Hex
RunEnd(m, i) ==
  CHOOSE j \in i .. Len(m) + 1 :
    /\ \A k \in i .. j - 1 : m[k] \in Digit
    /\ j <= Len(m) => m[j] \notin Digit
Normalised(m) ==
  LET walk[i \in 1 .. Len(m) + 1] ==
        IF i > Len(m) THEN <<>>
        ELSE IF UuidAt(m, i) THEN <<"<UUID>">> \o walk[i + Len(Shape)]
        ELSE IF m[i] \in Digit
          THEN LET j == RunEnd(m, i) IN
               (IF j - i >= MinRun THEN <<"<N>">> ELSE SubSeq(m, i, j - 1)) \o walk[j]
        ELSE <<m[i]>> \o walk[i + 1]
  IN walk[1]
NeedsNormalisation(m) ==
  LET walk[i \in 1 .. Len(m) + 1] ==
        i <= Len(m) /\
          \/ m[i] \in Hex /\ UuidAt(m, i)
          \/ IF m[i] \in Digit THEN RunEnd(m, i) - i >= MinRun \/ walk[RunEnd(m, i)]
             ELSE walk[i + 1]
  IN walk[1]
NormalMessage(m) == IF NeedsNormalisation(m) THEN Normalised(m) ELSE m

(* Fingerprint::compute.                                                      *)
Compute(in) ==
  CASE in.shape = "message" -> <<"message", "|", in.release, "|">> \o NormalMessage(in.body)
    [] in.shape = "exception" ->
         <<"exception", "|", in.release, "|", in.type, "|">> \o NormalMessage(in.message) \o <<"|">>
           \o (IF in.frame = None THEN <<>>
               ELSE Given(in.frame.function) \o <<"|", in.frame.file>>)
    [] OTHER -> <<"degenerate", "|", in.release, "|", in.tag, "|", in.seed>>

-----------------------------------------------------------------------------
TypeOK ==
  CASE subject.of = "text" -> subject.is \in Seq(Char) /\ Len(subject.is) <= MaxLen
    [] subject.of = "event" -> subject \in Event
    [] OTHER -> subject \in Input
Text == IF subject.of = "text" THEN subject.is ELSE <<>>

(* Messages that differ in their numbers share a group, and no others do: a # *)
(* stands where a run begins, everything else stands as it is.                *)
Begins(m) == SelectSeq([i \in DOMAIN m |-> i],
  LAMBDA i : m[i] \notin Digit \/ i = 1 \/ m[i - 1] \notin Digit)
NumbersCollapse ==
  CollapseNumbers(Text) = [n \in DOMAIN Begins(Text) |->
    LET c == Text[Begins(Text)[n]] IN IF c \in Digit THEN "#" ELSE c]

(* A message is left alone exactly if there is nothing in it to replace, and  *)
(* nothing is left to replace afterwards (normalize.rs:38).                   *)
NormalIsFinal ==
  /\ NormalMessage(Text) = Normalised(Text)
  /\ NeedsNormalisation(Text) <=> Normalised(Text) # Text
  /\ Normalised(Normalised(Text)) = Normalised(Text)

(* "a UUID is recognised as a whole" (normalize.rs:65): whatever its digits,  *)
(* one that follows neither a digit nor another one is <UUID>.                *)
Apart(i) == /\ i = 1 \/ Text[i - 1] \notin Digit
            /\ \A j \in 1 .. i - 1 : ~UuidAt(Text, j)
UuidsVanish == \A i \in DOMAIN Text :
  UuidAt(Text, i) /\ Apart(i) =>
    Normalised(Text) = Normalised(SubSeq(Text, 1, i - 1)) \o <<"<UUID>">>
                         \o Normalised(SubSeq(Text, i + Len(Shape), Len(Text)))

(* Two events share an issue exactly if they are the same case: the same      *)
(* place on the same platform and in the same environment (pipeline.rs:200),  *)
(* for names that have no separator in them.                                  *)
Named(stack) == SelectSeq(stack, LAMBDA f : f.function # None)
Own(stack) == SelectSeq(stack, LAMBDA f : f.inApp)
Case(e) ==
  CASE e.kind = "warn" -> [e EXCEPT !.screen = Or(@, ""), !.element = Or(@, "")]
    [] e.kind = "error" ->
         [type |-> Or(e.type, "Error"), own |-> Own(e.stack) # <<>>,
          places |-> [i \in DOMAIN Own(e.stack) |->
            <<Or(Own(e.stack)[i].file, "?"), Or(Own(e.stack)[i].function, "?")>>],
          functions |-> IF Own(e.stack) # <<>> THEN <<>>
                        ELSE [i \in DOMAIN Named(e.stack) |-> Named(e.stack)[i].function],
          message |-> IF Own(e.stack) = <<>> /\ Named(e.stack) = <<>>
                        THEN CollapseNumbers(e.message) ELSE <<>>]
    [] OTHER -> e
SameCase(e, f) ==
  /\ e.where.environment = f.where.environment /\ e.where.platform = f.where.platform
  /\ e.is.kind = f.is.kind /\ Case(e.is) = Case(f.is)
CasesAreKeptApart == subject.of = "event" =>
  \A f \in Event : ComputeFingerprint(subject) = ComputeFingerprint(f) <=> SameCase(subject, f)

(* The same of the crate's key: its three shapes never meet, and of one shape *)
(* only what differs in nothing but identifiers (fingerprint.rs:37).          *)
Normal(in) ==
  CASE in.shape = "message" -> [in EXCEPT !.body = NormalMessage(@)]
    [] in.shape = "exception" -> [in EXCEPT !.message = NormalMessage(@)]
    [] OTHER -> in
InputsAreKeptApart == subject.of = "input" =>
  \A other \in Input : Compute(subject.is) = Compute(other.is) <=> Normal(subject.is) = Normal(other.is)
=============================================================================
