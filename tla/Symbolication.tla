---------------------------- MODULE Symbolication ----------------------------
(* The symbol files of one release and the stored frames that they explain:    *)
(* uploads (handlers/artifacts_upload.rs), the operator's check of old ones    *)
(* (verify_artifacts.rs), and the pass over a crash, at ingest with what there *)
(* is and later, in a job or for an operator, strictly (symbolicate.rs,        *)
(* native_symbolicate.rs, source_bundle.rs).                                   *)
EXTENDS Naturals, FiniteSets, Sequences, SequencesExt
CONSTANTS
  Content,     \* what may be uploaded, a file by its hash
  Parse,       \* Content -> what the readers find in it, see Usable
  Base,        \* the names that files are uploaded under
  Old,         \* what an earlier version stored: a sequence of rows
  Event, Raw,  \* Event -> the frame that its SDK sent
  Capacity, MaxMaps, \* parsed maps in memory, maps that a pass tries
  MaxUploads,  \* bound
  None

VARIABLES
  rows,      \* release_artifacts, the newest first
  cache,     \* parsed maps in memory, the last used first
  stored,    \* Event -> its stored frame, or None
  checker,   \* verify-artifacts: the rows that it has yet to see, and its step
  uploads, renewed  \* ghost: rows whose content changed under the checker
vars == <<rows, cache, stored, checker, uploads, renewed>>

Kinds == {"sourcemap", "dsym", "proguard", "srcbundle"}
DebugIds(c) == IF Parse[c].as = "dsym" THEN Parse[c].ids ELSE {}
(* What a kind's own reader says of a file, and what the list counts.         *)
Usable(kind, c) == Parse[c].as = kind /\ (kind = "dsym" => DebugIds(c) # {})
NameCarrying(name, ids) == [name EXCEPT !.ids = @ \cup ids]
Key(r) == <<r.kind, r.name>>
Ids == {rows[i].id : i \in DOMAIN rows}

Idle == [left |-> <<>>, step |-> "idle"]
Init ==
  /\ rows = Old /\ cache = <<>> /\ stored = [e \in Event |-> None]
  /\ checker = Idle
  /\ uploads = 0 /\ renewed = {}

(* store: the newest upload under a name replaces the one before.             *)
Accepted(kind, c) == kind = "srcbundle" => Parse[c].as = kind /\ Parse[c].fits
Upload(kind, base, c) ==
  /\ uploads < MaxUploads /\ uploads' = uploads + 1 /\ Accepted(kind, c)
  /\ LET name == NameCarrying([base |-> base, ids |-> {}], IF kind = "dsym" THEN DebugIds(c) ELSE {})
         same == {r \in Range(rows) : Key(r) = <<kind, name>>}
         id == IF same = {} THEN Len(Old) + uploads + 1 ELSE (CHOOSE r \in same : TRUE).id
     IN /\ rows' = <<[id |-> id, kind |-> kind, name |-> name, content |-> c, usable |-> Usable(kind, c)]>>
                   \o SelectSeq(rows, LAMBDA r : Key(r) # <<kind, name>>)
        /\ renewed' = IF id \in {r.id : r \in Range(checker.left)} THEN renewed \cup {id}
                      ELSE renewed \ {id}
  /\ UNCHANGED <<cache, stored, checker>>
(* A release is deleted, or is no longer among the newest (archive_worker).   *)
Drop ==
  /\ rows # <<>> /\ rows' = <<>>
  /\ UNCHANGED <<cache, stored, checker, uploads, renewed>>

-----------------------------------------------------------------------------
(* Paths are sequences of names.                                              *)
Common(p, q) ==
  LET agree == {n \in 0..Len(p) : n <= Len(q) /\ \A k \in 0..(n - 1) : p[Len(p) - k] = q[Len(q) - k]}
  IN CHOOSE n \in agree : \A m \in agree : m <= n
Least(a, b) == IF a < b THEN a ELSE b
(* SrcBundle::lookup: the only file whose whole path, or all of it, agrees.   *)
Matches(files, p) == {q \in DOMAIN files : Common(q, p) >= Least(Len(q), Len(p)) /\ Common(q, p) > 0}
Best(files, p) == {q \in Matches(files, p) : \A r \in Matches(files, p) : Common(r, p) <= Common(q, p)}
Lookup(files, p) ==
  IF p \in DOMAIN files THEN p
  ELSE IF Cardinality(Best(files, p)) = 1 THEN CHOOSE q \in Best(files, p) : TRUE ELSE None
Window(files, p, line) ==
  LET q == Lookup(files, p)
  IN IF q # None /\ line \in 1..files[q] THEN <<p, line>> ELSE None

(* rewrite_frame, for a frame of JavaScript: None if the map says nothing.    *)
Anew(f) == f.line                     \* a bug: a second pass starts from the first one's result
Coordinates(f) == IF f.done THEN f.before.line ELSE f.line
Read(f) == f.context # None
Rewritten(map, f) ==
  CASE Read(f) \/ f.of # "js" -> None
    [] ~Read(f) /\ f.of = "js" /\ Coordinates(f) \in DOMAIN map.at ->
         LET to == map.at[Coordinates(f)]
         IN [f EXCEPT !.before = [line |-> Coordinates(f), file |-> f.file],
                      !.file = to.file, !.line = to.line, !.done = TRUE,
                      !.context = IF to.embeds THEN <<to.file, to.line>> ELSE @]
    [] ~Read(f) /\ f.of = "js" /\ Coordinates(f) \notin DOMAIN map.at /\ f.done ->
         [f EXCEPT !.line = f.before.line, !.done = FALSE, !.before = None]
    [] OTHER -> None
(* ranked: by the path that a frame and a map share, then the newest.         *)
Wanted(f) == IF f.before # None THEN f.before.file ELSE f.file
Ranked(maps, f) ==
  SetToSortSeq(DOMAIN maps, LAMBDA i, j :
    LET a == Common(maps[i].path, Wanted(f))
        b == Common(maps[j].path, Wanted(f))
    IN a > b \/ (a = b /\ i < j))
ByMaps(maps, f) ==
  LET order == Ranked(maps, f)
      hits == {k \in DOMAIN order : Rewritten(Parse[maps[order[k]].content], f) # None}
  IN IF hits = {} THEN f
     ELSE Rewritten(Parse[maps[order[CHOOSE k \in hits : \A l \in hits : k <= l]].content], f)

(* maps_for_release: through the cache of parses, which hashes name.          *)
Used(c, s) ==
  LET t == <<c>> \o SelectSeq(s, LAMBDA x : x # c) IN SubSeq(t, 1, Least(Capacity, Len(t)))
Found(got, r) ==
  [got EXCEPT !.cache = Used(r.content, @),
              !.maps = Append(@, [path |-> r.name.base, content |-> r.content])]
Load(got, r, bad, strict) ==
  CASE got.failed -> got
    [] ~got.failed /\ r.content \in Range(got.cache) -> Found(got, r)
    [] ~got.failed /\ r.content \notin Range(got.cache) ->
         IF r.content \in bad THEN [got EXCEPT !.failed = strict]
         ELSE IF Parse[r.content].as = "sourcemap" THEN Found(got, r) ELSE got
Newest(kind) == SelectSeq(rows, LAMBDA r : r.kind = kind)
Maps(bad, strict) ==
  LET all == Newest("sourcemap")
  IN FoldLeft(LAMBDA got, r : Load(got, r, bad, strict),
              [maps |-> <<>>, cache |-> cache, failed |-> FALSE],
              SubSeq(all, 1, Least(MaxMaps, Len(all))))

(* artifact_bytes: the newest file of a kind, for a dSYM of the frame's image;*)
(* what its reader cannot parse is as good as none.                           *)
Names(r, f) == r.kind = "dsym" => f.image \in r.name.ids
Wants(f) == {"srcbundle"} \cup (CASE f.of = "android" -> {"proguard"} [] f.of = "ios" -> {"dsym"} [] OTHER -> {})
Files(kind, f) == SelectSeq(Newest(kind), LAMBDA r : Names(r, f))
Fetched(f) == {Files(k, f)[1].content : k \in {x \in Wants(f) : Files(x, f) # <<>>}}
Parsed(kind, f, bad) ==
  IF Files(kind, f) = <<>> THEN None
  ELSE LET c == Files(kind, f)[1].content
       IN IF c \in bad \/ Parse[c].as # kind THEN None ELSE c
ByNative(f, bad) ==
  LET kind == IF f.of = "android" THEN "proguard" ELSE "dsym"
      c == IF f.of = "js" THEN None ELSE Parsed(kind, f, bad)
  IN IF c # None /\ ~f.done /\ f.symbol \in DOMAIN Parse[c].at
     THEN [f EXCEPT !.file = Parse[c].at[f.symbol].file, !.line = Parse[c].at[f.symbol].line,
                    !.done = TRUE]
     ELSE f
FillContext(f, bad) ==
  LET c == Parsed("srcbundle", f, bad)
  IN IF c = None \/ Read(f) \/ f.file = None THEN f
     ELSE [f EXCEPT !.context = Window(Parse[c].files, f.file, f.line)]

(* Both passes over a frame; a strict one gives up on what it cannot read.    *)
Passed(f, bad, strict) ==
  LET got == Maps(bad, strict)
  IN [frame |-> IF got.failed \/ (strict /\ Fetched(f) \cap bad # {}) THEN f
                ELSE FillContext(ByNative(ByMaps(got.maps, f), bad), bad),
      cache |-> got.cache]
Unread == {{}} \cup {{c} : c \in Content}
Ingest(e) ==
  /\ stored[e] = None
  /\ \E bad \in Unread : LET p == Passed(Raw[e], bad, FALSE)
                         IN stored' = [stored EXCEPT ![e] = p.frame] /\ cache' = p.cache
  /\ UNCHANGED <<rows, checker, uploads, renewed>>
(* one_release, of whose events one is enough for a job.                      *)
Again(events) ==
  \E bad \in Unread :
    /\ stored' = [e \in Event |-> IF e \in events /\ stored[e] # None
                                  THEN Passed(stored[e], bad, TRUE).frame ELSE stored[e]]
    /\ cache' = Maps(bad, TRUE).cache
Resymbolicate(e) ==
  /\ stored[e] # None /\ Again({e}) /\ <<stored', cache'>> # <<stored, cache>>
  /\ UNCHANGED <<rows, checker, uploads, renewed>>
Restart ==
  /\ cache # <<>> /\ cache' = <<>>
  /\ UNCHANGED <<rows, stored, checker, uploads, renewed>>

-----------------------------------------------------------------------------
(* verify-artifacts: one list, then row by row its file, its flag, its name   *)
(* and the crashes that waited for it.                                        *)
Check(all) ==
  /\ checker.step = "idle"
  /\ LET seen == SelectSeq(rows, LAMBDA r : all \/ r.usable = None)
     IN seen # <<>> /\ checker' = [left |-> seen, step |-> "flag"]
  /\ UNCHANGED <<rows, cache, stored, uploads, renewed>>
Row == Head(checker.left)
Rest == IF Len(checker.left) = 1 THEN Idle ELSE [left |-> Tail(checker.left), step |-> "flag"]
Full(r) == NameCarrying(r.name, DebugIds(r.content))
Flagged(r, u) == [i \in DOMAIN r |-> IF r[i].id = Row.id THEN [r[i] EXCEPT !.usable = u] ELSE r[i]]
FlagRow ==
  /\ checker.step = "flag"
  /\ \/ /\ rows' = Flagged(rows, Usable(Row.kind, Row.content))
        /\ checker' = IF Row.kind = "dsym" /\ Usable("dsym", Row.content) /\ Full(Row) # Row.name
                      THEN [checker EXCEPT !.step = "rename"] ELSE Rest
     \/ rows' = rows /\ checker' = Rest         \* its file cannot be read
  /\ UNCHANGED <<cache, stored, uploads, renewed>>
Taken == <<Row.kind, Full(Row)>> \in {Key(r) : r \in Range(rows)}
RenameRow ==
  /\ checker.step = "rename"
  /\ IF Row.id \in Ids /\ ~Taken
     THEN /\ rows' = [i \in DOMAIN rows |-> IF rows[i].id = Row.id THEN [rows[i] EXCEPT !.name = Full(Row)]
                                            ELSE rows[i]]
          /\ checker' = [checker EXCEPT !.step = "reread"]
     ELSE rows' = rows /\ checker' = Rest
  /\ UNCHANGED <<cache, stored, uploads, renewed>>
Reread ==
  /\ checker.step = "reread" /\ checker' = Rest
  /\ IF \E e \in Event : stored[e] # None THEN Again(Event) ELSE UNCHANGED <<stored, cache>>
  /\ UNCHANGED <<rows, uploads, renewed>>

Next ==
  \/ \E k \in Kinds, b \in Base, c \in Content : Upload(k, b, c)
  \/ Drop \/ Restart \/ FlagRow \/ RenameRow \/ Reread
  \/ \E e \in Event : Ingest(e) \/ Resymbolicate(e)
  \/ \E all \in BOOLEAN : Check(all)
Spec == Init /\ [][Next]_vars

-----------------------------------------------------------------------------
(* Which rows and frames there are.                                           *)
TypeOK ==
  /\ \A i, j \in DOMAIN rows : i # j => Key(rows[i]) # Key(rows[j]) /\ rows[i].id # rows[j].id
  /\ \A i \in DOMAIN rows : rows[i].kind \in Kinds /\ rows[i].usable \in BOOLEAN \cup {None}
  /\ Len(cache) <= Capacity /\ checker.step \in {"idle", "flag", "rename", "reread"}
  /\ \A e \in Event : stored[e] # None => stored[e].done \in BOOLEAN
  /\ uploads \in 0..MaxUploads

(* "Original coordinates are kept alongside the rewritten ones"               *)
(* (symbolicate.rs:24): however often a crash is read again, with whatever    *)
(* maps, its raw position is still there, and what it shows is what one map   *)
(* says of that position.                                                     *)
OriginalsAreKept ==
  \A e \in Event : stored[e] # None /\ stored[e].of = "js" =>
    LET f == stored[e]
    IN IF f.done
       THEN /\ f.before.line = Raw[e].line
            /\ \E c \in Content :
                 /\ Parse[c].as = "sourcemap" /\ Raw[e].line \in DOMAIN Parse[c].at
                 /\ <<f.file, f.line>> = <<Parse[c].at[Raw[e].line].file, Parse[c].at[Raw[e].line].line>>
       ELSE f.line = Raw[e].line
(* The source that is shown is that of the line which the frame names, except *)
(* in an Android frame that a mapping renamed after its source was found.     *)
ContextIsOfTheFrame ==
  \A e \in Event : stored[e] # None /\ Read(stored[e]) =>
    LET f == stored[e]
    IN \/ f.context = <<f.file, f.line>>
       \/ f.of = "android" /\ f.done /\ f.context = <<Raw[e].file, Raw[e].line>>
(* An artifact shows as readable only if it is (artifacts_upload.rs:218), but *)
(* for a check that was slower than a new upload of it; and a dSYM that is    *)
(* readable is found by its debug ids, once its row was checked.              *)
ReadableIsFound ==
  \A i \in DOMAIN rows :
    LET r == rows[i]
    IN r.usable # None /\ r.id \notin renewed =>
         /\ r.usable = Usable(r.kind, r.content)
         /\ (r.kind = "dsym" /\ r.usable) =>
              \/ \E x \in Range(rows) : x.kind = r.kind /\ x.name.base = r.name.base
                                     /\ DebugIds(r.content) \subseteq x.name.ids
              \/ checker.left # <<>> /\ Row.id = r.id
(* Reading a crash again shows nothing new (resymbolicate.rs:48), if the       *)
(* release has one map: of two, of which one does not cover the frame or the   *)
(* second pass prefers another, the passes may take turns.                     *)
Shown(f) == <<f.file, f.line, f.done, f.context>>
SecondPassIsIdle ==
  \A e \in Event : stored[e] # None /\ Len(Newest("sourcemap")) <= 1 =>
    LET once == Passed(stored[e], {}, TRUE).frame
    IN Shown(Passed(once, {}, TRUE).frame) = Shown(once)
=============================================================================
