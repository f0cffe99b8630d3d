------------------------------- MODULE Archive -------------------------------
(* The recovery archive and the project package (snapshot/src): a capture of   *)
(* one database snapshot and of the blobs that it names, sealed into frames    *)
(* that name their archive and their place, verification, and the two readers, *)
(* restore and import, which copy a file that may change under them, verify    *)
(* the copy and write what it holds in one transaction.                        *)
EXTENDS Naturals, FiniteSets, Sequences, SequencesExt
CONSTANTS
  Archive,     \* archive identities, all under one key
  Content,     \* the states that the database goes through, sets of rows
  Moved,       \* the projects of a package
  MaxFaults,   \* bound: damages to a file or to what is being written
  MaxPuts,     \* bound: files that the operator puts in place
  None

VARIABLES
  live,      \* which content the database has
  disk,      \* the blob store of the source
  capture,   \* the running capture
  archive,   \* what has been published under an identity
  file,      \* the file that the operator passes to a reader
  reader,    \* restore or import
  target,    \* the instance that reads
  faults, puts
vars == <<live, disk, capture, archive, file, reader, target, faults, puts>>

Hash == {r.blob : r \in UNION Range(Content)} \ {None}
Mode == {"recovery", "migration"}
Chunks == 2
R(kind, name, value) == [kind |-> kind, name |-> name, value |-> value]
Garbage == [of |-> None, index |-> 0]
Init ==
  /\ live = 1 /\ disk = [h \in Hash |-> "whole"] /\ capture = None
  /\ archive = [a \in Archive |-> None] /\ file = <<>>
  /\ reader = [as |-> None, step |-> "idle", copy |-> <<>>, accepted |-> None]
  /\ target = [rows |-> {}, blobs |-> [h \in Hash |-> "none"], directory |-> FALSE, from |-> None]
  /\ faults = 0 /\ puts = 0

-----------------------------------------------------------------------------
(* What a capture selects: every row, or the rows of the moved projects.      *)
Tables == <<"projects", "users", "issues", "events", "issue_activity", "event_attachments">>
TablesOf(mode) == (IF mode = "recovery" THEN <<"instance_settings">> ELSE <<>>) \o Tables
Owned(rows, table) == {r \in rows : r.table = table /\ r.project \in Moved}
ActivityOf(rows) ==
  {r \in rows : r.table = "issue_activity" /\ \E i \in Owned(rows, "issues") : i.id = r.issue}
Query(rows, table) ==
  CASE table = "projects" -> {r \in rows : r.table = table /\ r.id \in Moved}
    [] table = "users" -> {r \in rows : r.table = table /\ \E x \in ActivityOf(rows) : x.user = r.id}
    [] table = "issue_activity" -> ActivityOf(rows)
    [] OTHER -> Owned(rows, table)
Selected(rows, mode, table) ==
  IF mode = "migration" THEN Query(rows, table) ELSE {r \in rows : r.table = table}
Referenced(rows) == {r.blob : r \in rows} \ {None}

TableRecords(rows, table) ==
  LET ordered == SetToSeq(rows)
  IN <<R("table", table, None)>> \o [i \in DOMAIN ordered |-> R("row", table, ordered[i])]
       \o <<R("tableEnd", table, ordered)>>
BlobRecords(h) ==
  <<R("blob", h, Chunks)>> \o [i \in 1..Chunks |-> R("chunk", h, i - 1)] \o <<R("blobEnd", h, None)>>
AllTables(rows, mode) ==
  FlattenSeq([i \in DOMAIN TablesOf(mode) |->
                TableRecords(Selected(rows, mode, TablesOf(mode)[i]), TablesOf(mode)[i])])
Snapshot(rows, mode) == UNION {Selected(rows, mode, t) : t \in Range(TablesOf(mode))}

-----------------------------------------------------------------------------
(* ArchiveReader: nothing but the frames of one archive, in their order, from *)
(* its header to its authenticated footer, and then the end of the file.      *)
Frames(a) == [i \in 1..(Len(archive[a].records) + 2) |-> [of |-> a, index |-> i - 1]]
InOrder(f) == \A i \in DOMAIN f : f[i] # Garbage /\ f[i].index = i - 1
OneArchive(f) == \A i \in DOMAIN f : f[i].of = f[1].of
Footed(f) == f # <<>> /\ Last(f).of # None /\ Last(f).index = Len(archive[Last(f).of].records) + 1
Readable(f) == InOrder(f) /\ OneArchive(f) /\ Footed(f)

(* verify, one record after the other.                                        *)
Start(header) ==
  [mode |-> header.mode, projects |-> header.projects, ok |-> TRUE, table |-> None, rows |-> <<>>,
   blob |-> None, position |-> 0, done |-> 0, references |-> {}, seen |-> {}, blobs |-> {}]
Also(v, c) == [v EXCEPT !.ok = @ /\ c]
Seen(v, table, id) == {r \in v.seen : r.table = table /\ r.id = id}
(* Scope::row: parents come first and settle the project of a row.            *)
InScope(v, r) ==
  /\ IF r.table = "projects" THEN r.id \in v.projects
     ELSE r.project # None => Seen(v, "projects", r.project) # {}
  /\ r.issue # None =>
       \E i \in Seen(v, "issues", r.issue) : r.project \in {None, i.project}
  /\ r.table = "event_attachments" =>
       \A e \in Seen(v, "events", r.event) : e.project = r.project
  /\ r.user # None => Seen(v, "users", r.user) # {}
  /\ Seen(v, r.table, r.id) = {}
Table(v, rec) ==
  [Also(v, v.table = None /\ v.blob = None /\ v.blobs = {} /\ v.done < Len(TablesOf(v.mode))
             /\ TablesOf(v.mode)[v.done + 1] = rec.name)
     EXCEPT !.table = rec.name, !.rows = <<>>]
Row(v, rec) ==
  [Also(v, v.table = rec.name /\ (v.mode = "migration" => InScope(v, rec.value)))
     EXCEPT !.rows = Append(@, rec.value), !.seen = @ \cup {rec.value},
            !.references = @ \cup ({rec.value.blob} \ {None})]
SameRows(v, rec) == v.table = rec.name /\ v.rows = rec.value
TableEnd(v, rec) ==
  [Also(v, SameRows(v, rec) /\ (rec.name = "instance_settings" => Len(v.rows) = 1))
     EXCEPT !.table = None, !.done = @ + 1]
Blob(v, rec) ==
  [Also(v, v.done = Len(TablesOf(v.mode)) /\ v.table = None /\ v.blob = None
             /\ rec.name \in v.references \ v.blobs)
     EXCEPT !.blob = rec.name, !.position = 0]
Chunk(v, rec) ==
  [Also(v, v.blob = rec.name /\ v.position = rec.value /\ v.position < Chunks)
     EXCEPT !.position = @ + 1]
BlobEnd(v, rec) ==
  [Also(v, v.blob = rec.name /\ v.position = Chunks)
     EXCEPT !.blob = None, !.blobs = @ \cup {rec.name}]
Take(v, rec) ==
  CASE rec.kind = "table" -> Table(v, rec)
    [] rec.kind = "row" -> Row(v, rec)
    [] rec.kind = "tableEnd" -> TableEnd(v, rec)
    [] rec.kind = "blob" -> Blob(v, rec)
    [] rec.kind = "chunk" -> Chunk(v, rec)
    [] rec.kind = "blobEnd" -> BlobEnd(v, rec)
Complete(v) ==
  /\ v.table = None /\ v.blob = None /\ v.done = Len(TablesOf(v.mode))
  /\ v.references = v.blobs
  /\ v.mode = "migration" => {r.id : r \in {x \in v.seen : x.table = "projects"}} = v.projects
Verified(header, records) ==
  LET v == FoldLeft(Take, Start(header), records) IN v.ok /\ Complete(v)
Accepted(f) == Readable(f) /\ Verified(archive[f[1].of].header, archive[f[1].of].records)

-----------------------------------------------------------------------------
(* The source goes on: rows and blobs are added while a capture runs, a disk  *)
(* loses a blob.                                                              *)
Change ==
  /\ live < Len(Content) /\ live' = live + 1
  /\ UNCHANGED <<disk, capture, archive, file, reader, target, faults, puts>>
Harm(h) ==
  /\ faults < MaxFaults /\ disk[h] = "whole" /\ faults' = faults + 1
  /\ \E s \in {"bad", "none"} : disk' = [disk EXCEPT ![h] = s]
  /\ UNCHANGED <<live, capture, archive, file, reader, target, puts>>

CaptureTables(a, mode) ==
  /\ capture = None /\ archive[a] = None
  /\ LET rows == Snapshot(Content[live], mode)
     IN capture' = [id |-> a, rows |-> rows, left |-> Referenced(rows),
                    records |-> AllTables(Content[live], mode),
                    header |-> [mode |-> mode, projects |-> IF mode = "migration" THEN Moved ELSE {}]]
  /\ UNCHANGED <<live, disk, archive, file, reader, target, faults, puts>>
(* A blob is read to its end and compared with its name.                      *)
CaptureBlob ==
  /\ capture # None /\ capture.left # {}
  /\ LET h == CHOOSE x \in capture.left : TRUE
     IN capture' = IF disk[h] = "whole"
                   THEN [capture EXCEPT !.left = @ \ {h}, !.records = @ \o BlobRecords(h)]
                   ELSE None
  /\ UNCHANGED <<live, disk, archive, file, reader, target, faults, puts>>
(* A writer with a defect: records of an extent are left out, one is written  *)
(* twice or late.                                                             *)
Miswrite ==
  /\ capture # None /\ capture.left = {} /\ faults < MaxFaults /\ faults' = faults + 1
  /\ LET s == capture.records
     IN \/ \E i, j \in DOMAIN s : i <= j
             /\ capture' = [capture EXCEPT !.records = SubSeq(s, 1, i - 1) \o SubSeq(s, j + 1, Len(s))]
        \/ \E i \in DOMAIN s :
             capture' = [capture EXCEPT !.records = SubSeq(s, 1, i) \o SubSeq(s, i, Len(s))]
        \/ \E i \in 1..(Len(s) - 1) :
             capture' = [capture EXCEPT !.records = [s EXCEPT ![i] = s[i + 1], ![i + 1] = s[i]]]
  /\ UNCHANGED <<live, disk, archive, file, reader, target, puts>>
(* The temporary file is verified before it takes the name it was given.      *)
Publish ==
  /\ capture # None /\ capture.left = {} /\ capture' = None
  /\ archive' = IF Verified(capture.header, capture.records)
                THEN [archive EXCEPT ![capture.id] =
                        [header |-> capture.header, records |-> capture.records, rows |-> capture.rows]]
                ELSE archive
  /\ UNCHANGED <<live, disk, file, reader, target, faults, puts>>
CrashCapture ==
  /\ capture # None /\ capture' = None
  /\ UNCHANGED <<live, disk, archive, file, reader, target, faults, puts>>

-----------------------------------------------------------------------------
(* The operator's file: an archive put there, before a reader or under it,    *)
(* and what storage and transport may do to it.                               *)
Put(a) ==
  /\ archive[a] # None /\ file # Frames(a) /\ file' = Frames(a)
  /\ puts < MaxPuts /\ puts' = puts + 1
  /\ UNCHANGED <<live, disk, capture, archive, reader, target, faults>>
Damage ==
  /\ file # <<>> /\ faults < MaxFaults /\ faults' = faults + 1
  /\ \/ \E i \in DOMAIN file : file' = SubSeq(file, 1, i - 1)
     \/ \E i \in DOMAIN file : file' = Remove(file, file[i])
     \/ \E i \in 1..(Len(file) - 1) : file' = [file EXCEPT ![i] = file[i + 1], ![i + 1] = file[i]]
     \/ \E i \in DOMAIN file : file' = [file EXCEPT ![i] = Garbage]
     \/ file' = Append(file, Garbage)
  /\ UNCHANGED <<live, disk, capture, archive, reader, target, puts>>

Begin(as) ==
  /\ reader.step = "idle" /\ file # <<>> /\ (as = "restore" => ~target.directory)
  /\ reader' = [as |-> as, step |-> "copying", copy |-> <<>>, accepted |-> None]
  /\ UNCHANGED <<live, disk, capture, archive, file, target, faults, puts>>
(* The file is copied in pieces.                                              *)
Copy ==
  /\ reader.step = "copying" /\ Len(reader.copy) < Len(file)
  /\ reader' = [reader EXCEPT !.copy = Append(@, file[Len(@) + 1])]
  /\ UNCHANGED <<live, disk, capture, archive, file, target, faults, puts>>
Idle == [as |-> None, step |-> "idle", copy |-> <<>>, accepted |-> None]
ModeOf(as) == IF as = "restore" THEN "recovery" ELSE "migration"
Fits(f, as) == Accepted(f) /\ archive[f[1].of].header.mode = ModeOf(as)
Preflight ==
  /\ reader.step = "copying" /\ Len(reader.copy) >= Len(file)
  /\ reader' = IF Fits(reader.copy, reader.as)
               THEN [reader EXCEPT !.step = "verified", !.accepted = reader.copy[1].of]
               ELSE Idle
  /\ UNCHANGED <<live, disk, capture, archive, file, target, faults, puts>>

(* The second pass reads the private copy.                                    *)
Pinned == reader.copy
Written == LET a == archive[Pinned[1].of] IN {r.value : r \in {x \in Range(a.records) : x.kind = "row"}}
Vacant == target.rows = {}
Noted(blobs) == [h \in Hash |-> IF h \in blobs /\ target.blobs[h] = "none" THEN "whole" ELSE target.blobs[h]]
(* restore claims a directory that nobody has; import writes into the store   *)
(* of the instance, where a file of that name may already be.                 *)
WriteBlobs ==
  /\ reader.step = "verified"
  /\ IF Vacant /\ Readable(Pinned) /\ (reader.as = "restore" => ~target.directory)
     THEN /\ reader' = [reader EXCEPT !.step = "written"]
          /\ target' = [target EXCEPT !.blobs = Noted(Referenced(Written)),
                                      !.directory = @ \/ reader.as = "restore"]
     ELSE reader' = Idle /\ target' = target
  /\ UNCHANGED <<live, disk, capture, archive, file, faults, puts>>
BlobsHold == \A h \in Referenced(Written) : target.blobs[h] = "whole"
Commit ==
  /\ reader.step = "written"
  /\ IF BlobsHold
     THEN target' = [target EXCEPT !.rows = Written, !.from = reader.accepted]
     ELSE target' = IF reader.as = "restore"
                    THEN [target EXCEPT !.directory = FALSE, !.blobs = [h \in Hash |-> "none"]]
                    ELSE target
  /\ reader' = Idle
  /\ UNCHANGED <<live, disk, capture, archive, file, faults, puts>>
(* A crash: the transaction is gone, the directory stays for inspection.      *)
CrashReader ==
  /\ reader.step # "idle" /\ reader' = Idle
  /\ UNCHANGED <<live, disk, capture, archive, file, target, faults, puts>>
(* A file that the store of an importing instance has already, and is not     *)
(* what its name says.                                                        *)
HarmTarget(h) ==
  /\ faults < MaxFaults /\ faults' = faults + 1 /\ target.rows = {} /\ target.blobs[h] # "bad"
  /\ target' = [target EXCEPT !.blobs[h] = "bad"]
  /\ UNCHANGED <<live, disk, capture, archive, file, reader, puts>>

Next ==
  \/ Change \/ \E h \in Hash : Harm(h) \/ HarmTarget(h)
  \/ \E a \in Archive, mode \in Mode : CaptureTables(a, mode)
  \/ CaptureBlob \/ Miswrite \/ Publish \/ CrashCapture
  \/ \E a \in Archive : Put(a)
  \/ Damage \/ \E as \in {"restore", "import"} : Begin(as)
  \/ Copy \/ Preflight \/ WriteBlobs \/ Commit \/ CrashReader
Spec == Init /\ [][Next]_vars

-----------------------------------------------------------------------------
(* Which archives and readers there are.                                      *)
TypeOK ==
  /\ live \in DOMAIN Content /\ disk \in [Hash -> {"whole", "bad", "none"}]
  /\ capture # None => capture.id \in Archive /\ archive[capture.id] = None
  /\ \A i \in DOMAIN file : file[i].of \in Archive \cup {None}
  /\ reader.step \in {"idle", "copying", "verified", "written"}
  /\ target.blobs \in [Hash -> {"whole", "bad", "none"}] /\ faults \in 0..MaxFaults /\ puts \in 0..MaxPuts

(* An instance holds the whole snapshot that one verified archive was taken   *)
(* of, with every blob that it names, or nothing: whatever the writer left    *)
(* out, storage did to the file or an operator replaced under the reader      *)
(* (restore.rs:56, "cannot turn a successful preflight into different         *)
(* writes", and archive.rs:1).                                                *)
OnlyWholeArchives ==
  target.rows # {} =>
    /\ target.rows = archive[target.from].rows
    /\ \A h \in Referenced(target.rows) : target.blobs[h] = "whole"
(* What a capture wrote of whole blobs is published: only a defect of the     *)
(* writer is refused.                                                         *)
CapturedIsAccepted ==
  capture # None /\ capture.left = {} /\ faults = 0 => Verified(capture.header, capture.records)
=============================================================================
