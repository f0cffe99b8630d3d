------------------------------ MODULE BlobStore ------------------------------
(***************************************************************************)
(* Content-addressed blobs beside the database: uploads and imports put a  *)
(* file and commit a row that refers to it, retention drops rows, a        *)
(* collector unlinks what no row refers to, a backup copies what a         *)
(* snapshot of the rows refers to.  One advisory lock keeps them apart:    *)
(* shared for who needs bytes to stay, exclusive for the collector, which  *)
(* waits in the lock's queue and holds later requests back.                *)
(*                                                                         *)
(* The file system has inodes and two paths per hash: where a blob is      *)
(* read, and the `.tmp' sibling where it is written.                       *)
(***************************************************************************)
EXTENDS FiniteSets

CONSTANTS
    Uploader,  \* requests in progress: artifact uploads, attachments, imports
    Hash, Slot,  \* Slot: rows that may refer to a blob
    Inode,
    NoHash, NoInode, Nobody

ASSUME BlobAssumption ==
    /\ NoHash \notin Hash /\ NoInode \notin Inode /\ Nobody \notin Uploader

VARIABLES
    row,     \* content_hash and blob_hash columns: [Slot -> Hash or NoHash]
    tmp, final,  \* the inode at each path of a hash
    data,    \* inodes: who opened it last, and whether the bytes are all there
    aged,    \* hashes whose file is older than ORPHAN_MIN_AGE
    up,      \* requests: place, hash, inode open for writing
    gc,      \* the collector: place, candidates left, candidate in hand
    backup   \* the backup: place, blobs left to copy

files == <<tmp, final, data>>
vars == <<row, files, aged, up, gc, backup>>

Idle == [pc |-> "idle", hash |-> NoHash, inode |-> NoInode]
GcIdle == [pc |-> "idle", todo |-> {}, victim |-> NoHash]
BackupIdle == [pc |-> "idle", need |-> {}]

Init ==
    /\ row = [s \in Slot |-> NoHash]
    /\ tmp = [h \in Hash |-> NoInode] /\ final = [h \in Hash |-> NoInode]
    /\ data = [i \in Inode |-> [by |-> Nobody, whole |-> FALSE]]
    /\ aged = {}
    /\ up = [u \in Uploader |-> Idle] /\ gc = GcIdle /\ backup = BackupIdle

Referenced == {h \in Hash : \E s \in Slot : row[s] = h}
Active(u) == up[u].pc # "idle"

-----------------------------------------------------------------------------
(* Plausible bugs, and the property that notices.                          *)

SharedAlways == TRUE                      \* SharedGranted: ReferencedBlobExists
SharedOvertakes == gc.pc \in {"idle", "waiting"}  \* SharedGranted: OrphansReclaimed
ExclusiveBesideBackup ==                  \* ExclusiveGranted: BackupFindsBlobs
    \A u \in Uploader : ~Active(u)
TmpAfterCopy(h) == tmp                    \* TmpAfterRename: TypeOK

-----------------------------------------------------------------------------
(* The advisory lock.                                                      *)

SharedGranted == gc.pc = "idle"
ExclusiveGranted == (\A u \in Uploader : ~Active(u)) /\ backup.pc = "idle"

-----------------------------------------------------------------------------
(* Uploads: one transaction around LocalFsBlobStore::put and the row.      *)

Goto(u, place) == up' = [up EXCEPT ![u].pc = place]
Forget(u) == up' = [up EXCEPT ![u] = Idle]

UpLock(u, h) ==
    /\ ~Active(u) /\ SharedGranted
    /\ up' = [up EXCEPT ![u] = [pc |-> "locked", hash |-> h, inode |-> NoInode]]
    /\ UNCHANGED <<row, files, aged, gc, backup>>

\* A blob that is already there is not written again, and keeps its age.
UpExists(u) ==
    /\ up[u].pc = "locked"
    /\ Goto(u, IF final[up[u].hash] # NoInode THEN "stored" ELSE "absent")
    /\ UNCHANGED <<row, files, aged, gc, backup>>

Free(i) ==
    /\ \A h \in Hash : tmp[h] # i /\ final[h] # i
    /\ \A u \in Uploader : up[u].inode # i

\* File::create: a file at the path is truncated, whoever writes to it.
UpOpen(u) ==
    LET h == up[u].hash IN
    /\ up[u].pc = "absent"
    /\ \E i \in Inode :
         /\ IF tmp[h] = NoInode THEN Free(i) ELSE i = tmp[h]
         /\ tmp' = [tmp EXCEPT ![h] = i]
         /\ data' = [data EXCEPT ![i] = [by |-> u, whole |-> FALSE]]
         /\ up' = [up EXCEPT ![u] = [pc |-> "writing", hash |-> h, inode |-> i]]
    /\ UNCHANGED <<row, final, aged, gc, backup>>

\* Truncated under its hands, a writer may leave a hole at the start.
UpWrite(u) ==
    LET i == up[u].inode IN
    /\ up[u].pc = "writing"
    /\ \/ data' = [data EXCEPT ![i].whole = TRUE]
       \/ data[i].by # u /\ data' = data
    /\ Goto(u, "written")
    /\ UNCHANGED <<row, tmp, final, aged, gc, backup>>

TmpAfterRename(h) == [tmp EXCEPT ![h] = NoInode]

\* rename moves what is at the path now.
UpRename(u) ==
    LET h == up[u].hash IN
    /\ up[u].pc = "written" /\ tmp[h] # NoInode
    /\ final' = [final EXCEPT ![h] = tmp[h]]
    /\ tmp' = TmpAfterRename(h)
    /\ aged' = aged \ {h}
    /\ up' = [up EXCEPT ![u].pc = "stored", ![u].inode = NoInode]
    /\ UNCHANGED <<row, data, gc, backup>>

\* A rename that fails removes the temporary file, if there is one.
UpRenameFails(u) ==
    /\ up[u].pc = "written"
    /\ tmp' = [tmp EXCEPT ![up[u].hash] = NoInode]
    /\ Forget(u)
    /\ UNCHANGED <<row, final, data, aged, gc, backup>>

\* A project import writes to a file of its own and links it without replacing
\* another, which it then verifies.
Import(u) ==
    LET h == up[u].hash IN
    /\ up[u].pc = "locked"
    /\ IF final[h] = NoInode
       THEN \E i \in Inode : /\ Free(i)
                             /\ final' = [final EXCEPT ![h] = i]
                             /\ data' = [data EXCEPT ![i] = [by |-> u, whole |-> TRUE]]
                             /\ aged' = aged \ {h}
       ELSE data[final[h]].whole /\ UNCHANGED <<final, data, aged>>
    /\ Goto(u, "stored")
    /\ UNCHANGED <<row, tmp, gc, backup>>

\* A new row, or an artifact's row that now refers to other bytes.
UpCommit(u, s) ==
    /\ up[u].pc = "stored"
    /\ row' = [row EXCEPT ![s] = up[u].hash]
    /\ Forget(u)
    /\ UNCHANGED <<files, aged, gc, backup>>

\* An error rolls the transaction back, a crash does too; files stay as they are.
UpAbort(u) ==
    /\ Active(u)
    /\ Forget(u)
    /\ UNCHANGED <<row, files, aged, gc, backup>>

-----------------------------------------------------------------------------
(* Retention, and time.                                                    *)

DropRow(s) ==
    /\ row[s] # NoHash
    /\ row' = [row EXCEPT ![s] = NoHash]
    /\ UNCHANGED <<files, aged, up, gc, backup>>

Age(h) ==
    /\ final[h] # NoInode /\ h \notin aged
    /\ aged' = aged \cup {h}
    /\ UNCHANGED <<row, files, up, gc, backup>>

-----------------------------------------------------------------------------
(* The collector.                                                          *)

GcWait ==
    /\ gc.pc = "idle"
    /\ gc' = [gc EXCEPT !.pc = "waiting"]
    /\ UNCHANGED <<row, files, aged, up, backup>>

GcLock ==
    /\ gc.pc = "waiting" /\ ExclusiveGranted
    /\ gc' = [gc EXCEPT !.pc = "locked"]
    /\ UNCHANGED <<row, files, aged, up, backup>>

\* The references, then the files that are old enough.
GcScan ==
    /\ gc.pc = "locked"
    /\ gc' = [pc |-> "sweep", victim |-> NoHash,
              todo |-> {h \in aged : final[h] # NoInode} \ Referenced]
    /\ UNCHANGED <<row, files, aged, up, backup>>

\* Each candidate is checked again before it goes.
GcCheck(h) ==
    /\ gc.pc = "sweep" /\ h \in gc.todo
    /\ gc' = IF h \in Referenced
             THEN [gc EXCEPT !.todo = @ \ {h}]
             ELSE [pc |-> "unlink", todo |-> gc.todo \ {h}, victim |-> h]
    /\ UNCHANGED <<row, files, aged, up, backup>>

GcUnlink ==
    /\ gc.pc = "unlink"
    /\ final' = [final EXCEPT ![gc.victim] = NoInode]
    /\ aged' = aged \ {gc.victim}
    /\ gc' = [gc EXCEPT !.pc = "sweep", !.victim = NoHash]
    /\ UNCHANGED <<row, tmp, data, up, backup>>

\* A delete that fails is logged and skipped.
GcSkip ==
    /\ gc.pc = "unlink"
    /\ gc' = [gc EXCEPT !.pc = "sweep", !.victim = NoHash]
    /\ UNCHANGED <<row, files, aged, up, backup>>

GcEnd ==
    /\ gc.pc = "sweep" /\ gc.todo = {}
    /\ gc' = GcIdle
    /\ UNCHANGED <<row, files, aged, up, backup>>
GcCrash ==
    /\ gc.pc # "idle"
    /\ gc' = GcIdle
    /\ UNCHANGED <<row, files, aged, up, backup>>

-----------------------------------------------------------------------------
(* The backup: the lock comes before the snapshot.                         *)

BackupLock ==
    /\ backup.pc = "idle" /\ SharedGranted
    /\ backup' = [backup EXCEPT !.pc = "locked"]
    /\ UNCHANGED <<row, files, aged, up, gc>>

BackupSnapshot ==
    /\ backup.pc = "locked"
    /\ backup' = [pc |-> "copy", need |-> Referenced]
    /\ UNCHANGED <<row, files, aged, up, gc>>

BackupCopy(h) ==
    /\ backup.pc = "copy" /\ h \in backup.need
    /\ final[h] # NoInode /\ data[final[h]].whole
    /\ backup' = [backup EXCEPT !.need = @ \ {h}]
    /\ UNCHANGED <<row, files, aged, up, gc>>

\* Complete, refused for a missing or corrupt blob, cancelled, or crashed.
BackupEnd ==
    /\ backup.pc # "idle"
    /\ backup' = BackupIdle
    /\ UNCHANGED <<row, files, aged, up, gc>>

-----------------------------------------------------------------------------
UpStep(u) ==
    \/ UpExists(u) \/ UpOpen(u) \/ UpWrite(u) \/ UpRename(u) \/ UpRenameFails(u) \/ Import(u)
    \/ \E s \in Slot : UpCommit(u, s)
GcStep == GcWait \/ GcLock \/ GcScan \/ GcUnlink \/ GcEnd \/ \E h \in Hash : GcCheck(h)
BackupStep == BackupSnapshot \/ BackupEnd \/ \E h \in Hash : BackupCopy(h)

Next ==
    \/ \E u \in Uploader : UpStep(u) \/ UpAbort(u) \/ \E h \in Hash : UpLock(u, h)
    \/ \E s \in Slot : DropRow(s)
    \/ \E h \in Hash : Age(h)
    \/ GcStep \/ GcSkip \/ GcCrash
    \/ BackupLock \/ BackupStep

Spec == Init /\ [][Next]_vars

\* Requests and backups end, the collector runs again and again, files grow old.
\* Uploads need not pause, but at some time the collector stops failing.
Fairness ==
    /\ \A u \in Uploader : WF_vars(UpStep(u) \/ UpAbort(u))
    /\ WF_vars(BackupEnd) /\ WF_vars(GcStep)
    /\ \A h \in Hash : WF_vars(Age(h))
    /\ <>[][~GcSkip /\ ~GcCrash]_vars
FairSpec == Spec /\ Fairness

-----------------------------------------------------------------------------
Uploading == {"locked", "absent", "writing", "written", "stored"}
\* Everything stays in its domain, and a file that has been renamed has left its
\* temporary path.
TypeOK ==
    /\ row \in [Slot -> Hash \cup {NoHash}]
    /\ tmp \in [Hash -> Inode \cup {NoInode}] /\ final \in [Hash -> Inode \cup {NoInode}]
    /\ data \in [Inode -> [by : Uploader \cup {Nobody}, whole : BOOLEAN]]
    /\ aged \in SUBSET Hash
    /\ up \in [Uploader -> {Idle} \cup
                 [pc : Uploading, hash : Hash, inode : Inode \cup {NoInode}]]
    /\ gc \in [pc : {"idle", "waiting", "locked", "sweep", "unlink"}, todo : SUBSET Hash,
               victim : Hash \cup {NoHash}]
    /\ backup \in [pc : {"idle", "locked", "copy"}, need : SUBSET Hash]
    /\ \A h \in Hash : tmp[h] # NoInode => tmp[h] # final[h]

\* A row never refers to bytes that are not there, although collection, replacement of
\* artifacts, retention and uploads of bytes that were about to go all interleave.
ReferencedBlobExists == \A h \in Referenced : final[h] # NoInode

\* A backup finds every blob that its snapshot refers to, even if the rows are dropped
\* while it copies.
BackupFindsBlobs ==
    backup.pc = "copy" => \A h \in backup.need : final[h] # NoInode

\* What no row refers to is unlinked in the end, unless a row refers to it again.
OrphansReclaimed ==
    \A h \in Hash : final[h] # NoInode /\ h \notin Referenced
                     ~> final[h] = NoInode \/ h \in Referenced

\* local_fs.rs: `a crashed write never leaves a half-written blob visible to readers'
\* and `concurrent writes of the same blob don't collide'.
VisibleBlobsWhole == \A h \in Hash : final[h] # NoInode => data[final[h]].whole
=============================================================================
