--------------------------- MODULE BlobStoreProofs ---------------------------
(***************************************************************************)
(* Collection is safe: for any uploaders, hashes, rows and inodes, rows    *)
(* and backups never miss a blob.  The advisory lock is what the proof     *)
(* rests on: while the collector works, references can only go.            *)
(***************************************************************************)
EXTENDS BlobStore, TLAPS

\* The collector's exclusive lock keeps uploads and backups out.
Locked == gc.pc \in {"locked", "sweep", "unlink"}
LockExclusive == Locked => (\A u \in Uploader : ~Active(u)) /\ backup.pc = "idle"

\* An upload commits its row only after its file is there.
StoredHasFile == \A u \in Uploader : up[u].pc = "stored" => final[up[u].hash] # NoInode

\* What is about to be unlinked is not referenced.
VictimUnreferenced == gc.pc = "unlink" => gc.victim \in Hash \ Referenced

IInv ==
    /\ TypeOK /\ LockExclusive /\ StoredHasFile /\ VictimUnreferenced
    /\ ReferencedBlobExists /\ BackupFindsBlobs

-----------------------------------------------------------------------------
USE BlobAssumption

\* The cases of a step, so that each proof names only the actions it cares about.
LEMMA StepCases ==
  ASSUME [Next]_vars
  PROVE  \/ \E u \in Uploader : \/ UpExists(u) \/ UpOpen(u) \/ UpWrite(u) \/ UpRename(u)
                                \/ UpRenameFails(u) \/ Import(u) \/ UpAbort(u)
                                \/ (\E h \in Hash : UpLock(u, h))
                                \/ (\E s \in Slot : UpCommit(u, s))
         \/ \E s \in Slot : DropRow(s)
         \/ \E h \in Hash : Age(h) \/ GcCheck(h) \/ BackupCopy(h)
         \/ GcWait \/ GcLock \/ GcScan \/ GcUnlink \/ GcSkip \/ GcEnd \/ GcCrash
         \/ BackupLock \/ BackupSnapshot \/ BackupEnd
         \/ UNCHANGED vars
  BY DEF Next, UpStep, GcStep, BackupStep

\* What an upload in progress remembers.
LEMMA UpType ==
  ASSUME TypeOK, NEW u \in Uploader, Active(u)
  PROVE  up[u] \in [pc : Uploading, hash : Hash, inode : Inode \cup {NoInode}]
  BY DEF TypeOK, Active, Idle

LEMMA TypeStep == TypeOK /\ [Next]_vars => TypeOK'
<1> SUFFICES ASSUME TypeOK, [Next]_vars PROVE TypeOK'
  OBVIOUS
<1> DEFINE Ups == {Idle} \cup [pc : Uploading, hash : Hash, inode : Inode \cup {NoInode}]
<1>0. \A u \in Uploader : Active(u) =>
         up[u] \in [pc : Uploading, hash : Hash, inode : Inode \cup {NoInode}]
  BY UpType
<1>a. ASSUME NEW u \in Uploader, NEW place \in Uploading, Active(u), Goto(u, place)
      PROVE  up' \in [Uploader -> Ups]
  BY <1>0, <1>a DEF Goto, TypeOK
<1>b. ASSUME NEW u \in Uploader, Forget(u) PROVE up' \in [Uploader -> Ups]
  BY <1>b DEF Forget, TypeOK
<1>1. ASSUME NEW u \in Uploader, NEW h \in Hash, UpLock(u, h) PROVE TypeOK'
  <2>1. up' \in [Uploader -> Ups]
    BY <1>1 DEF UpLock, TypeOK, Uploading
  <2> QED
    BY <1>1, <2>1 DEF UpLock, TypeOK, files
<1>2. ASSUME NEW u \in Uploader, UpExists(u) PROVE TypeOK'
  <2>1. up' \in [Uploader -> Ups]
    BY <1>2, <1>a DEF UpExists, Active, Uploading
  <2> QED
    BY <1>2, <2>1 DEF UpExists, TypeOK, files
<1>3. ASSUME NEW u \in Uploader, UpOpen(u) PROVE TypeOK'
  <2> DEFINE h == up[u].hash
  <2>1. PICK i \in Inode :
          /\ IF tmp[h] = NoInode THEN Free(i) ELSE i = tmp[h]
          /\ tmp' = [tmp EXCEPT ![h] = i]
          /\ data' = [data EXCEPT ![i] = [by |-> u, whole |-> FALSE]]
          /\ up' = [up EXCEPT ![u] = [pc |-> "writing", hash |-> h, inode |-> i]]
    BY <1>3 DEF UpOpen
  <2>2. h \in Hash
    BY <1>0, <1>3 DEF UpOpen, Active
  <2>3. up' \in [Uploader -> Ups]
    BY <2>1, <2>2 DEF TypeOK, Uploading
  <2>4. data' \in [Inode -> [by : Uploader \cup {Nobody}, whole : BOOLEAN]]
    <3>1. [by |-> u, whole |-> FALSE] \in [by : Uploader \cup {Nobody}, whole : BOOLEAN]
      OBVIOUS
    <3> QED
      BY <2>1, <3>1 DEF TypeOK
  <2>5. \A k \in Hash : tmp'[k] # NoInode => tmp'[k] # final[k]
    BY <2>1, <2>2 DEF TypeOK, Free
  <2> QED
    BY <1>3, <2>1, <2>2, <2>3, <2>4, <2>5 DEF UpOpen, TypeOK
<1>4. ASSUME NEW u \in Uploader, UpWrite(u) PROVE TypeOK'
  <2>1. up' \in [Uploader -> Ups]
    BY <1>4, <1>a DEF UpWrite, Active, Uploading
  <2>2. data' \in [Inode -> [by : Uploader \cup {Nobody}, whole : BOOLEAN]]
    <3> DEFINE i == up[u].inode
    <3>1. data \in [Inode -> [by : Uploader \cup {Nobody}, whole : BOOLEAN]]
      BY DEF TypeOK
    <3>2. CASE data' = data
      BY <3>1, <3>2
    <3>3. CASE data' = [data EXCEPT ![i].whole = TRUE]
      <4>1. ASSUME NEW k \in Inode
            PROVE  [data[k] EXCEPT !.whole = TRUE] \in [by : Uploader \cup {Nobody}, whole : BOOLEAN]
        BY <3>1
      <4> QED
        BY <3>1, <3>3, <4>1
    <3> QED
      BY <1>4, <3>2, <3>3 DEF UpWrite
  <2> QED
    BY <1>4, <2>1, <2>2 DEF UpWrite, TypeOK
<1>5. ASSUME NEW u \in Uploader, UpRename(u) PROVE TypeOK'
  <2>1. Active(u) /\ up[u].hash \in Hash
    BY <1>0, <1>5 DEF UpRename, Active
  <2>2. up' \in [Uploader -> Ups]
    BY <1>0, <1>5, <2>1, ZenonT(40) DEF UpRename, TypeOK, Uploading
  <2> QED
    BY <1>5, <2>1, <2>2 DEF UpRename, TmpAfterRename, TypeOK
<1>6. ASSUME NEW u \in Uploader, UpRenameFails(u) PROVE TypeOK'
  <2>1. up' \in [Uploader -> Ups]
    BY <1>6, <1>b DEF UpRenameFails
  <2> QED
    BY <1>6, <2>1 DEF UpRenameFails, TypeOK
<1>7. ASSUME NEW u \in Uploader, Import(u) PROVE TypeOK'
  <2>1. Active(u) /\ up[u].hash \in Hash
    BY <1>0, <1>7 DEF Import, Active
  <2>2. up' \in [Uploader -> Ups]
    BY <1>7, <1>a, <2>1 DEF Import, Uploading
  <2>3. CASE final[up[u].hash] # NoInode
    BY <1>7, <2>2, <2>3 DEF Import, TypeOK
  <2>4. CASE final[up[u].hash] = NoInode
    <3>1. PICK i \in Inode :
            /\ Free(i) /\ final' = [final EXCEPT ![up[u].hash] = i]
            /\ data' = [data EXCEPT ![i] = [by |-> u, whole |-> TRUE]]
            /\ aged' = aged \ {up[u].hash}
      BY <1>7, <2>4 DEF Import
    <3>2. data' \in [Inode -> [by : Uploader \cup {Nobody}, whole : BOOLEAN]]
      BY <3>1 DEF TypeOK
    <3>3. \A k \in Hash : tmp[k] # NoInode => tmp[k] # final'[k]
      BY <2>1, <3>1 DEF TypeOK, Free
    <3> QED
      BY <1>7, <2>1, <2>2, <3>1, <3>2, <3>3 DEF Import, TypeOK
  <2> QED
    BY <2>3, <2>4
<1>8. ASSUME NEW u \in Uploader, NEW s \in Slot, UpCommit(u, s) PROVE TypeOK'
  <2>1. up[u].hash \in Hash
    BY <1>0, <1>8 DEF UpCommit, Active
  <2>2. up' \in [Uploader -> Ups]
    BY <1>8, <1>b DEF UpCommit
  <2> QED
    BY <1>8, <2>1, <2>2 DEF UpCommit, TypeOK, files
<1>9. ASSUME NEW u \in Uploader, UpAbort(u) PROVE TypeOK'
  <2>1. up' \in [Uploader -> Ups]
    BY <1>9, <1>b DEF UpAbort
  <2> QED
    BY <1>9, <2>1 DEF UpAbort, TypeOK, files
<1>10. ASSUME (\E s \in Slot : DropRow(s)) \/ (\E h \in Hash : Age(h)) PROVE TypeOK'
  BY <1>10 DEF DropRow, Age, TypeOK, files
<1>11. ASSUME (\E h \in Hash : GcCheck(h)) \/ GcWait \/ GcLock \/ GcScan PROVE TypeOK'
  BY <1>11 DEF GcCheck, GcWait, GcLock, GcScan, TypeOK, files
<1>12. ASSUME GcUnlink PROVE TypeOK'
  <2>1. gc' \in [pc : {"idle", "waiting", "locked", "sweep", "unlink"}, todo : SUBSET Hash,
                victim : Hash \cup {NoHash}]
    BY <1>12 DEF GcUnlink, TypeOK
  <2>2. final' \in [Hash -> Inode \cup {NoInode}]
    BY <1>12 DEF GcUnlink, TypeOK
  <2>3. \A h \in Hash : tmp[h] # NoInode => tmp[h] # final'[h]
    BY <1>12 DEF GcUnlink, TypeOK
  <2>4. aged' \in SUBSET Hash
    BY <1>12 DEF GcUnlink, TypeOK
  <2>5. UNCHANGED <<row, tmp, data, up, backup>>
    BY <1>12 DEF GcUnlink
  <2>6. /\ row' \in [Slot -> Hash \cup {NoHash}] /\ tmp' \in [Hash -> Inode \cup {NoInode}]
        /\ data' \in [Inode -> [by : Uploader \cup {Nobody}, whole : BOOLEAN]]
        /\ up' \in [Uploader -> {Idle} \cup
                     [pc : Uploading, hash : Hash, inode : Inode \cup {NoInode}]]
        /\ backup' \in [pc : {"idle", "locked", "copy"}, need : SUBSET Hash]
    BY <2>5 DEF TypeOK
  <2> QED
    BY <2>1, <2>2, <2>3, <2>4, <2>5, <2>6 DEF TypeOK
<1>13. ASSUME GcSkip \/ GcEnd \/ GcCrash PROVE TypeOK'
  <2>1. gc' \in [pc : {"idle", "waiting", "locked", "sweep", "unlink"}, todo : SUBSET Hash,
                victim : Hash \cup {NoHash}]
    <3>1. CASE GcSkip
      BY <3>1 DEF GcSkip, TypeOK
    <3>2. CASE GcEnd \/ GcCrash
      BY <3>2 DEF GcEnd, GcCrash, GcIdle
    <3> QED
      BY <1>13, <3>1, <3>2
  <2> QED
    BY <1>13, <2>1 DEF GcSkip, GcEnd, GcCrash, TypeOK, files
<1>14. ASSUME \/ (\E h \in Hash : BackupCopy(h)) \/ BackupLock \/ BackupSnapshot \/ BackupEnd
       PROVE  TypeOK'
  BY <1>14 DEF BackupCopy, BackupLock, BackupSnapshot, BackupEnd, BackupIdle, Referenced, TypeOK, files
<1>15. ASSUME UNCHANGED vars PROVE TypeOK'
  BY <1>15 DEF vars, files, TypeOK
<1> QED
  BY <1>1, <1>2, <1>3, <1>4, <1>5, <1>6, <1>7, <1>8, <1>9, <1>10, <1>11, <1>12, <1>13, <1>14,
     <1>15, StepCases

LEMMA TypeInit == Init => TypeOK
  BY DEF Init, TypeOK, Idle, GcIdle, BackupIdle

-----------------------------------------------------------------------------
\* Whoever holds the lock shared, or is given it, finds no collector at work, and the
\* collector is given it only when nobody holds it.
LEMMA LockStep == TypeOK /\ LockExclusive /\ [Next]_vars => LockExclusive'
<1> SUFFICES ASSUME TypeOK, LockExclusive, [Next]_vars, Locked'
             PROVE  (\A v \in Uploader : ~Active(v)') /\ backup'.pc = "idle"
  BY DEF LockExclusive
<1>1. ASSUME NEW u \in Uploader,
             \/ UpExists(u) \/ UpOpen(u) \/ UpWrite(u) \/ UpRename(u) \/ UpRenameFails(u)
             \/ Import(u) \/ UpAbort(u) \/ \E s \in Slot : UpCommit(u, s)
      PROVE  FALSE
  <2>1. Active(u) /\ gc' = gc
    BY <1>1 DEF UpExists, UpOpen, UpWrite, UpRename, UpRenameFails, Import, UpAbort,
                UpCommit, Active
  <2> QED
    BY <2>1 DEF LockExclusive, Locked
<1>2. ASSUME NEW u \in Uploader, NEW h \in Hash, UpLock(u, h) PROVE FALSE
  BY <1>2 DEF UpLock, SharedGranted, Locked
<1>3. ASSUME BackupLock \/ BackupSnapshot \/ BackupEnd \/ \E h \in Hash : BackupCopy(h)
      PROVE  FALSE
  BY <1>3 DEF BackupLock, BackupSnapshot, BackupEnd, BackupCopy, SharedGranted, LockExclusive, Locked
<1>4. ASSUME GcLock PROVE (\A v \in Uploader : ~Active(v)') /\ backup'.pc = "idle"
  BY <1>4 DEF GcLock, ExclusiveGranted, Active
<1>5. ASSUME \/ GcScan \/ GcUnlink \/ GcSkip \/ (\E h \in Hash : GcCheck(h) \/ Age(h))
             \/ (\E s \in Slot : DropRow(s)) \/ UNCHANGED vars
      PROVE  (\A v \in Uploader : ~Active(v)') /\ backup'.pc = "idle"
  BY <1>5 DEF GcScan, GcUnlink, GcSkip, GcCheck, Age, DropRow, vars, LockExclusive, Locked, Active
<1>6. ASSUME GcWait \/ GcEnd \/ GcCrash PROVE FALSE
  BY <1>6 DEF GcWait, GcEnd, GcCrash, GcIdle, Locked, TypeOK
<1> QED
  BY <1>1, <1>2, <1>3, <1>4, <1>5, <1>6, StepCases

\* The files of a hash come and stay, except for the collector's victim.
LEMMA FilesStay ==
  ASSUME TypeOK, [Next]_vars, NEW h \in Hash, final[h] # NoInode, ~(GcUnlink /\ gc.victim = h)
  PROVE  final'[h] # NoInode
<1>1. ASSUME NEW u \in Uploader, UpRename(u) PROVE final'[h] # NoInode
  BY <1>1 DEF UpRename, TypeOK
<1>2. ASSUME NEW u \in Uploader, Import(u) PROVE final'[h] # NoInode
  BY <1>2, BlobAssumption DEF Import, TypeOK
<1>3. CASE GcUnlink
  BY <1>3 DEF GcUnlink, TypeOK
<1>4. ASSUME NEW u \in Uploader,
             \/ UpExists(u) \/ UpOpen(u) \/ UpWrite(u) \/ UpRenameFails(u) \/ UpAbort(u)
             \/ (\E k \in Hash : UpLock(u, k)) \/ \E s \in Slot : UpCommit(u, s)
      PROVE  final'[h] # NoInode
  BY <1>4 DEF UpExists, UpOpen, UpWrite, UpRenameFails, UpAbort, UpLock, UpCommit, files
<1>5. ASSUME \/ GcWait \/ GcLock \/ GcScan \/ GcSkip \/ GcEnd \/ GcCrash
             \/ BackupLock \/ BackupSnapshot \/ BackupEnd
             \/ (\E k \in Hash : GcCheck(k) \/ Age(k) \/ BackupCopy(k))
             \/ (\E s \in Slot : DropRow(s)) \/ UNCHANGED vars
      PROVE  final'[h] # NoInode
  BY <1>5 DEF GcWait, GcLock, GcScan, GcSkip, GcEnd, GcCrash, BackupLock, BackupSnapshot, BackupEnd,
              GcCheck, Age, BackupCopy, DropRow, vars, files
<1> QED
  BY <1>1, <1>2, <1>3, <1>4, <1>5, StepCases

\* References come from uploads that have stored their file.
LEMMA NewReferences ==
  ASSUME TypeOK, [Next]_vars, NEW h \in Referenced', h \notin Referenced
  PROVE  \E u \in Uploader : up[u].pc = "stored" /\ up[u].hash = h
<1>1. CASE row' = row
  BY <1>1 DEF Referenced
<1>2. ASSUME NEW u \in Uploader, NEW s \in Slot, UpCommit(u, s)
      PROVE  up[u].pc = "stored" /\ up[u].hash = h
  BY <1>2 DEF UpCommit, Referenced, TypeOK
<1>3. ASSUME NEW s \in Slot, DropRow(s) PROVE FALSE
  BY <1>3, BlobAssumption DEF DropRow, Referenced, TypeOK
<1> QED
  BY <1>1, <1>2, <1>3, StepCases
     DEF UpExists, UpOpen, UpWrite, UpRename, UpRenameFails, Import, UpAbort, UpLock, Age, GcCheck,
         BackupCopy, GcWait, GcLock, GcScan, GcUnlink, GcSkip, GcEnd, GcCrash, BackupLock,
         BackupSnapshot, BackupEnd, vars

\* While an upload or a backup is under way, nothing is unlinked.
LEMMA NoUnlink ==
  ASSUME LockExclusive, GcUnlink
  PROVE  (\A u \in Uploader : ~Active(u)) /\ backup.pc = "idle"
  BY DEF LockExclusive, Locked, GcUnlink

LEMMA StoredStep == IInv /\ [Next]_vars => StoredHasFile'
<1> SUFFICES ASSUME IInv, [Next]_vars, NEW u \in Uploader, up'[u].pc = "stored"
             PROVE  final'[up'[u].hash] # NoInode
  BY DEF StoredHasFile
<1>t. TypeOK
  BY DEF IInv
<1>1. CASE up'[u] = up[u]
  <2>1. Active(u) /\ up[u].hash \in Hash /\ final[up[u].hash] # NoInode
    BY <1>1, <1>t, UpType DEF IInv, StoredHasFile, Active
  <2>2. ~GcUnlink
    BY <2>1, NoUnlink DEF IInv
  <2> QED
    BY <1>1, <1>t, <2>1, <2>2, FilesStay
<1>2. ASSUME NEW v \in Uploader,
             \/ UpExists(v) \/ UpOpen(v) \/ UpWrite(v) \/ UpRename(v) \/ UpRenameFails(v)
             \/ Import(v) \/ UpAbort(v)
             \/ (\E h \in Hash : UpLock(v, h)) \/ (\E s \in Slot : UpCommit(v, s)),
             up'[u] # up[u]
      PROVE  final'[up'[u].hash] # NoInode
  <2>1. v = u
    BY <1>2, <1>t DEF UpExists, UpOpen, UpWrite, UpRename, UpRenameFails, Import, UpAbort, UpLock,
                      UpCommit, Goto, Forget, TypeOK
  <2>2. Active(u) => up[u].hash \in Hash
    BY <1>t, UpType
  <2>3. CASE UpExists(u)
    BY <1>t, <2>3 DEF UpExists, Goto, TypeOK, files
  <2>4. CASE UpRename(u)
    BY <1>t, <2>2, <2>4 DEF UpRename, Active, TypeOK
  <2>5. CASE Import(u)
    BY <1>t, <2>2, <2>5 DEF Import, Goto, Active, TypeOK
  <2>6. ASSUME \/ UpOpen(u) \/ UpWrite(u) \/ UpRenameFails(u) \/ UpAbort(u)
               \/ (\E h \in Hash : UpLock(u, h)) \/ (\E s \in Slot : UpCommit(u, s))
        PROVE  FALSE
    <3>1. ASSUME Forget(u) PROVE FALSE
      BY <1>t, <3>1 DEF Forget, Idle, TypeOK
    <3>2. CASE UpOpen(u)
      BY <1>t, <3>2 DEF UpOpen, TypeOK
    <3>4. CASE UpWrite(u)
      BY <1>t, <3>4, UpType DEF UpWrite, Goto, Active, TypeOK
    <3>3. ASSUME NEW h \in Hash, UpLock(u, h) PROVE FALSE
      BY <1>t, <3>3 DEF UpLock, TypeOK
    <3> QED
      BY <2>6, <3>1, <3>2, <3>3, <3>4 DEF UpRenameFails, UpAbort, UpCommit
  <2> QED
    BY <1>2, <2>1, <2>3, <2>4, <2>5, <2>6
<1> QED
  BY <1>1, <1>2, StepCases
     DEF DropRow, Age, GcCheck, BackupCopy, GcWait, GcLock, GcScan, GcUnlink, GcSkip, GcEnd, GcCrash,
         BackupLock, BackupSnapshot, BackupEnd, vars

\* The references can only shrink while the collector has a victim in hand.
LEMMA VictimStep == IInv /\ [Next]_vars => VictimUnreferenced'
<1> SUFFICES ASSUME IInv, [Next]_vars, gc'.pc = "unlink"
             PROVE  gc'.victim \in Hash /\ gc'.victim \notin Referenced'
  BY DEF VictimUnreferenced
<1>t. TypeOK
  BY DEF IInv
<1>1. CASE gc' = gc
  <2>1. gc.victim \in Hash \ Referenced /\ \A u \in Uploader : ~Active(u)
    BY <1>1 DEF IInv, VictimUnreferenced, LockExclusive, Locked
  <2> QED
    BY <1>1, <1>t, <2>1, NewReferences DEF Active
<1>2. ASSUME NEW h \in Hash, GcCheck(h) PROVE gc'.victim \in Hash /\ gc'.victim \notin Referenced'
  <2>1. Referenced' = Referenced
    BY <1>2 DEF GcCheck, Referenced
  <2> QED
    BY <1>2, <1>t, <2>1 DEF GcCheck, TypeOK
<1>3. ASSUME GcWait \/ GcLock \/ GcScan \/ GcUnlink \/ GcSkip \/ GcEnd \/ GcCrash PROVE FALSE
  <2>1. ASSUME GcUnlink \/ GcSkip PROVE FALSE
    BY <1>t, <2>1 DEF GcUnlink, GcSkip, TypeOK
  <2>2. ASSUME GcWait \/ GcLock \/ GcScan \/ GcEnd \/ GcCrash PROVE FALSE
    BY <1>t, <2>2 DEF GcWait, GcLock, GcScan, GcEnd, GcCrash, GcIdle, TypeOK
  <2> QED
    BY <1>3, <2>1, <2>2
<1> QED
  BY <1>1, <1>2, <1>3, StepCases
     DEF UpExists, UpOpen, UpWrite, UpRename, UpRenameFails, Import, UpAbort, UpLock, UpCommit,
         DropRow, Age, BackupCopy, BackupLock, BackupSnapshot, BackupEnd, vars

LEMMA ReferencedStep == IInv /\ [Next]_vars => ReferencedBlobExists'
<1> SUFFICES ASSUME IInv, [Next]_vars, NEW h \in Referenced' PROVE final'[h] # NoInode
  BY DEF ReferencedBlobExists
<1>t. TypeOK /\ h \in Hash
  BY DEF IInv, Referenced
<1>1. CASE h \in Referenced
  <2>1. final[h] # NoInode /\ ~(GcUnlink /\ gc.victim = h)
    BY <1>1 DEF IInv, ReferencedBlobExists, VictimUnreferenced, GcUnlink
  <2> QED
    BY <1>t, <2>1, FilesStay
<1>2. CASE h \notin Referenced
  <2>1. PICK u \in Uploader : up[u].pc = "stored" /\ up[u].hash = h
    BY <1>t, <1>2, NewReferences
  <2>2. final[h] # NoInode /\ ~GcUnlink
    BY <2>1, NoUnlink DEF IInv, StoredHasFile, Active
  <2> QED
    BY <1>t, <2>2, FilesStay
<1> QED
  BY <1>1, <1>2

LEMMA BackupStepSafe == IInv /\ [Next]_vars => BackupFindsBlobs'
<1> SUFFICES ASSUME IInv, [Next]_vars, backup'.pc = "copy", NEW h \in backup'.need
             PROVE  final'[h] # NoInode
  BY DEF BackupFindsBlobs
<1>t. TypeOK
  BY DEF IInv
<1>1. CASE BackupSnapshot
  BY <1>1, ReferencedStep DEF BackupSnapshot, IInv, ReferencedBlobExists, files
<1>2. CASE backup.pc = "copy" /\ h \in backup.need
  <2>1. h \in Hash /\ final[h] # NoInode /\ ~GcUnlink
    BY <1>2, <1>t, NoUnlink DEF IInv, BackupFindsBlobs, TypeOK
  <2> QED
    BY <1>t, <2>1, FilesStay
<1>3. ASSUME BackupLock \/ BackupEnd PROVE FALSE
  BY <1>3, <1>t DEF BackupLock, BackupEnd, BackupIdle, TypeOK
<1>4. ASSUME NEW k \in Hash, BackupCopy(k) PROVE backup.pc = "copy" /\ h \in backup.need
  BY <1>4, <1>t DEF BackupCopy, TypeOK
<1> QED
  BY <1>1, <1>2, <1>3, <1>4, StepCases
     DEF UpExists, UpOpen, UpWrite, UpRename, UpRenameFails, Import, UpAbort, UpLock, UpCommit,
         DropRow, Age, GcCheck, GcWait, GcLock, GcScan, GcUnlink, GcSkip, GcEnd, GcCrash, vars

-----------------------------------------------------------------------------
LEMMA Safety == Spec => []IInv
<1>1. Init => IInv
  BY TypeInit, BlobAssumption
     DEF Init, IInv, LockExclusive, Locked, StoredHasFile, VictimUnreferenced, ReferencedBlobExists,
         BackupFindsBlobs, Referenced, Idle, GcIdle, BackupIdle
<1>2. IInv /\ [Next]_vars => IInv'
  BY TypeStep, LockStep, StoredStep, VictimStep, ReferencedStep, BackupStepSafe DEF IInv
<1> QED
  BY <1>1, <1>2, PTL DEF Spec

\* Files, rows, requests, collector and backup stay in their domains, and no inode is
\* reached by both paths of a hash (local_fs.rs, archive_worker.rs, capture.rs).
THEOREM BlobTypeCorrect == Spec => []TypeOK
<1>1. IInv => TypeOK
  BY DEF IInv
<1> QED
  BY <1>1, Safety, PTL

\* However uploads, retention and collection interleave, a row's bytes are there.
THEOREM RowsKeepTheirBlobs == Spec => []ReferencedBlobExists
<1>1. IInv => ReferencedBlobExists
  BY DEF IInv
<1> QED
  BY <1>1, Safety, PTL

\* A backup never misses a blob of its snapshot, whatever is dropped meanwhile.
THEOREM BackupsKeepTheirBlobs == Spec => []BackupFindsBlobs
<1>1. IInv => BackupFindsBlobs
  BY DEF IInv
<1> QED
  BY <1>1, Safety, PTL
=============================================================================
