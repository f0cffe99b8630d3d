------------------------- MODULE LateArtifactProofs -------------------------
(***************************************************************************)
(* An upload recovers the crashes that were stored when it began, proved   *)
(* for any number of events and any page size: whatever commits while the  *)
(* job scans, a page holds every early event between its cursor and its    *)
(* last row, and a short page every early event that is left.              *)
(***************************************************************************)
EXTENDS LateArtifact, FiniteSetTheorems, WellFoundedInduction, TLAPS

TypeOK ==
    /\ arrival \in [Event -> {"pending", "resolved", "inserting", "stored"}]
    /\ mapped \subseteq Event /\ missed \subseteq Event
    /\ upload \in {"none", "tx", "committed"}
    /\ cut \subseteq Event /\ early \subseteq cut
    /\ job \in {"none", "active", "succeeded"} /\ cursor \in Nat
    /\ page = NoPage \/ page \in SUBSET Event

\* The early events stay stored, and the job starts when its upload commits.
EarlyAreStored == \A e \in early : arrival[e] = "stored"
JobFollowsUpload == upload # "committed" => job = "none" /\ cursor = 0 /\ page = NoPage

\* What the scan has passed is resolved.
PassedAreMapped == \A e \in early : e <= cursor => e \in mapped

\* A page leaves no early event between its rows, and a short one none at all.
PageLeavesNone ==
    page # NoPage =>
        /\ job = "active"
        /\ \A e \in page, f \in early : cursor < f /\ f < e => f \in page
        /\ Cardinality(page) < PageSize => \A f \in early : cursor < f => f \in page

IInv ==
    /\ TypeOK /\ EarlyAreStored /\ JobFollowsUpload /\ PassedAreMapped /\ PageLeavesNone
    /\ StoredCrashesRecovered

-----------------------------------------------------------------------------
USE LateAssumption DEF Event

\* Sets of events are finite.
LEMMA EventsFinite ==
  ASSUME NEW S \in SUBSET Event
  PROVE  IsFiniteSet(S) /\ Cardinality(S) \in Nat
<1>1. IsFiniteSet(Event)
  BY FS_Interval
<1> QED
  BY <1>1, FS_Subset, FS_CardinalityType

\* A set of events that is not empty has a first one: the set of those up to it is
\* minimal among such sets.
LEMMA First ==
  ASSUME NEW S \in SUBSET Event, S # {}
  PROVE  \E x \in S : \A y \in S : x <= y
<1> DEFINE UpTo(x) == {y \in S : y <= x}
           T == {UpTo(x) : x \in S}
           R == StrictSubsetOrdering(S)
<1>1. T \subseteq FiniteSubsetsOf(S)
  <2> SUFFICES ASSUME NEW x \in S PROVE UpTo(x) \in FiniteSubsetsOf(S)
    OBVIOUS
  <2>1. UpTo(x) \in SUBSET S /\ UpTo(x) \in SUBSET Event
    OBVIOUS
  <2>2. IsFiniteSet(UpTo(x))
    BY <2>1, EventsFinite
  <2> QED
    <3> HIDE DEF UpTo
    <3> QED
      BY <2>1, <2>2 DEF FiniteSubsetsOf
<1>2. IsWellFoundedOn(R, FiniteSubsetsOf(S))
  BY FS_StrictSubsetOrderingWellFounded
<1>3. T # {}
  OBVIOUS
<1>4. \E U \in T : \A V \in T : ~ (<<V, U>> \in R)
  <2> HIDE DEF T, R
  <2> QED
    BY <1>1, <1>2, <1>3, WFMin
<1>5. PICK x \in S : \A V \in T : ~ (<<V, UpTo(x)>> \in R)
  BY <1>4
<1>6. ASSUME NEW y \in S, ~(x <= y) PROVE FALSE
  <2>1. x \in Nat /\ y \in Nat /\ y < x
    BY <1>6
  <2>2. UpTo(y) \in SUBSET S /\ UpTo(x) \in SUBSET S
    OBVIOUS
  <2>3. UpTo(y) \subseteq UpTo(x)
    <3> SUFFICES ASSUME NEW z \in S, z <= y PROVE z <= x
      OBVIOUS
    <3>1. z \in Nat
      OBVIOUS
    <3> QED
      BY <2>1, <3>1
  <2>4. x \in UpTo(x) /\ x \notin UpTo(y)
    BY <2>1
  <2>5. <<UpTo(y), UpTo(x)>> \in R
    <3> HIDE DEF UpTo
    <3> QED
      BY <2>2, <2>3, <2>4 DEF StrictSubsetOrdering
  <2> QED
    BY <1>5, <2>5
<1> QED
  BY <1>6

\* The first rows of a set, as ReadPage takes them: no row is skipped, and fewer than a
\* page are all.
LEMMA PageIsPrefix ==
  ASSUME NEW B \in SUBSET Event
  PROVE  LET P == {e \in B : Cardinality({f \in B : f < e}) < PageSize}
         IN  /\ \A e \in P, f \in B : f < e => f \in P
             /\ Cardinality(P) < PageSize => B \subseteq P
<1> DEFINE Before(e) == {f \in B : f < e}
           P == {e \in B : Cardinality(Before(e)) < PageSize}
<1>0. \A e \in B : Before(e) \in SUBSET Event /\ IsFiniteSet(Before(e)) /\ Cardinality(Before(e)) \in Nat
  BY EventsFinite
<1>1. ASSUME NEW e \in P, NEW f \in B, f < e PROVE f \in P
  <2>1. Before(f) \in SUBSET Before(e)
    <3> SUFFICES ASSUME NEW z \in B, z < f PROVE z < e
      OBVIOUS
    <3>1. z \in Nat /\ f \in Nat /\ e \in Nat
      OBVIOUS
    <3> QED
      BY <1>1, <3>1
  <2>2. Cardinality(Before(f)) <= Cardinality(Before(e))
    <3>1. IsFiniteSet(Before(e))
      BY <1>0
    <3> HIDE DEF Before
    <3> QED
      BY <2>1, <3>1, FS_Subset
  <2>3. Cardinality(Before(e)) < PageSize
    OBVIOUS
  <2>4. Cardinality(Before(f)) \in Nat /\ Cardinality(Before(e)) \in Nat
    BY <1>0
  <2> HIDE DEF Before
  <2> QED
    BY <2>2, <2>3, <2>4
<1>2. ASSUME Cardinality(P) < PageSize, ~(B \subseteq P) PROVE FALSE
  <2>1. PICK x \in B \ P : \A y \in B \ P : x <= y
    <3>1. B \ P \in SUBSET Event /\ B \ P # {}
      BY <1>2
    <3> HIDE DEF P
    <3> QED
      BY <3>1, First
  <2>2. Before(x) \in SUBSET P
    <3> SUFFICES ASSUME NEW f \in B, f < x PROVE f \in P
      OBVIOUS
    <3>1. ~(x <= f)
      OBVIOUS
    <3> QED
      BY <2>1, <3>1
  <2>3. IsFiniteSet(P) /\ Cardinality(P) \in Nat
    <3>1. P \in SUBSET Event
      OBVIOUS
    <3> QED
      BY <3>1, EventsFinite
  <2>4. Cardinality(Before(x)) <= Cardinality(P)
    BY <2>2, <2>3, FS_Subset
  <2>5. Cardinality(Before(x)) >= PageSize /\ Cardinality(Before(x)) \in Nat
    BY <1>0, <2>1
  <2> HIDE DEF Before, P
  <2> QED
    BY <1>2, <2>3, <2>4, <2>5
<1> QED
  BY <1>1, <1>2

-----------------------------------------------------------------------------
\* Nothing is stored and nothing is uploaded.
LEMMA InvInit == Init => IInv
  BY DEF Init, IInv, TypeOK, EarlyAreStored, JobFollowsUpload, PassedAreMapped, PageLeavesNone,
         StoredCrashesRecovered, NoPage

\* No set of events is the page that is not there.
LEMMA NoPageIsNone == \A S \in SUBSET Event : S # NoPage
  BY DEF NoPage

\* One step per action: ingest touches no early event, an upload has no job before it
\* commits, and a batch passes what it resolves.
LEMMA InvStep == IInv /\ [Next]_vars => IInv'
<1> SUFFICES ASSUME IInv, [Next]_vars PROVE IInv'
  OBVIOUS
<1> USE DEF IInv
<1>1. ASSUME NEW e \in Event, IngestResolve(e) PROVE IInv'
  <2>1. TypeOK'
    BY <1>1 DEF TypeOK, IngestResolve, uploadVars, jobVars
  <2>2. e \notin early
    BY <1>1 DEF EarlyAreStored, IngestResolve
  <2>3. \A f \in early : arrival'[f] = arrival[f] /\ (f \in mapped => f \in mapped')
    BY <1>1, <2>2 DEF IngestResolve, TypeOK
  <2>4. UNCHANGED <<uploadVars, jobVars>>
    BY <1>1 DEF IngestResolve
  <2> QED
    BY <2>1, <2>3, <2>4 DEF EarlyAreStored, JobFollowsUpload, PassedAreMapped, PageLeavesNone,
       StoredCrashesRecovered, uploadVars, jobVars
<1>2. ASSUME NEW e \in Event, IngestBegin(e) \/ IngestCommit(e) \/ IngestAbort(e) PROVE IInv'
  <2>1. UNCHANGED <<mapped, missed, uploadVars, jobVars>>
    BY <1>2 DEF IngestBegin, IngestCommit, IngestAbort
  <2>2. /\ arrival' \in [Event -> {"pending", "resolved", "inserting", "stored"}]
        /\ \A f \in Event : arrival[f] = "stored" => arrival'[f] = "stored"
    BY <1>2 DEF TypeOK, IngestBegin, IngestCommit, IngestAbort
  <2>3. TypeOK' /\ EarlyAreStored'
    BY <2>1, <2>2 DEF TypeOK, EarlyAreStored, uploadVars, jobVars
  <2> QED
    BY <2>1, <2>3 DEF JobFollowsUpload, PassedAreMapped, PageLeavesNone, StoredCrashesRecovered,
       uploadVars, jobVars
<1>3. CASE UploadBegin
  BY <1>3 DEF UploadBegin, TypeOK, EarlyAreStored, JobFollowsUpload, PassedAreMapped, PageLeavesNone,
     StoredCrashesRecovered, At, ingestVars, jobVars
<1>4. CASE UploadCommit
  BY <1>4 DEF UploadCommit, TypeOK, EarlyAreStored, JobFollowsUpload, PassedAreMapped, PageLeavesNone,
     StoredCrashesRecovered, ingestVars
<1>5. CASE UploadAbort
  BY <1>5 DEF UploadAbort, TypeOK, EarlyAreStored, JobFollowsUpload, PassedAreMapped, PageLeavesNone,
     StoredCrashesRecovered, ingestVars, jobVars
<1>6. CASE ReadPage
  <2>0. /\ job = "active" /\ UNCHANGED <<ingestVars, uploadVars, job, cursor>>
        /\ page' = {e \in Beyond : Cardinality({f \in Beyond : f < e}) < PageSize}
    BY <1>6 DEF ReadPage
  <2>1. Beyond \in SUBSET Event /\ \A f \in early : cursor < f => f \in Beyond
    BY DEF Beyond, TypeOK, EarlyAreStored
  <2>2. page' \in SUBSET Event
    BY <2>0, <2>1
  <2>3. /\ \A e \in page', f \in Beyond : f < e => f \in page'
        /\ Cardinality(page') < PageSize => Beyond \subseteq page'
    BY <2>0, <2>1, PageIsPrefix
  <2>4. PageLeavesNone'
    BY <2>0, <2>1, <2>3 DEF PageLeavesNone, uploadVars
  <2> QED
    BY <2>0, <2>2, <2>4 DEF TypeOK, EarlyAreStored, JobFollowsUpload, PassedAreMapped,
       StoredCrashesRecovered, ingestVars, uploadVars
<1>7. CASE CommitPage
  <2>0. /\ page # NoPage /\ mapped' = mapped \cup page /\ page' = NoPage
        /\ job' = IF Cardinality(page) < PageSize THEN "succeeded" ELSE "active"
        /\ UNCHANGED <<arrival, missed, uploadVars>>
    BY <1>7 DEF CommitPage
  <2>1. page \in SUBSET Event /\ job = "active"
    BY <2>0 DEF TypeOK, PageLeavesNone
  <2>2. PICK last \in IF page = {} THEN {cursor} ELSE {e \in page : \A f \in page : f <= e} :
               cursor' = last
    BY <1>7 DEF CommitPage
  <2>3. cursor' \in Nat /\ (cursor' = cursor \/ cursor' \in page)
    BY <2>1, <2>2 DEF TypeOK
  <2>4. \A f \in early : f <= cursor' => f <= cursor \/ f \in page
    <3> SUFFICES ASSUME NEW f \in early, f <= cursor', ~(f <= cursor) PROVE f \in page
      OBVIOUS
    <3>1. f \in Nat /\ cursor \in Nat /\ cursor' \in page
      BY <2>3 DEF TypeOK
    <3>2. f = cursor' \/ f < cursor'
      BY <2>3, <3>1
    <3>3. cursor < f
      BY <3>1
    <3> QED
      BY <2>0, <3>1, <3>2, <3>3 DEF PageLeavesNone
  <2>5. PassedAreMapped'
    BY <2>0, <2>4 DEF PassedAreMapped, uploadVars
  <2>6. StoredCrashesRecovered'
    <3> SUFFICES ASSUME Cardinality(page) < PageSize, NEW f \in early PROVE f \in mapped \cup page
      BY <2>0 DEF StoredCrashesRecovered, uploadVars
    <3>1. f \in Nat /\ cursor \in Nat
      BY DEF TypeOK
    <3>2. f <= cursor \/ cursor < f
      BY <3>1
    <3> QED
      BY <2>0, <3>2 DEF PassedAreMapped, PageLeavesNone
  <2>7. TypeOK' /\ PageLeavesNone' /\ EarlyAreStored'
    BY <2>0, <2>1, <2>3 DEF TypeOK, PageLeavesNone, EarlyAreStored, uploadVars
  <2>8. JobFollowsUpload'
    BY <2>0, <2>1 DEF JobFollowsUpload, uploadVars
  <2> QED
    BY <2>5, <2>6, <2>7, <2>8
<1>8. CASE LosePage
  BY <1>8 DEF LosePage, TypeOK, EarlyAreStored, JobFollowsUpload, PassedAreMapped, PageLeavesNone,
     StoredCrashesRecovered, ingestVars, uploadVars
<1>9. CASE UNCHANGED vars
  BY <1>9 DEF vars, TypeOK, EarlyAreStored, JobFollowsUpload, PassedAreMapped, PageLeavesNone,
     StoredCrashesRecovered
<1> QED
  BY <1>1, <1>2, <1>3, <1>4, <1>5, <1>6, <1>7, <1>8, <1>9 DEF Next

-----------------------------------------------------------------------------
\* The crashes already stored when an upload begins are readable once its job has
\* succeeded (symbolication_jobs.rs), whatever arrives, commits, fails or crashes while
\* the job scans.
THEOREM UploadRecoversStored == Spec => []StoredCrashesRecovered
<1>1. IInv => StoredCrashesRecovered
  BY DEF IInv
<1> QED
  BY <1>1, InvInit, InvStep, PTL DEF Spec
=============================================================================
