---------------------------- MODULE ServiceProofs ----------------------------
(***************************************************************************)
(* What nine of the services guarantee, proved for any threads, requests,  *)
(* servers and rows.  They share no state: each has its own variables, and *)
(* its theorems are about the behaviours of its own specification:         *)
(*                                                                         *)
(*   Cache    MapCache            the cache of parsed maps                 *)
(*   Ingest   IssueIngest         events, and the issues that count them   *)
(*   Ops      InstanceOperations  backups and their verification           *)
(*   Users    Accounts            passwords, sessions and links            *)
(*   Admin    ProjectAdmin        a project, its tokens and its audit log  *)
(*   Tasks    TaskAutomation      tasks, and the signals that move them    *)
(*   Cloud    CloudIdentity       sessions of the cloud edition            *)
(*   Ring     EventRing           the buffer of events to be ingested      *)
(*   Reset    InstanceReset       the offline reset of an instance         *)
(*                                                                         *)
(* DeliveryProofs has those that watch, and those that send messages.      *)
(***************************************************************************)
EXTENDS Naturals, FiniteSets, Sequences, FiniteSetTheorems, WellFoundedInduction, TLAPS

CONSTANTS None, Gone, Worker, Request, Caller, MaxVersion, MaxGeneration,
          Key, Thread, Capacity, MaxClock,                       \* MapCache
          Group, Content, Owner,                                 \* IssueIngest
          Op, MaxAttempts,                                       \* InstanceOperations
          User, Root, Session, Link, Project, MaxPassword,       \* Accounts
          Editor, Name, Token,                                   \* ProjectAdmin
          Commit, Kind, MaxTime, MaxSignals,                     \* TaskAutomation
          MaxEpoch,                                              \* CloudIdentity
          Producer, MaxPushes,                                   \* EventRing
          Item, Server, Tool                                     \* InstanceReset
VARIABLES held, touched, clock, gone, flow,                            \* MapCache
          issue, event, notice, tx, answer, deleted, reopened,         \* IssueIngest
          op, file, work, lock, identity,                              \* InstanceOperations
          account, session, link, assigned, signing, shell, lastSet,   \* Accounts
          project, screen, tokens, request, caller, member, audit,     \* ProjectAdmin
          task, ticket, signals, config, hours, command,               \* TaskAutomation
          remote, local, cookie, placed, ask, admitted,                \* CloudIdentity
          queue, dropped, stand, made, evicted, missing, outcome,      \* EventRing
          drained, counted,
          reign, pending, rows, secret, signed, permit, cleared,       \* InstanceReset
          completed, blobs, archive, journal, receipt, server, tool,
          attempts, acked, torn

Cache == INSTANCE MapCache
Ingest == INSTANCE IssueIngest
Ops == INSTANCE InstanceOperations
Users == INSTANCE Accounts WITH Owner <- Root, tx <- signing
Admin == INSTANCE ProjectAdmin WITH assigned <- member, token <- tokens
Tasks == INSTANCE TaskAutomation WITH issue <- ticket, clock <- hours
Cloud == INSTANCE CloudIdentity WITH session <- cookie, assigned <- placed
Ring == INSTANCE EventRing WITH at <- stand, lost <- missing
Reset == INSTANCE InstanceReset WITH generation <- reign, password <- secret, session <- signed

\* An instance has a Cardinality of its own, which is that of FiniteSets.
LEMMA CacheCounts == \A S : Cache!Cardinality(S) = Cardinality(S)
  BY DEF Cache!Cardinality, Cardinality
LEMMA IngestCounts == \A S : Ingest!Cardinality(S) = Cardinality(S)
  BY DEF Ingest!Cardinality, Cardinality
LEMMA OpsCounts == \A S : Ops!Cardinality(S) = Cardinality(S)
  BY DEF Ops!Cardinality, Cardinality
LEMMA TasksCounts == \A S : Tasks!Cardinality(S) = Cardinality(S)
  BY DEF Tasks!Cardinality, Cardinality
LEMMA RingCounts == \A S : Ring!Cardinality(S) = Cardinality(S)
  BY DEF Ring!Cardinality, Cardinality
LEMMA ResetCounts == \A S : Reset!Cardinality(S) = Cardinality(S)
  BY DEF Reset!Cardinality, Cardinality

(***************************************************************************)
(* MapCache.  Touches are numbered, so that no two keys were touched last  *)
(* by the same one: the oldest entry is a single one, and all others of a  *)
(* full cache are newer than it.                                           *)
(***************************************************************************)
\* LruCache::new takes a NonZeroUsize; hashes of a fixed length are finitely many.
Sizes == Capacity \in Nat \ {0} /\ IsFiniteSet(Key)

\* A touch is stamped with its number, entries have been touched, and no two keys
\* bear the same stamp.
StampsArePast == \A k \in Key : touched[k] <= clock
HeldAreTouched == \A k \in held : touched[k] > 0
StampsDiffer == \A j, k \in Key : touched[j] = touched[k] /\ touched[k] > 0 => j = k

CacheIInv ==
    /\ Cache!TypeOK /\ StampsArePast /\ HeldAreTouched /\ StampsDiffer
    /\ Cache!MemoryIsBounded /\ Cache!RecentStay

-----------------------------------------------------------------------------
\* The invariant holds at first,
LEMMA CacheInvInit == ASSUME Sizes PROVE Cache!Init => CacheIInv
<1> SUFFICES ASSUME Cache!Init PROVE CacheIInv
  OBVIOUS
<1>1. Cache!TypeOK /\ StampsArePast /\ HeldAreTouched /\ StampsDiffer /\ Cache!RecentStay
  BY DEF Cache!Init, Cache!TypeOK, StampsArePast, HeldAreTouched, StampsDiffer, Cache!RecentStay
<1>2. Cache!MemoryIsBounded
  BY FS_EmptySet, CacheCounts DEF Cache!Init, Cache!MemoryIsBounded, Sizes
<1> QED
  BY <1>1, <1>2 DEF CacheIInv

\* A step puts a key, takes keys away, or leaves the cache alone: a hit is a put of
\* what is held already.
LEMMA CacheStepCases ==
  ASSUME Cache!TypeOK, [Cache!Next]_(Cache!vars)
  PROVE  \/ \E k \in Key : Cache!Put(k)
         \/ \E ks \in SUBSET Key : Cache!Remove(ks)
         \/ UNCHANGED <<held, touched, clock, gone>>
<1>1. ASSUME NEW k \in Key, Cache!Find(k)
      PROVE  Cache!Put(k) \/ UNCHANGED <<held, touched, clock, gone>>
  <2>1. CASE k \in held
    <3>1. Cache!Touch(k) /\ held' = held
      BY <1>1, <2>1 DEF Cache!Find
    <3>2. held' = held \cup {k}
      BY <2>1, <3>1
    <3> QED
      BY <2>1, <3>1, <3>2 DEF Cache!Put
  <2>2. CASE k \notin held
    BY <1>1, <2>2 DEF Cache!Find
  <2> QED
    BY <2>1, <2>2
<1>2. ASSUME NEW t \in Thread, NEW step \in {"loading", "loaded", "inserted"}, Cache!At(t, step)
      PROVE  flow[t].key \in Key
  BY <1>2 DEF Cache!At, Cache!TypeOK
<1>3. ASSUME NEW t \in Thread, NEW k \in Key, Cache!Get(t, k)
      PROVE  Cache!Put(k) \/ UNCHANGED <<held, touched, clock, gone>>
  BY <1>1, <1>3 DEF Cache!Get
<1>4. ASSUME NEW t \in Thread, NEW parsed \in BOOLEAN, Cache!Load(t, parsed)
      PROVE  UNCHANGED <<held, touched, clock, gone>>
  BY <1>4 DEF Cache!Load
<1>5. ASSUME NEW t \in Thread, Cache!Insert(t) PROVE \E k \in Key : Cache!Put(k)
  BY <1>2, <1>5 DEF Cache!Insert
<1>6. ASSUME NEW t \in Thread, Cache!Reread(t)
      PROVE  (\E k \in Key : Cache!Put(k)) \/ UNCHANGED <<held, touched, clock, gone>>
  BY <1>1, <1>2, <1>6 DEF Cache!Reread
<1>7. ASSUME NEW k \in Key, Cache!Remove({k}) PROVE \E ks \in SUBSET Key : Cache!Remove(ks)
  <2>1. {k} \in SUBSET Key
    OBVIOUS
  <2> QED
    BY <1>7, <2>1
<1>8. ASSUME Cache!Clear PROVE \E ks \in SUBSET Key : Cache!Remove(ks)
  BY <1>8 DEF Cache!Clear
<1>9. ASSUME UNCHANGED Cache!vars PROVE UNCHANGED <<held, touched, clock, gone>>
  BY <1>9 DEF Cache!vars
<1> QED
  BY <1>3, <1>4, <1>5, <1>6, <1>7, <1>8, <1>9 DEF Cache!Next

\* What a thread remembers is a key of its own, and how far it has got.
LEMMA FlowStep ==
  ASSUME Cache!TypeOK, [Cache!Next]_(Cache!vars)
  PROVE  flow' \in [Thread -> {None} \cup [key : Key, at : {"loading", "loaded", "inserted"}]]
<1> DEFINE Flows == {None} \cup [key : Key, at : {"loading", "loaded", "inserted"}]
<1>1. flow \in [Thread -> Flows]
  BY DEF Cache!TypeOK
<1>2. ASSUME NEW t \in Thread, NEW f \in Flows, flow' = [flow EXCEPT ![t] = f]
      PROVE  flow' \in [Thread -> Flows]
  <2> HIDE DEF Flows
  <2> QED
    BY <1>1, <1>2
<1>3. ASSUME NEW t \in Thread, NEW k \in Key, NEW step \in {"loading", "loaded", "inserted"},
             Cache!Moves(t, k, step)
      PROVE  flow' \in [Thread -> Flows]
  BY <1>2, <1>3 DEF Cache!Moves
<1>4. ASSUME NEW t \in Thread, Cache!Ends(t) PROVE flow' \in [Thread -> Flows]
  BY <1>2, <1>4 DEF Cache!Ends
<1>5. ASSUME NEW t \in Thread, NEW step \in {"loading", "loaded", "inserted"}, Cache!At(t, step)
      PROVE  flow[t].key \in Key
  BY <1>5 DEF Cache!At, Cache!TypeOK
<1>6. ASSUME NEW t \in Thread, NEW k \in Key, Cache!Get(t, k) PROVE flow' \in [Thread -> Flows]
  BY <1>1, <1>3, <1>6 DEF Cache!Get
<1>7. ASSUME NEW t \in Thread, NEW parsed \in BOOLEAN, Cache!Load(t, parsed)
      PROVE  flow' \in [Thread -> Flows]
  BY <1>3, <1>4, <1>5, <1>7 DEF Cache!Load
<1>8. ASSUME NEW t \in Thread, Cache!Insert(t) PROVE flow' \in [Thread -> Flows]
  BY <1>3, <1>5, <1>8 DEF Cache!Insert
<1>9. ASSUME NEW t \in Thread, Cache!Reread(t) PROVE flow' \in [Thread -> Flows]
  BY <1>4, <1>9 DEF Cache!Reread
<1>10. ASSUME (\E k \in Key : Cache!Remove({k})) \/ Cache!Clear \/ UNCHANGED Cache!vars
       PROVE  flow' \in [Thread -> Flows]
  BY <1>1, <1>10 DEF Cache!Remove, Cache!Clear, Cache!vars
<1> QED
  BY <1>6, <1>7, <1>8, <1>9, <1>10 DEF Cache!Next

-----------------------------------------------------------------------------
\* Entries that are not none have an oldest one: the set of those no younger than it
\* is minimal among such sets.  Stamps differ, so that it is the only one.
LEMMA OneOldest ==
  ASSUME Sizes, Cache!TypeOK, HeldAreTouched, StampsDiffer, held # {}
  PROVE  \E o \in held : Cache!Oldest = {o} /\ \A k \in held \ {o} : touched[o] < touched[k]
<1> DEFINE UpTo(k) == {j \in held : touched[j] <= touched[k]}
           T == {UpTo(k) : k \in held}
           R == StrictSubsetOrdering(held)
<1>1. T \subseteq FiniteSubsetsOf(held)
  <2> SUFFICES ASSUME NEW k \in held PROVE UpTo(k) \in FiniteSubsetsOf(held)
    OBVIOUS
  <2>1. UpTo(k) \in SUBSET held /\ UpTo(k) \in SUBSET Key
    BY DEF Cache!TypeOK
  <2>2. IsFiniteSet(UpTo(k))
    BY <2>1, FS_Subset DEF Sizes
  <2> QED
    <3> HIDE DEF UpTo
    <3> QED
      BY <2>1, <2>2 DEF FiniteSubsetsOf
<1>2. IsWellFoundedOn(R, FiniteSubsetsOf(held))
  BY FS_StrictSubsetOrderingWellFounded
<1>3. T # {}
  OBVIOUS
<1>4. \E U \in T : \A V \in T : ~ (<<V, U>> \in R)
  <2> HIDE DEF T, R
  <2> QED
    BY <1>1, <1>2, <1>3, WFMin
<1>5. PICK o \in held : \A V \in T : ~ (<<V, UpTo(o)>> \in R)
  BY <1>4
<1>6. ASSUME NEW k \in held, ~(touched[o] <= touched[k]) PROVE FALSE
  <2>1. touched[o] \in Nat /\ touched[k] \in Nat /\ touched[k] < touched[o]
    BY <1>6 DEF Cache!TypeOK
  <2>2. UpTo(k) \in SUBSET held /\ UpTo(o) \in SUBSET held
    OBVIOUS
  <2>3. UpTo(k) \subseteq UpTo(o)
    <3> SUFFICES ASSUME NEW j \in held, touched[j] <= touched[k] PROVE touched[j] <= touched[o]
      OBVIOUS
    <3>1. touched[j] \in Nat
      BY DEF Cache!TypeOK
    <3> QED
      BY <2>1, <3>1
  <2>4. o \in UpTo(o) /\ o \notin UpTo(k)
    BY <2>1
  <2>5. <<UpTo(k), UpTo(o)>> \in R
    <3> HIDE DEF UpTo
    <3> QED
      BY <2>2, <2>3, <2>4 DEF StrictSubsetOrdering
  <2> QED
    BY <1>5, <2>5
<1>7. ASSUME NEW k \in held \ {o} PROVE touched[o] < touched[k]
  <2>1. touched[o] <= touched[k] /\ touched[o] \in Nat /\ touched[k] \in Nat
    BY <1>6 DEF Cache!TypeOK
  <2>2. touched[o] # touched[k]
    BY <1>7 DEF StampsDiffer, HeldAreTouched, Cache!TypeOK
  <2> QED
    BY <2>1, <2>2
<1>8. Cache!Oldest = {o}
  <2>1. o \in Cache!Oldest
    BY <1>6 DEF Cache!Oldest
  <2>2. ASSUME NEW k \in Cache!Oldest PROVE k = o
    <3>1. k \in held /\ touched[k] <= touched[o]
      BY <2>2 DEF Cache!Oldest
    <3>2. touched[o] \in Nat /\ touched[k] \in Nat
      BY <3>1 DEF Cache!TypeOK
    <3> QED
      BY <1>7, <3>1, <3>2
  <2> QED
    BY <2>1, <2>2
<1> QED
  BY <1>7, <1>8

\* A put stamps its key with a number that no key had.
LEMMA PutStamps ==
  ASSUME Cache!TypeOK, StampsArePast, HeldAreTouched, StampsDiffer, NEW k \in Key, Cache!Put(k)
  PROVE  /\ held' \subseteq held \cup {k} /\ k \in held'
         /\ touched' \in [Key -> Nat] /\ clock' = clock + 1 /\ clock \in Nat
         /\ touched'[k] = clock + 1
         /\ \A j \in Key \ {k} : touched'[j] = touched[j]
<1>1. /\ clock' = clock + 1
      /\ touched' = [touched EXCEPT ![k] = clock + 1]
  BY DEF Cache!Put, Cache!Touch
<1> QED
  BY <1>1 DEF Cache!Put, Cache!TypeOK

\* Stamps stay different, and those of the entries positive.
LEMMA StampsStep ==
  ASSUME Cache!TypeOK, StampsArePast, HeldAreTouched, StampsDiffer, [Cache!Next]_(Cache!vars)
  PROVE  Cache!TypeOK' /\ StampsArePast' /\ HeldAreTouched' /\ StampsDiffer'
<1>1. flow' \in [Thread -> {None} \cup [key : Key, at : {"loading", "loaded", "inserted"}]]
  BY FlowStep
<1>2. ASSUME NEW k \in Key, Cache!Put(k)
      PROVE  Cache!TypeOK' /\ StampsArePast' /\ HeldAreTouched' /\ StampsDiffer'
  <2>1. /\ held' \subseteq held \cup {k}
        /\ touched' \in [Key -> Nat] /\ clock' = clock + 1 /\ clock \in Nat
        /\ touched'[k] = clock + 1
        /\ \A j \in Key \ {k} : touched'[j] = touched[j]
    BY <1>2, PutStamps
  <2>2. Cache!TypeOK'
    BY <1>1, <1>2, <2>1 DEF Cache!TypeOK, Cache!Put, Cache!Touch
  <2>3. \A j \in Key : touched[j] \in Nat /\ touched[j] <= clock
    BY DEF Cache!TypeOK, StampsArePast
  <2>4. StampsArePast' /\ HeldAreTouched'
    BY <2>1, <2>3 DEF Cache!TypeOK, StampsArePast, HeldAreTouched
  <2>5. StampsDiffer'
    BY <2>1, <2>3 DEF StampsDiffer
  <2> QED
    BY <2>2, <2>4, <2>5
<1>3. ASSUME NEW ks \in SUBSET Key, Cache!Remove(ks)
      PROVE  Cache!TypeOK' /\ StampsArePast' /\ HeldAreTouched' /\ StampsDiffer'
  BY <1>1, <1>3 DEF Cache!Remove, Cache!TypeOK, StampsArePast, HeldAreTouched, StampsDiffer
<1>4. ASSUME UNCHANGED <<held, touched, clock, gone>>
      PROVE  Cache!TypeOK' /\ StampsArePast' /\ HeldAreTouched' /\ StampsDiffer'
  BY <1>1, <1>4 DEF Cache!TypeOK, StampsArePast, HeldAreTouched, StampsDiffer
<1> QED
  BY <1>2, <1>3, <1>4, CacheStepCases

-----------------------------------------------------------------------------
\* Sets of keys have a size.
LEMMA KeysFinite ==
  ASSUME Sizes, NEW S \in SUBSET Key
  PROVE  IsFiniteSet(S) /\ Cardinality(S) \in Nat
BY FS_Subset, FS_CardinalityType DEF Sizes

\* A full cache gives up one entry, and every other one was used after it.
LEMMA Evicted ==
  ASSUME Sizes, Cache!TypeOK, HeldAreTouched, StampsDiffer, Cache!Full,
         NEW k \in Key \ held, Cache!Put(k)
  PROVE  \E o \in held :
           /\ held' = (held \ {o}) \cup {k}
           /\ \A j \in held \ {o} : touched[o] < touched[j]
           /\ Cardinality(held') = Cardinality(held)
<1>1. IsFiniteSet(held) /\ Cardinality(held) \in Nat
  BY KeysFinite DEF Cache!TypeOK
<1>2. held # {}
  BY <1>1, FS_EmptySet, CacheCounts DEF Cache!Full, Sizes
<1>3. PICK o \in held : Cache!Oldest = {o} /\ \A j \in held \ {o} : touched[o] < touched[j]
  BY <1>2, OneOldest
<1>4. held' = (held \ {o}) \cup {k}
  BY <1>3 DEF Cache!Put
<1>5. IsFiniteSet(held \ {o}) /\ Cardinality(held \ {o}) = Cardinality(held) - 1
  BY <1>1, FS_RemoveElement
<1>6. Cardinality((held \ {o}) \cup {k}) = Cardinality(held \ {o}) + 1
  <2>1. k \notin held \ {o}
    OBVIOUS
  <2> QED
    BY <1>5, <2>1, FS_AddElement
<1>7. Cardinality(held') = Cardinality(held)
  BY <1>1, <1>4, <1>5, <1>6
<1> QED
  BY <1>3, <1>4, <1>7

\* A full cache gives its one oldest entry for a new one.
LEMMA BoundedStep ==
  ASSUME Sizes, Cache!TypeOK, HeldAreTouched, StampsDiffer, Cache!MemoryIsBounded,
         [Cache!Next]_(Cache!vars)
  PROVE  Cache!MemoryIsBounded'
<1>1. IsFiniteSet(held) /\ Cardinality(held) \in Nat /\ Capacity \in Nat
  BY KeysFinite DEF Cache!TypeOK, Sizes
<1>2. ASSUME NEW k \in Key, Cache!Put(k) PROVE Cardinality(held') <= Capacity
  <2>1. CASE k \in held
    <3>1. held' = held
      BY <1>2, <2>1 DEF Cache!Put
    <3> QED
      BY <3>1, CacheCounts DEF Cache!MemoryIsBounded
  <2>2. CASE k \notin held /\ ~Cache!Full
    <3>1. held' = held \cup {k} /\ Cardinality(held) < Capacity
      BY <1>1, <1>2, <2>2, CacheCounts DEF Cache!Put, Cache!Full
    <3>2. Cardinality(held \cup {k}) = Cardinality(held) + 1
      BY <1>1, <2>2, FS_AddElement
    <3> QED
      BY <1>1, <3>1, <3>2
  <2>3. CASE k \notin held /\ Cache!Full
    <3>1. Cardinality(held') = Cardinality(held)
      BY <1>2, <2>3, Evicted
    <3> QED
      BY <3>1, CacheCounts DEF Cache!MemoryIsBounded
  <2> QED
    BY <2>1, <2>2, <2>3
<1>3. ASSUME NEW ks \in SUBSET Key, Cache!Remove(ks) PROVE Cardinality(held') <= Capacity
  <2>1. held' \in SUBSET held
    BY <1>3 DEF Cache!Remove
  <2>2. Cardinality(held') <= Cardinality(held) /\ Cardinality(held') \in Nat
    BY <1>1, <2>1, FS_Subset, FS_CardinalityType
  <2> QED
    BY <1>1, <2>2, CacheCounts DEF Cache!MemoryIsBounded
<1>4. ASSUME UNCHANGED held PROVE Cardinality(held') <= Capacity
  BY <1>4, CacheCounts DEF Cache!MemoryIsBounded
<1> QED
  BY <1>2, <1>3, <1>4, CacheStepCases, CacheCounts DEF Cache!MemoryIsBounded

\* Keys that were newer stay newer, and so does the one that is put.
LEMMA RecentStep ==
  ASSUME Sizes, Cache!TypeOK, StampsArePast, HeldAreTouched, StampsDiffer, Cache!RecentStay,
         [Cache!Next]_(Cache!vars)
  PROVE  Cache!RecentStay'
<1> DEFINE NewerNext(m) == {j \in Key : touched'[j] > touched'[m]}
           Fine(m) == \/ touched'[m] = 0 \/ m \in gone'
                      \/ Cardinality(NewerNext(m)) >= Capacity
<1>1. ASSUME NEW m \in Key, NEW S \in SUBSET NewerNext(m), Cardinality(S) >= Capacity
      PROVE  Cardinality(NewerNext(m)) >= Capacity
  <2>1. NewerNext(m) \in SUBSET Key /\ S \in SUBSET Key
    OBVIOUS
  <2> HIDE DEF NewerNext
  <2>2. IsFiniteSet(NewerNext(m)) /\ Cardinality(NewerNext(m)) \in Nat /\ Cardinality(S) \in Nat
    BY <2>1, KeysFinite
  <2>3. Cardinality(S) <= Cardinality(NewerNext(m))
    BY <2>2, FS_Subset
  <2> QED
    BY <1>1, <2>2, <2>3 DEF Sizes
<1>2. ASSUME NEW k \in Key, Cache!Put(k), NEW m \in Key \ held' PROVE Fine(m)
  <2>1. /\ k \in held' /\ clock \in Nat
        /\ touched'[k] = clock + 1
        /\ \A j \in Key \ {k} : touched'[j] = touched[j]
    BY <1>2, PutStamps
  <2>2. m # k /\ touched'[m] = touched[m]
    BY <1>2, <2>1
  <2>3. \A j \in Key : touched[j] \in Nat /\ touched[j] <= clock
    BY DEF Cache!TypeOK, StampsArePast
  <2>4. k \in NewerNext(m)
    BY <2>1, <2>2, <2>3
  <2>5. CASE m \notin held
    <3>1. touched[m] = 0 \/ m \in gone \/ Cardinality(Cache!Newer(m)) >= Capacity
      BY <2>5, CacheCounts DEF Cache!RecentStay
    <3>2. Cache!Newer(m) \subseteq NewerNext(m)
      BY <2>1, <2>2, <2>3, <2>4 DEF Cache!Newer
    <3>3. m \in gone => m \in gone'
      BY <1>2, <2>2 DEF Cache!Put, Cache!Touch
    <3> QED
      BY <1>1, <2>2, <3>1, <3>2, <3>3
  <2>6. CASE m \in held
    <3>1. Cache!Full /\ k \notin held
      BY <1>2, <2>6 DEF Cache!Put
    <3>2. PICK o \in held :
            /\ held' = (held \ {o}) \cup {k}
            /\ \A j \in held \ {o} : touched[o] < touched[j]
            /\ Cardinality(held') = Cardinality(held)
      BY <1>2, <3>1, Evicted
    <3>3. m = o
      BY <1>2, <2>6, <3>2
    <3>4. held' \subseteq NewerNext(m)
      <4> SUFFICES ASSUME NEW j \in held \ {o} PROVE j \in NewerNext(m)
        BY <2>4, <3>2
      <4>1. j \in Key /\ j # k
        BY <3>1 DEF Cache!TypeOK
      <4> QED
        BY <2>1, <2>2, <2>3, <3>2, <3>3, <4>1
    <3>5. Cardinality(held') >= Capacity
      BY <3>1, <3>2, CacheCounts DEF Cache!Full
    <3> QED
      BY <1>1, <3>4, <3>5
  <2> QED
    BY <2>5, <2>6
<1>3. ASSUME NEW ks \in SUBSET Key, Cache!Remove(ks), NEW m \in Key \ held' PROVE Fine(m)
  <2>1. m \in held => m \in gone'
    BY <1>3 DEF Cache!Remove
  <2>2. touched' = touched /\ gone \subseteq gone'
    BY <1>3 DEF Cache!Remove
  <2> QED
    BY <2>1, <2>2, CacheCounts DEF Cache!RecentStay, Cache!Newer
<1>4. ASSUME UNCHANGED <<held, touched, clock, gone>>, NEW m \in Key \ held' PROVE Fine(m)
  BY <1>4, CacheCounts DEF Cache!RecentStay, Cache!Newer
<1>5. \A m \in Key \ held' : Fine(m)
  <2> HIDE DEF Fine
  <2> QED
    BY <1>2, <1>3, <1>4, CacheStepCases
<1> QED
  BY <1>5, CacheCounts DEF Cache!RecentStay, Cache!Newer

\* and every step keeps it.
LEMMA CacheInvStep == ASSUME Sizes PROVE CacheIInv /\ [Cache!Next]_(Cache!vars) => CacheIInv'
BY StampsStep, BoundedStep, RecentStep DEF CacheIInv

-----------------------------------------------------------------------------
\* The cache never holds more maps than it was made for (cache.rs, "bounded memory is a
\* hard invariant"), however many threads have parsed one and insert it late.
THEOREM CacheIsBounded == ASSUME Sizes PROVE Cache!Spec => []Cache!MemoryIsBounded
<1>1. CacheIInv => Cache!MemoryIsBounded
  BY DEF CacheIInv
<1> QED
  BY <1>1, CacheInvInit, CacheInvStep, PTL DEF Cache!Spec

\* A map that was parsed and is not there any more was removed, or as many others as the
\* cache holds were used after it (LruCache in cache.rs, which evicts in put).
THEOREM LeastRecentGoes == ASSUME Sizes PROVE Cache!Spec => []Cache!RecentStay
<1>1. CacheIInv => Cache!RecentStay
  BY DEF CacheIInv
<1> QED
  BY <1>1, CacheInvInit, CacheInvStep, PTL DEF Cache!Spec
-----------------------------------------------------------------------------
(***************************************************************************)
(* IssueIngest.  A transaction that has locked or inserted a row has it to *)
(* itself until it ends (LocksApart, EventsApart), so that what it read    *)
(* stays true to its commit (TxSound): the issue it took for a new one is  *)
(* still nobody's, the one it found resolved still is, and its event id is *)
(* still unknown.  Then a commit counts its event once in its issue.       *)
(***************************************************************************)
Steps == {"select", "insert", "reread", "update", "event", "lookup", "probe", "commit"}
Tx == [step : Steps, c : Content, new : BOOLEAN, regressed : BOOLEAN, flipped : BOOLEAN]
IssueRow == [status : {"open", "resolved", "ignored"}, count : Nat]
\* What a request carries names a group, and None is a value apart.
IngestGiven ==
  /\ \A c \in Content : c.group \in Group /\ c.guards \in Group \cup {None}
  /\ None \notin Group /\ None \notin Tx /\ None \notin IssueRow

TxOK == tx \in [Request -> Tx \cup {None}] /\ None \notin Tx
IssueOK == issue \in [Group -> IssueRow \cup {None}] /\ None \notin IssueRow
ContentOK ==
  /\ \A c \in Content :
       c.group \in Group /\ c.guards \in Group \cup {None} /\ c.id \in Ingest!Id
  /\ None \notin Group
IngestRestOK ==
  /\ event \in [Ingest!Id -> Group \cup {None}]
  /\ notice \in [Group -> [new : Nat, regressed : Nat]]
  /\ reopened \in [Group -> Nat]
  /\ answer \in [Request -> {None, "accepted", "refused", "failed"}]
IngestTyped == TxOK /\ IssueOK /\ IngestRestOK

\* No row belongs to two transactions.
LocksApart == \A r, s \in Request : r # s => Ingest!Locked(r) \cap Ingest!Locked(s) = {}
EventsApart == \A r, s \in Request :
  r # s /\ Ingest!HasEvent(r) /\ Ingest!HasEvent(s) => tx[r].c.id # tx[s].c.id
\* What a transaction has read or decided is true of the rows it holds.
Sound(r) ==
  /\ ~Ingest!HasIssue(r) /\ tx[r] # None => ~tx[r].flipped
  /\ tx[r] # None /\ tx[r].step \in {"select", "insert", "reread", "update"} =>
       ~tx[r].new /\ ~tx[r].regressed
  /\ Ingest!HasIssue(r) =>
       /\ tx[r].new => issue[tx[r].c.group] = None /\ ~tx[r].regressed
       /\ ~tx[r].new => issue[tx[r].c.group] # None
       /\ tx[r].regressed => issue[tx[r].c.group].status = "resolved"
       /\ tx[r].flipped =>
            /\ tx[r].step = "commit"
            /\ tx[r].c.guards \notin {None, tx[r].c.group}
            /\ issue[tx[r].c.guards] # None /\ issue[tx[r].c.guards].status = "resolved"
  /\ Ingest!HasEvent(r) => event[tx[r].c.id] = None
TxSound == \A r \in Request : Sound(r)

\* Every stored event has its issue, and the issue counts as many as are stored.
Stored(g) == {e \in Ingest!Id : event[e] = g}
StoredHaveIssues == \A e \in Ingest!Id : event[e] # None => issue[event[e]] # None
CountsAreExact == \A g \in Group :
  /\ IsFiniteSet(Stored(g))
  /\ issue[g] # None => issue[g].count = Cardinality(Stored(g)) /\ notice[g].new = 1
  /\ issue[g] = None => notice[g].new = 0
IngestIInv ==
  /\ IngestTyped /\ LocksApart /\ EventsApart /\ TxSound /\ StoredHaveIssues /\ CountsAreExact
  /\ Ingest!ReopeningsAnnounced

-----------------------------------------------------------------------------
\* What a step leaves of a transaction.
Whole == tx' = [s \in Request |-> tx'[s]]
Made(r, step, c, new, regressed, flipped) ==
  /\ tx'[r] = [step |-> step, c |-> c, new |-> new, regressed |-> regressed, flipped |-> flipped]
  /\ Whole
TxBecomes(r, step, c, new, regressed, flipped) ==
  /\ tx'[r] # None /\ tx'[r].step = step /\ tx'[r].c = c /\ tx'[r].new = new
  /\ tx'[r].regressed = regressed /\ tx'[r].flipped = flipped
  /\ Made(r, step, c, new, regressed, flipped) /\ \A s \in Request : s # r => tx'[s] = tx[s]
Goes(r, step) == TxBecomes(r, step, tx[r].c, tx[r].new, tx[r].regressed, tx[r].flipped)
TxEnds(r) ==
  /\ tx'[r] = None
  /\ Whole /\ \A s \in Request : s # r => tx'[s] = tx[s]
TxOnly(r) ==
  \/ \E c \in Content : Ingest!Arrive(r, c)
  \/ Ingest!Select(r) \/ Ingest!Insert(r) \/ Ingest!Reread(r) \/ Ingest!Update(r)
  \/ Ingest!Store(r) \/ Ingest!Lookup(r) \/ Ingest!Probe(r) \/ Ingest!Abort(r)
       \/ Ingest!LoseAnswer(r)

MayFlip(r) ==
  LET g == tx[r].c.guards IN
  /\ g \notin {None, tx[r].c.group} /\ issue[g] # None /\ issue[g].status = "resolved"
  /\ Ingest!Free(r, g)
\* A transaction under way is a record of its fields.
LEMMA InTx == ASSUME TxOK, NEW r \in Request, tx[r] # None PROVE tx[r] \in Tx
  BY DEF TxOK

\* The fields of a transaction that is built anew.
LEMMA MadeBecomes ==
  ASSUME TxOK, NEW r \in Request, NEW step \in Steps, NEW c \in Content, NEW n \in BOOLEAN,
         NEW g \in BOOLEAN, NEW f \in BOOLEAN, Made(r, step, c, n, g, f),
         \A s \in Request : s # r => tx'[s] = tx[s]
  PROVE  TxBecomes(r, step, c, n, g, f)
<1>1. [step |-> step, c |-> c, new |-> n, regressed |-> g, flipped |-> f] \in Tx
  BY DEF Tx
<1>2. tx'[r] # None
  BY <1>1 DEF Made, TxOK
<1> QED
  BY <1>2 DEF Made, TxBecomes

\* A step to another statement changes nothing else of the transaction.
LEMMA StepGoes ==
  ASSUME TxOK, NEW r \in Request, NEW step \in Steps, tx[r] # None, Ingest!Step(r, step)
  PROVE  Goes(r, step)
  BY InTx DEF TxOK, Whole, Made, TxBecomes, Goes, Ingest!Step, Tx

LEMMA EndEnds == ASSUME TxOK, NEW r \in Request, NEW said, Ingest!End(r, said) PROVE TxEnds(r)
  BY DEF TxOK, Whole, TxEnds, Ingest!End, Ingest!Idle

\* Statement by statement: where a transaction was, what it had found, where it goes.
LEMMA ArriveTx ==
  ASSUME TxOK, NEW r \in Request, NEW c \in Content, Ingest!Arrive(r, c)
  PROVE TxBecomes(r, "select", c, FALSE, FALSE, FALSE)
<1>1. Made(r, "select", c, FALSE, FALSE, FALSE) /\ \A s \in Request : s # r => tx'[s] = tx[s]
  BY DEF Ingest!Arrive, TxOK, Whole, Made
<1> QED
  BY <1>1, MadeBecomes DEF Steps

LEMMA SelectTx ==
  ASSUME TxOK, NEW r \in Request, Ingest!Select(r)
  PROVE  /\ Ingest!At(r, "select")
         /\ \/ Goes(r, "insert")
            \/ /\ issue[tx[r].c.group] # None /\ Ingest!Free(r, tx[r].c.group)
               /\ Goes(r, "update")
<1> USE DEF TxOK, Whole, Made, TxBecomes, Ingest!Idle, Ingest!At
<1>1. /\ Ingest!At(r, "select")
      /\ \/ Ingest!Step(r, "insert")
         \/ issue[tx[r].c.group] # None /\ Ingest!Free(r, tx[r].c.group) /\ Ingest!Step(r, "update")
  BY DEF Ingest!Select
<1> QED
  BY StepGoes, <1>1 DEF Steps

LEMMA InsertTx ==
  ASSUME TxOK, NEW r \in Request, Ingest!Insert(r)
  PROVE  /\ Ingest!At(r, "insert")
         /\ \/ TxEnds(r) \/ Goes(r, "reread")
            \/ /\ issue[tx[r].c.group] = None /\ Ingest!Free(r, tx[r].c.group)
               /\ TxBecomes(r, "event", tx[r].c, TRUE, tx[r].regressed, tx[r].flipped)
<1> USE DEF TxOK, Whole, Made, TxBecomes, Ingest!Idle, Ingest!At
<1>1. /\ Ingest!At(r, "insert")
      /\ \/ Ingest!End(r, "failed") \/ Ingest!Step(r, "reread")
         \/ /\ issue[tx[r].c.group] = None /\ Ingest!Free(r, tx[r].c.group)
            /\ tx' = [tx EXCEPT ![r].step = "event", ![r].new = TRUE]
  BY DEF Ingest!Insert
<1>2. ASSUME tx' = [tx EXCEPT ![r].step = "event", ![r].new = TRUE]
      PROVE  TxBecomes(r, "event", tx[r].c, TRUE, tx[r].regressed, tx[r].flipped)
  <2>0. tx[r] \in Tx
    BY <1>1, InTx
  <2>1. /\ Made(r, "event", tx[r].c, TRUE, tx[r].regressed, tx[r].flipped)
        /\ \A s \in Request : s # r => tx'[s] = tx[s]
    BY <2>0, <1>2 DEF Tx
  <2>2. tx[r].c \in Content /\ tx[r].regressed \in BOOLEAN /\ tx[r].flipped \in BOOLEAN
    BY <2>0 DEF Tx
  <2> HIDE DEF Made, TxBecomes
  <2> QED
    BY <2>1, <2>2, MadeBecomes DEF Steps
<1> QED
  BY StepGoes, EndEnds, <1>1, <1>2 DEF Steps

LEMMA RereadTx ==
  ASSUME TxOK, NEW r \in Request, Ingest!Reread(r)
  PROVE  /\ Ingest!At(r, "reread")
         /\ \/ TxEnds(r)
            \/ /\ issue[tx[r].c.group] # None /\ Ingest!Free(r, tx[r].c.group)
               /\ Goes(r, "update")
<1> USE DEF TxOK, Whole, Made, TxBecomes, Ingest!Idle, Ingest!At
<1>1. /\ Ingest!At(r, "reread")
      /\ \/ Ingest!End(r, "refused")
         \/ issue[tx[r].c.group] # None /\ Ingest!Free(r, tx[r].c.group) /\ Ingest!Step(r, "update")
  BY DEF Ingest!Reread
<1> QED
  BY StepGoes, EndEnds, <1>1 DEF Steps

LEMMA UpdateTx ==
  ASSUME TxOK, NEW r \in Request, Ingest!Update(r)
  PROVE  /\ Ingest!At(r, "update")
         /\ \E regressed \in BOOLEAN :
              /\ regressed => issue[tx[r].c.group].status = "resolved"
              /\ TxBecomes(r, "event", tx[r].c, tx[r].new, regressed, tx[r].flipped)
<1> USE DEF TxOK, Whole, Made, TxBecomes, Ingest!Idle, Ingest!At
<1>1. PICK late \in BOOLEAN :
        tx' = [tx EXCEPT ![r].step = "event",
                 ![r].regressed = issue[tx[r].c.group].status = "resolved" /\ late]
  BY DEF Ingest!Update
<1>2. PICK regressed \in BOOLEAN :
        regressed = (issue[tx[r].c.group].status = "resolved" /\ late)
  OBVIOUS
<1>3. tx' = [tx EXCEPT ![r].step = "event", ![r].regressed = regressed]
  BY <1>1, <1>2
<1>4. Ingest!At(r, "update")
  BY DEF Ingest!Update
<1>5. TxBecomes(r, "event", tx[r].c, tx[r].new, regressed, tx[r].flipped)
  <2>0. tx[r] \in Tx
    BY <1>4, InTx
  <2>1. /\ Made(r, "event", tx[r].c, tx[r].new, regressed, tx[r].flipped)
        /\ \A s \in Request : s # r => tx'[s] = tx[s]
    BY <2>0, <1>3 DEF Tx
  <2>2. tx[r].c \in Content /\ tx[r].new \in BOOLEAN /\ tx[r].flipped \in BOOLEAN
    BY <2>0 DEF Tx
  <2> HIDE DEF Made, TxBecomes
  <2> QED
    BY <2>1, <2>2, MadeBecomes DEF Steps
<1> QED
  BY <1>2, <1>4, <1>5

LEMMA StoreTx ==
  ASSUME TxOK, NEW r \in Request, Ingest!Store(r)
  PROVE  /\ Ingest!At(r, "event")
         /\ \/ Goes(r, "lookup")
            \/ /\ event[tx[r].c.id] = None /\ Goes(r, "probe")
               /\ \A s \in Request \ {r} : Ingest!HasEvent(s) => tx[s].c.id # tx[r].c.id
<1> USE DEF TxOK, Whole, Made, TxBecomes, Ingest!Idle, Ingest!At
<1>1. /\ Ingest!At(r, "event") /\ \A s \in Request \ {r} : Ingest!HasEvent(s)
           => tx[s].c.id # tx[r].c.id
      /\ Ingest!Step(r, "lookup") \/ (event[tx[r].c.id] = None /\ Ingest!Step(r, "probe"))
  BY DEF Ingest!Store, Ingest!There
<1> QED
  BY StepGoes, <1>1 DEF Steps

LEMMA ProbeTx ==
  ASSUME TxOK, NEW r \in Request, Ingest!Probe(r)
  PROVE  /\ Ingest!At(r, "probe")
         /\ \E flips \in BOOLEAN :
              /\ flips => MayFlip(r)
              /\ TxBecomes(r, "commit", tx[r].c, tx[r].new, tx[r].regressed, flips)
<1> USE DEF TxOK, Whole, Made, TxBecomes, Ingest!Idle, Ingest!At
<1> DEFINE g == tx[r].c.guards
           Flips == g # None /\ g # tx[r].c.group /\ issue[g] # None
                    /\ issue[g].status = "resolved"
<1>1. /\ Ingest!At(r, "probe") /\ Flips => Ingest!Free(r, g)
      /\ tx' = [tx EXCEPT ![r].step = "commit", ![r].flipped = Flips]
  BY DEF Ingest!Probe
<1>2. PICK flips \in BOOLEAN : flips = Flips
  OBVIOUS
<1>3. tx' = [tx EXCEPT ![r].step = "commit", ![r].flipped = flips]
  BY <1>1, <1>2
<1>4. Ingest!At(r, "probe")
  BY DEF Ingest!Probe
<1>5. Flips => Ingest!Free(r, g)
  BY DEF Ingest!Probe
<1>6. TxBecomes(r, "commit", tx[r].c, tx[r].new, tx[r].regressed, flips)
  <2>0. tx[r] \in Tx
    BY <1>4, InTx
  <2>1. /\ Made(r, "commit", tx[r].c, tx[r].new, tx[r].regressed, flips)
        /\ \A s \in Request : s # r => tx'[s] = tx[s]
    BY <2>0, <1>3 DEF Tx
  <2>2. tx[r].c \in Content /\ tx[r].new \in BOOLEAN /\ tx[r].regressed \in BOOLEAN
    BY <2>0 DEF Tx
  <2> HIDE DEF Made, TxBecomes
  <2> QED
    BY <2>1, <2>2, MadeBecomes DEF Steps
<1>7. flips => MayFlip(r)
  BY <1>2, <1>5 DEF MayFlip
<1> QED
  BY <1>4, <1>6, <1>7

LEMMA EndTx ==
  ASSUME TxOK, NEW r \in Request, Ingest!Lookup(r) \/ Ingest!Abort(r) \/ Ingest!Commit(r)
  PROVE TxEnds(r)
  BY EndEnds DEF Ingest!Lookup, Ingest!Abort, Ingest!Commit

\* Only a commit, an operator and a deletion write rows.
LEMMA Frames ==
  /\ \A r \in Request : TxOnly(r) => Ingest!Reads
  /\ \A g \in Group, to \in STRING : Ingest!Turn(g, to) =>
       UNCHANGED <<event, notice, tx, answer, reopened>>
  BY DEF TxOnly, Ingest!Arrive, Ingest!Select, Ingest!Insert, Ingest!Reread, Ingest!Update,
      Ingest!Store, Ingest!Lookup, Ingest!Probe, Ingest!Abort, Ingest!LoseAnswer, Ingest!Turn

\* Every step is one of these.
LEMMA IngestStepCases ==
  ASSUME [Ingest!Next]_(Ingest!vars)
  PROVE  \/ UNCHANGED Ingest!vars
         \/ \E r \in Request : TxOnly(r) \/ Ingest!Commit(r)
         \/ \E g \in Group, to \in {"resolved", "ignored", "open"} : Ingest!Turn(g, to)
         \/ \E p : Ingest!Delete(p)
  BY DEF Ingest!Next, TxOnly, Ingest!Resolve, Ingest!SetStatus

\* The transactions keep their form.
LEMMA TxType ==
  ASSUME TxOK, ContentOK, [Ingest!Next]_(Ingest!vars) PROVE TxOK'
<1> USE DEF TxOK
<1>1. ASSUME NEW r \in Request, TxEnds(r) PROVE TxOK'
  BY <1>1 DEF TxEnds, Whole
<1>2. ASSUME NEW r \in Request, NEW step \in Steps, NEW c \in Content, NEW n \in BOOLEAN,
             NEW g \in BOOLEAN, NEW f \in BOOLEAN, TxBecomes(r, step, c, n, g, f)
      PROVE  TxOK'
  <2>1. tx'[r] \in Tx
    BY <1>2 DEF TxBecomes, Made, Tx
  <2> QED
    BY <1>2, <2>1 DEF TxBecomes, Made, Whole
<1>3. ASSUME NEW r \in Request, tx[r] # None
      PROVE  tx[r].c \in Content /\ tx[r].new \in BOOLEAN /\ tx[r].regressed \in BOOLEAN
             /\ tx[r].flipped \in BOOLEAN
  BY <1>3 DEF Tx
<1>4. ASSUME NEW r \in Request, NEW step \in Steps, tx[r] # None, Goes(r, step) PROVE TxOK'
  BY <1>2, <1>3, <1>4 DEF Goes
<1>5. ASSUME NEW r \in Request, TxOnly(r) \/ Ingest!Commit(r) PROVE TxOK'
  <2>1. ASSUME NEW c \in Content, Ingest!Arrive(r, c) PROVE TxOK'
    BY <1>2, <2>1, ArriveTx DEF Steps
  <2>2. CASE Ingest!Select(r) \/ Ingest!Reread(r) \/ Ingest!Store(r)
    BY <1>1, <1>4, <2>2, SelectTx, RereadTx, StoreTx DEF Ingest!At, Ingest!Idle, Steps
  <2>3. CASE Ingest!Insert(r)
    <3>1. tx[r] # None
      BY <2>3 DEF Ingest!Insert, Ingest!At, Ingest!Idle
    <3> QED
      <4>1. CASE Goes(r, "reread")
        BY <1>4, <3>1, <4>1 DEF Steps
      <4>2. CASE TxBecomes(r, "event", tx[r].c, TRUE, tx[r].regressed, tx[r].flipped)
        BY <1>2, <1>3, <3>1, <4>2 DEF Steps
      <4> QED
        BY <1>1, <2>3, <4>1, <4>2, InsertTx
  <2>4. CASE Ingest!Update(r) \/ Ingest!Probe(r)
    <3>1. tx[r] # None
      BY <2>4 DEF Ingest!Update, Ingest!Probe, Ingest!At, Ingest!Idle
    <3> QED
      BY <1>2, <1>3, <2>4, <3>1, UpdateTx, ProbeTx DEF Steps
  <2>5. CASE Ingest!Lookup(r) \/ Ingest!Abort(r) \/ Ingest!Commit(r) \/ Ingest!LoseAnswer(r)
    BY <1>1, <2>5, EndTx DEF Ingest!LoseAnswer
  <2> QED
    BY <1>5, <2>1, <2>2, <2>3, <2>4, <2>5 DEF TxOnly
<1>6. ASSUME UNCHANGED tx PROVE TxOK'
  BY <1>6
<1> QED
  BY <1>5, <1>6, IngestStepCases DEF Ingest!vars, Ingest!Turn, Ingest!Delete

\* A transaction that goes on holds what it held, and what was free.
LEMMA LockSteps ==
  ASSUME TxOK, TxSound, NEW r \in Request, TxOnly(r) \/ Ingest!Commit(r)
  PROVE  /\ \A s \in Request : s # r => tx'[s] = tx[s]
         /\ \A g \in Ingest!Locked(r)' : g \in Ingest!Locked(r) \/ Ingest!Free(r, g)
<1> USE DEF Ingest!Locked, Ingest!HasIssue, Ingest!Idle, Ingest!At
<1>0. Sound(r)
  BY DEF TxSound
<1>1. ASSUME NEW c \in Content, Ingest!Arrive(r, c)
      PROVE  tx'[r].step = "select" /\ \A s \in Request : s # r => tx'[s] = tx[s]
  BY <1>1, ArriveTx DEF TxBecomes
<1>2. CASE TxEnds(r)
  BY <1>2 DEF TxEnds
<1>3. CASE Ingest!Select(r) \/ Ingest!Reread(r)
  BY <1>0, <1>2, <1>3, SelectTx, RereadTx DEF Goes, TxBecomes, Sound
<1>4. CASE Ingest!Insert(r)
  <2>1. CASE Goes(r, "reread")
    BY <2>1 DEF Goes, TxBecomes
  <2>2. CASE /\ Ingest!Free(r, tx[r].c.group)
             /\ TxBecomes(r, "event", tx[r].c, TRUE, tx[r].regressed, tx[r].flipped)
    BY <1>0, <1>4, <2>2 DEF TxBecomes, Sound, Ingest!Insert
  <2> QED
    BY <1>2, <1>4, <2>1, <2>2, InsertTx
<1>5. CASE Ingest!Update(r) \/ Ingest!Store(r)
  BY <1>0, <1>5, UpdateTx, StoreTx DEF Goes, TxBecomes, Sound
<1>6. CASE Ingest!Probe(r)
  BY <1>0, <1>6, ProbeTx DEF TxBecomes, Sound, MayFlip
<1>7. CASE Ingest!Lookup(r) \/ Ingest!Abort(r) \/ Ingest!Commit(r)
  BY <1>2, <1>7, EndTx
<1>8. CASE Ingest!LoseAnswer(r)
  BY <1>8 DEF Ingest!LoseAnswer
<1>9. CASE \E c \in Content : Ingest!Arrive(r, c)
  BY <1>1, <1>9
<1> QED
  BY <1>3, <1>4, <1>5, <1>6, <1>7, <1>8, <1>9 DEF TxOnly

\* Hence no row comes to belong to two transactions,
LEMMA LocksStep ==
  ASSUME TxOK, TxSound, LocksApart, [Ingest!Next]_(Ingest!vars) PROVE LocksApart'
<1>1. CASE UNCHANGED tx
  BY <1>1, SMTT(30) DEF LocksApart, Ingest!Locked, Ingest!HasIssue
<1>2. ASSUME NEW r \in Request, TxOnly(r) \/ Ingest!Commit(r) PROVE LocksApart'
  <2>1. /\ \A s \in Request : s # r => tx'[s] = tx[s]
        /\ \A g \in Ingest!Locked(r)' : g \in Ingest!Locked(r) \/ Ingest!Free(r, g)
    BY <1>2, LockSteps
  <2>2. \A s \in Request : s # r => Ingest!Locked(s)' = Ingest!Locked(s)
    BY <2>1 DEF Ingest!Locked, Ingest!HasIssue
  <2>3. ASSUME NEW s \in Request, s # r PROVE Ingest!Locked(r)' \cap Ingest!Locked(s)' = {}
    <3>1. \A g \in Ingest!Locked(r)' : g \notin Ingest!Locked(s)
      BY <2>1, <2>3 DEF Ingest!Free, LocksApart
    <3> QED
      BY <2>2, <2>3, <3>1
  <2> QED
    BY <2>2, <2>3 DEF LocksApart
<1> QED
  BY <1>1, <1>2, IngestStepCases DEF Ingest!vars, Ingest!Turn, Ingest!Delete

\* and no event id: the statement that inserts it waits for others that did.
LEMMA EventsStep ==
  ASSUME TxOK, EventsApart, [Ingest!Next]_(Ingest!vars) PROVE EventsApart'
<1>1. CASE UNCHANGED tx
  BY <1>1 DEF EventsApart, Ingest!HasEvent
<1>2. ASSUME NEW r \in Request, TxOnly(r) \/ Ingest!Commit(r) PROVE EventsApart'
  <2>1. /\ \A s \in Request : s # r => tx'[s] = tx[s]
        /\ Ingest!HasEvent(r)' =>
             /\ tx'[r].c = tx[r].c
             /\ \/ Ingest!HasEvent(r)
                \/ \A s \in Request \ {r} : Ingest!HasEvent(s) => tx[s].c.id # tx[r].c.id
    <3> USE DEF Ingest!HasEvent, Ingest!At, Ingest!Idle
    <3>1. ASSUME NEW c \in Content, Ingest!Arrive(r, c)
          PROVE  tx'[r].step = "select" /\ \A s \in Request : s # r => tx'[s] = tx[s]
      BY <3>1, ArriveTx DEF TxBecomes
    <3>2. CASE Ingest!Select(r) \/ Ingest!Reread(r) \/ Ingest!Insert(r)
      BY <3>2, SelectTx, InsertTx, RereadTx DEF Goes, TxBecomes, TxEnds
    <3>3. CASE Ingest!Update(r) \/ Ingest!Store(r)
      BY <3>3, UpdateTx, StoreTx DEF Goes, TxBecomes
    <3>4. CASE Ingest!Probe(r)
      BY <3>4, ProbeTx DEF TxBecomes
    <3>5. CASE Ingest!Lookup(r) \/ Ingest!Abort(r) \/ Ingest!Commit(r) \/ Ingest!LoseAnswer(r)
      BY <3>5, EndTx DEF TxEnds, Ingest!LoseAnswer
    <3>6. CASE \E c \in Content : Ingest!Arrive(r, c)
      BY <3>1, <3>6
    <3> QED
      BY <1>2, <3>2, <3>3, <3>4, <3>5, <3>6 DEF TxOnly
  <2>2. \A s \in Request : s # r => (Ingest!HasEvent(s)' <=> Ingest!HasEvent(s))
    BY <2>1 DEF Ingest!HasEvent
  <2> QED
    BY <2>1, <2>2 DEF EventsApart
<1> QED
  BY <1>1, <1>2, IngestStepCases DEF Ingest!vars, Ingest!Turn, Ingest!Delete

\* What a transaction relies on lasts while its rows are its own.
LEMMA SoundStays ==
  ASSUME NEW r \in Request, Sound(r), tx'[r] = tx[r],
         \A g \in Ingest!Locked(r) : issue'[g] = issue[g],
         Ingest!HasEvent(r) => event'[tx[r].c.id] = event[tx[r].c.id]
  PROVE  Sound(r)'
<1>1. Ingest!HasIssue(r)' = Ingest!HasIssue(r) /\ Ingest!HasEvent(r)' = Ingest!HasEvent(r)
  BY DEF Ingest!HasIssue, Ingest!HasEvent
<1>2. Ingest!HasIssue(r) => issue'[tx[r].c.group] = issue[tx[r].c.group]
  BY DEF Ingest!Locked
<1>3. Ingest!HasIssue(r) /\ tx[r].flipped => issue'[tx[r].c.guards] = issue[tx[r].c.guards]
  BY DEF Ingest!Locked
<1> QED
  BY <1>1, <1>2, <1>3 DEF Sound

\* What a transaction has read is true when it has read it.
LEMMA SoundTx ==
  ASSUME TxOK, TxSound, NEW r \in Request, TxOnly(r) PROVE TxSound'
<1>1. UNCHANGED <<issue, event>>
  BY Frames DEF Ingest!Reads
<1>2. \A s \in Request : s # r => tx'[s] = tx[s]
  BY LockSteps
<1>3. ASSUME NEW s \in Request, s # r PROVE Sound(s)'
  BY <1>1, <1>2, <1>3, SoundStays DEF TxSound
<1>4. Sound(r)'
  <2> USE DEF Ingest!HasIssue, Ingest!HasEvent, Ingest!Idle, Ingest!At
  <2>0. Sound(r)
    BY DEF TxSound
  <2>1. CASE TxEnds(r)
    BY <2>1 DEF TxEnds, Sound
  <2>2. ASSUME NEW c \in Content, Ingest!Arrive(r, c) PROVE Sound(r)'
    BY <2>2, ArriveTx DEF TxBecomes, Sound
  <2>3. CASE Ingest!Select(r)
    BY <1>1, <2>0, <2>3, SelectTx DEF Goes, TxBecomes, Sound
  <2>4. CASE Ingest!Insert(r)
    BY <1>1, <2>0, <2>1, <2>4, InsertTx DEF Goes, TxBecomes, Sound
  <2>5. CASE Ingest!Reread(r)
    BY <1>1, <2>0, <2>1, <2>5, RereadTx DEF Goes, TxBecomes, Sound
  <2>6. CASE Ingest!Update(r)
    BY <1>1, <2>0, <2>6, UpdateTx DEF TxBecomes, Sound
  <2>7. CASE Ingest!Store(r)
    BY <1>1, <2>0, <2>7, StoreTx DEF Goes, TxBecomes, Sound
  <2>8. CASE Ingest!Probe(r)
    BY <1>1, <2>0, <2>8, ProbeTx DEF TxBecomes, Sound, MayFlip
  <2>9. CASE Ingest!Lookup(r) \/ Ingest!Abort(r)
    BY <2>1, <2>9, EndTx
  <2>10. CASE Ingest!LoseAnswer(r)
    BY <1>1, <2>0, <2>10, SoundStays DEF Ingest!LoseAnswer
  <2> QED
    BY <2>2, <2>3, <2>4, <2>5, <2>6, <2>7, <2>8, <2>9, <2>10 DEF TxOnly
<1> QED
  BY <1>3, <1>4 DEF TxSound

\* What a commit writes: its own issue, the one it reopens, and its event.
LEMMA CommitWrites ==
  ASSUME TxOK, IssueOK, ContentOK, NEW r \in Request, Sound(r), Ingest!Commit(r)
  PROVE  /\ tx[r] \in Tx /\ tx[r] # None /\ tx[r].step = "commit"
         /\ Ingest!HasIssue(r) /\ Ingest!HasEvent(r)
         /\ tx[r].c \in Content /\ tx[r].c.group \in Group /\ tx[r].c.id \in Ingest!Id
         /\ issue' \in [Group -> IssueRow \cup {None}]
         /\ \A g \in Group \ Ingest!Locked(r) : issue'[g] = issue[g]
         /\ issue'[tx[r].c.group] # None
         /\ issue'[tx[r].c.group].count =
              IF tx[r].new THEN 1 ELSE issue[tx[r].c.group].count + 1
         /\ \A g \in Group : g # tx[r].c.group => (issue'[g] = None <=> issue[g] = None)
         /\ \A g \in Group : g # tx[r].c.group /\ issue[g] # None =>
              issue'[g].count = issue[g].count
         /\ \A g \in Group : Ingest!Reopens(r, g) => issue[g] # None /\ issue[g].status = "resolved"
<1> DEFINE c == tx[r].c
<1>1. tx[r] # None /\ tx[r] \in Tx /\ tx[r].step = "commit"
  BY DEF Ingest!Commit, Ingest!At, Ingest!Idle, TxOK
<1>2. Ingest!HasIssue(r) /\ Ingest!HasEvent(r)
  BY <1>1 DEF Ingest!HasIssue, Ingest!HasEvent, Ingest!Idle
<1>3. c \in Content /\ tx[r].new \in BOOLEAN /\ tx[r].flipped \in BOOLEAN
      /\ tx[r].regressed \in BOOLEAN
  BY <1>1 DEF Tx
<1>4. c.group \in Group /\ c.id \in Ingest!Id /\ c.guards \in Group \cup {None}
  BY <1>3 DEF ContentOK
<1>5. /\ tx[r].new => issue[c.group] = None /\ ~tx[r].regressed
      /\ ~tx[r].new => issue[c.group] # None
      /\ tx[r].regressed => issue[c.group].status = "resolved"
      /\ tx[r].flipped => /\ c.guards \notin {None, c.group} /\ issue[c.guards] # None
                         /\ issue[c.guards].status = "resolved"
  BY <1>2 DEF Sound
<1>6. issue' = [g \in Group |-> Ingest!Row(r, g)]
  BY DEF Ingest!Commit
<1>7. Ingest!Row(r, c.group) = [status |-> IF tx[r].new \/ tx[r].regressed THEN "open"
                                   ELSE issue[c.group].status,
                         count |-> IF tx[r].new THEN 1 ELSE issue[c.group].count + 1]
  <2>1. ~Ingest!Flipped(r, c.group)
    BY <1>5 DEF Ingest!Flipped
  <2>2. Ingest!Counted(r, c.group) = IF tx[r].new THEN 1 ELSE issue[c.group].count + 1
    BY <1>3, <1>5 DEF Ingest!Counted
  <2> QED
    BY <2>1, <2>2 DEF Ingest!Row
<1>8. \A g \in Group : g # c.group /\ ~Ingest!Flipped(r, g) => Ingest!Row(r, g) = issue[g]
  BY DEF Ingest!Row
<1>9. \A g \in Group : g # c.group /\ Ingest!Flipped(r, g) =>
        Ingest!Row(r, g) = [issue[g] EXCEPT !.status = "open"]
  BY DEF Ingest!Row
<1>10. \A g \in Group : issue[g] # None => issue[g] \in IssueRow
  BY DEF IssueOK
<1>11. Ingest!Row(r, c.group) \in IssueRow
  <2>1. ~tx[r].new => issue[c.group] \in IssueRow
    BY <1>4, <1>5, <1>10
  <2> QED
    BY <1>3, <1>7, <2>1 DEF IssueRow
<1>12. \A g \in Group : Ingest!Flipped(r, g) => issue[g] \in IssueRow /\ g # c.group
                                      /\ issue[g].status = "resolved" /\ g \in Ingest!Locked(r)
  BY <1>2, <1>5, <1>10 DEF Ingest!Flipped, Ingest!Locked
<1>13. \A g \in Group : g # c.group /\ Ingest!Flipped(r, g) =>
         Ingest!Row(r, g) \in IssueRow /\ Ingest!Row(r, g).count = issue[g].count
  <2> SUFFICES ASSUME NEW g \in Group, g # c.group, Ingest!Flipped(r, g)
               PROVE  Ingest!Row(r, g) \in IssueRow /\ Ingest!Row(r, g).count = issue[g].count
    OBVIOUS
  <2>1. issue[g] \in IssueRow /\ Ingest!Row(r, g) = [issue[g] EXCEPT !.status = "open"]
    BY <1>9, <1>12
  <2> QED
    BY <2>1 DEF IssueRow
<1>14. None \notin IssueRow
  BY DEF IssueOK
<1>15. issue' \in [Group -> IssueRow \cup {None}]
  <2> SUFFICES ASSUME NEW g \in Group PROVE Ingest!Row(r, g) \in IssueRow \cup {None}
    BY <1>6
  <2> QED
    BY <1>8, <1>10, <1>11, <1>13
<1>16. \A g \in Group \ Ingest!Locked(r) : issue'[g] = issue[g]
  <2>1. c.group \in Ingest!Locked(r)
    BY <1>2 DEF Ingest!Locked
  <2> QED
    BY <1>6, <1>8, <1>12, <2>1
<1>17. issue'[c.group] # None
       /\ issue'[c.group].count = IF tx[r].new THEN 1 ELSE issue[c.group].count + 1
  BY <1>4, <1>6, <1>7, <1>11, <1>14
<1>18. \A g \in Group : g # c.group => (issue'[g] = None <=> issue[g] = None)
  BY <1>6, <1>8, <1>12, <1>13, <1>14
<1>19. \A g \in Group : g # c.group /\ issue[g] # None => issue'[g].count = issue[g].count
  BY <1>6, <1>8, <1>13
<1>20. \A g \in Group : Ingest!Reopens(r, g) => issue[g] # None /\ issue[g].status = "resolved"
  BY <1>3, <1>5, <1>12, <1>14 DEF Ingest!Reopens
<1> QED
  BY <1>1, <1>2, <1>3, <1>4, <1>15, <1>16, <1>17, <1>18, <1>19, <1>20

\* The rows keep their form.
LEMMA IngestRestStep ==
  ASSUME IngestTyped, ContentOK, TxSound, [Ingest!Next]_(Ingest!vars)
  PROVE IssueOK' /\ IngestRestOK'
<1> USE DEF IngestTyped
<1>1. CASE UNCHANGED Ingest!vars
  BY <1>1 DEF Ingest!vars, IssueOK, IngestRestOK
<1>2. ASSUME NEW r \in Request, TxOnly(r) PROVE IssueOK' /\ IngestRestOK'
  <2>1. UNCHANGED <<issue, event, notice, reopened>>
    BY <1>2, Frames DEF Ingest!Reads
  <2>2. answer' \in [Request -> {None, "accepted", "refused", "failed"}]
    BY <1>2 DEF TxOnly, Ingest!Arrive, Ingest!Select, Ingest!Insert, Ingest!Reread, Ingest!Update,
        Ingest!Store, Ingest!Lookup, Ingest!Probe, Ingest!Abort,
                Ingest!LoseAnswer, Ingest!End, IngestRestOK
  <2> QED
    BY <2>1, <2>2 DEF IssueOK, IngestRestOK
<1>3. ASSUME NEW r \in Request, Ingest!Commit(r) PROVE IssueOK' /\ IngestRestOK'
  <2>1. Sound(r)
    BY DEF TxSound
  <2>2. /\ issue' \in [Group -> IssueRow \cup {None}]
        /\ tx[r].c.group \in Group /\ tx[r].c.id \in Ingest!Id
    BY <1>3, <2>1, CommitWrites
  <2>3. event' \in [Ingest!Id -> Group \cup {None}]
    BY <1>3, <2>2 DEF Ingest!Commit, IngestRestOK
  <2>4. notice' \in [Group -> [new : Nat, regressed : Nat]]
    <3>1. \A g \in Group : notice[g].new \in Nat /\ notice[g].regressed \in Nat
      BY DEF IngestRestOK
    <3> QED
      BY <1>3, <3>1 DEF Ingest!Commit
  <2>5. reopened' \in [Group -> Nat]
    <3>1. \A g \in Group : reopened[g] \in Nat
      BY DEF IngestRestOK
    <3> QED
      BY <1>3, <3>1 DEF Ingest!Commit
  <2>6. answer' \in [Request -> {None, "accepted", "refused", "failed"}]
    BY <1>3 DEF Ingest!Commit, Ingest!End, IngestRestOK
  <2> QED
    BY <2>2, <2>3, <2>4, <2>5, <2>6 DEF IssueOK, IngestRestOK
<1>4. ASSUME NEW g \in Group, NEW to \in {"resolved", "ignored", "open"}, Ingest!Turn(g, to)
      PROVE  IssueOK' /\ IngestRestOK'
  <2>1. issue[g] \in IssueRow
    BY <1>4 DEF Ingest!Turn, IssueOK
  <2>2. issue' = [issue EXCEPT ![g].status = to]
    BY <1>4 DEF Ingest!Turn
  <2>3. issue' \in [Group -> IssueRow \cup {None}]
    BY <2>1, <2>2 DEF IssueOK, IssueRow
  <2> QED
    BY <1>4, <2>3 DEF Ingest!Turn, IssueOK, IngestRestOK
<1>5. ASSUME NEW p, Ingest!Delete(p) PROVE IssueOK' /\ IngestRestOK'
  <2>1. issue' \in [Group -> IssueRow \cup {None}]
    BY <1>5 DEF Ingest!Delete, IssueOK
  <2>2. event' \in [Ingest!Id -> Group \cup {None}]
    BY <1>5 DEF Ingest!Delete, IngestRestOK
  <2>3. notice' \in [Group -> [new : Nat, regressed : Nat]]
    BY <1>5 DEF Ingest!Delete, IngestRestOK
  <2>4. reopened' \in [Group -> Nat] /\ answer' = answer
    BY <1>5 DEF Ingest!Delete, IngestRestOK
  <2> QED
    BY <2>1, <2>2, <2>3, <2>4 DEF IssueOK, IngestRestOK
<1> QED
  BY <1>1, <1>2, <1>3, <1>4, <1>5, IngestStepCases

\* What others do leaves alone the rows of a transaction.
LEMMA SoundStep ==
  ASSUME IngestTyped, ContentOK, TxSound, LocksApart, EventsApart, [Ingest!Next]_(Ingest!vars)
  PROVE TxSound'
<1> USE DEF IngestTyped
<1>1. CASE UNCHANGED Ingest!vars
  BY <1>1, SoundStays DEF TxSound, Ingest!vars
<1>2. ASSUME NEW r \in Request, Ingest!Commit(r), NEW s \in Request PROVE Sound(s)'
  <2>1. Sound(r) /\ Sound(s)
    BY DEF TxSound
  <2>2. CASE s = r
    <3>1. TxEnds(r)
      BY <1>2, EndTx
    <3> QED
      BY <2>2, <3>1 DEF TxEnds, Sound, Ingest!HasIssue, Ingest!HasEvent, Ingest!Idle
  <2>3. CASE s # r
    <3>1. tx'[s] = tx[s]
      BY <1>2, <2>3, EndTx DEF TxEnds
    <3>2. \A g \in Group \ Ingest!Locked(r) : issue'[g] = issue[g]
      BY <1>2, <2>1, CommitWrites
    <3>3. Ingest!Locked(s) \subseteq Group \ Ingest!Locked(r)
      <4>1. tx[s] # None => tx[s].c \in Content
        BY DEF TxOK, Tx
      <4>2. Ingest!Locked(s) \subseteq Group
        BY <2>1, <4>1 DEF Ingest!Locked, Ingest!HasIssue, Ingest!Idle, Sound, ContentOK
      <4> QED
        BY <2>3, <4>2 DEF LocksApart
    <3>4. Ingest!HasEvent(s) => event'[tx[s].c.id] = event[tx[s].c.id]
      <4>1. Ingest!HasEvent(r) /\ event' = [event EXCEPT ![tx[r].c.id] = tx[r].c.group]
        BY <1>2, <2>1, CommitWrites DEF Ingest!Commit
      <4>2. Ingest!HasEvent(s) => tx[s].c.id # tx[r].c.id
        BY <2>3, <4>1 DEF EventsApart
      <4>3. Ingest!HasEvent(s) => tx[s].c.id \in Ingest!Id
        BY DEF Ingest!HasEvent, TxOK, Tx, ContentOK, Ingest!Idle
      <4> QED
        BY <4>1, <4>2, <4>3 DEF IngestRestOK
    <3> QED
      BY <2>1, <3>1, <3>2, <3>3, <3>4, SoundStays
  <2> QED
    BY <2>2, <2>3
<1>3. ASSUME NEW g \in Group, NEW to \in {"resolved", "ignored", "open"}, Ingest!Turn(g, to),
             NEW s \in Request
      PROVE  Sound(s)'
  <2>1. Sound(s) /\ UNCHANGED <<tx, event>> /\ g \notin Ingest!Locked(s)
        /\ issue' = [issue EXCEPT ![g].status = to]
    BY <1>3 DEF TxSound, Ingest!Turn
  <2>2. Ingest!Locked(s) \subseteq Group
    BY <2>1 DEF Ingest!Locked, Ingest!HasIssue, Ingest!Idle, Sound, ContentOK, TxOK, Tx
  <2> QED
    BY <2>1, <2>2, SoundStays DEF IssueOK
<1>4. ASSUME NEW p, Ingest!Delete(p), NEW s \in Request PROVE Sound(s)'
  <2>1. Sound(s) /\ UNCHANGED tx
    BY <1>4 DEF TxSound, Ingest!Delete
  <2>2. Ingest!Locked(s) \subseteq Group
    BY <2>1 DEF Ingest!Locked, Ingest!HasIssue, Ingest!Idle, Sound, ContentOK, TxOK, Tx
  <2>3. \A g \in Ingest!Locked(s) : issue'[g] = issue[g]
    BY <1>4, <2>2 DEF Ingest!Delete
  <2>4. Ingest!HasEvent(s) => event'[tx[s].c.id] = event[tx[s].c.id]
    <3>1. Ingest!HasEvent(s) => tx[s].c.id \in Ingest!Id /\ event[tx[s].c.id] = None
      BY <2>1 DEF Ingest!HasEvent, TxOK, Tx, ContentOK, Ingest!Idle, Sound
    <3>2. \A e \in Ingest!Id : event[e] = None => event'[e] = None
      BY <1>4 DEF Ingest!Delete
    <3> QED
      BY <3>1, <3>2
  <2> QED
    BY <2>1, <2>3, <2>4, SoundStays
<1>5. ASSUME NEW r \in Request, TxOnly(r) PROVE TxSound'
  BY <1>5, SoundTx
<1> QED
  BY <1>1, <1>2, <1>3, <1>4, <1>5, IngestStepCases DEF TxSound

\* An event is stored with its issue, and goes with it.
LEMMA StoredStep ==
  ASSUME IngestTyped, ContentOK, TxSound, StoredHaveIssues, [Ingest!Next]_(Ingest!vars)
  PROVE StoredHaveIssues'
<1> USE DEF IngestTyped
<1>1. ASSUME NEW r \in Request, Ingest!Commit(r) PROVE StoredHaveIssues'
  <2>1. Sound(r)
    BY DEF TxSound
  <2>2. /\ tx[r].c.group \in Group /\ tx[r].c.id \in Ingest!Id
        /\ issue'[tx[r].c.group] # None
        /\ \A g \in Group : g # tx[r].c.group => (issue'[g] = None <=> issue[g] = None)
    BY <1>1, <2>1, CommitWrites
  <2>3. event' = [event EXCEPT ![tx[r].c.id] = tx[r].c.group]
    BY <1>1 DEF Ingest!Commit
  <2>4. event \in [Ingest!Id -> Group \cup {None}]
    BY DEF IngestRestOK
  <2>5. ASSUME NEW e \in Ingest!Id, event'[e] # None PROVE issue'[event'[e]] # None
    <3>1. CASE e = tx[r].c.id
      BY <2>2, <2>3, <2>4, <3>1
    <3>2. CASE e # tx[r].c.id
      <4>1. event'[e] = event[e] /\ event[e] \in Group /\ issue[event[e]] # None
        BY <2>3, <2>4, <2>5, <3>2 DEF StoredHaveIssues
      <4> QED
        BY <2>2, <4>1
    <3> QED
      BY <3>1, <3>2
  <2> QED
    BY <2>5 DEF StoredHaveIssues
<1>2. ASSUME NEW g \in Group, NEW to \in {"resolved", "ignored", "open"}, Ingest!Turn(g, to)
      PROVE  StoredHaveIssues'
  <2>1. event' = event /\ issue' = [issue EXCEPT ![g].status = to] /\ issue[g] # None
    BY <1>2 DEF Ingest!Turn
  <2>2. issue' \in [Group -> IssueRow \cup {None}] /\ issue[g] \in IssueRow /\ None \notin IssueRow
    BY <2>1, IngestRestStep DEF IssueOK
  <2>3. [issue[g] EXCEPT !.status = to] \in IssueRow
    BY <2>2 DEF IssueRow
  <2>4. \A h \in Group : issue'[h] = None => issue[h] = None
    BY <2>1, <2>2, <2>3 DEF IssueOK
  <2> QED
    BY <2>1, <2>4 DEF StoredHaveIssues, IngestRestOK
<1>3. ASSUME NEW p, Ingest!Delete(p) PROVE StoredHaveIssues'
  <2>1. \A e \in Ingest!Id : event'[e] # None =>
          event'[e] = event[e] /\ event[e] \in Group /\ Owner[event[e]] # p
    BY <1>3 DEF Ingest!Delete, IngestRestOK
  <2>2. \A g \in Group : Owner[g] # p => issue'[g] = issue[g]
    BY <1>3 DEF Ingest!Delete
  <2> QED
    BY <2>1, <2>2 DEF StoredHaveIssues
<1>4. CASE UNCHANGED <<issue, event>>
  BY <1>4 DEF StoredHaveIssues
<1> QED
  BY <1>1, <1>2, <1>3, <1>4, IngestStepCases, Frames DEF Ingest!vars, Ingest!Reads

\* An issue counts its events: a new one those of nobody, as no event is stored in a
\* group without an issue.
LEMMA CountsStep ==
  ASSUME IngestTyped, ContentOK, TxSound, StoredHaveIssues, CountsAreExact,
         [Ingest!Next]_(Ingest!vars)
  PROVE  CountsAreExact'
<1> USE DEF IngestTyped
<1>0. /\ event \in [Ingest!Id -> Group \cup {None}] /\ None \notin Group
      /\ \A g \in Group : notice[g].new \in Nat
  BY DEF IngestRestOK, ContentOK
<1>1. ASSUME NEW r \in Request, Ingest!Commit(r) PROVE CountsAreExact'
  <2>1. Sound(r)
    BY DEF TxSound
  <2>0. PICK k \in Group, i \in Ingest!Id, n \in BOOLEAN :
          k = tx[r].c.group /\ i = tx[r].c.id /\ n = tx[r].new
    BY <1>1, <2>1, CommitWrites DEF Tx
  <2>2. /\ Ingest!HasIssue(r) /\ Ingest!HasEvent(r)
        /\ issue'[k] # None
        /\ issue'[k].count = IF n THEN 1 ELSE issue[k].count + 1
        /\ \A g \in Group : g # k => (issue'[g] = None <=> issue[g] = None)
        /\ \A g \in Group : g # k /\ issue[g] # None => issue'[g].count = issue[g].count
    BY <1>1, <2>0, <2>1, CommitWrites
  <2>3. event' = [event EXCEPT ![i] = k] /\ event[i] = None
    BY <1>1, <2>0, <2>1, <2>2 DEF Ingest!Commit, Sound
  <2>4. \A g \in Group : notice'[g].new = notice[g].new + IF n /\ g = k THEN 1 ELSE 0
    BY <1>1, <2>0 DEF Ingest!Commit
  <2>5. Stored(k)' = Stored(k) \cup {i} /\ i \notin Stored(k)
    BY <1>0, <2>2, <2>3 DEF Stored
  <2>6. \A g \in Group : g # k => Stored(g)' = Stored(g)
    BY <1>0, <2>2, <2>3 DEF Stored
  <2>7. /\ n => issue[k] = None
        /\ ~n => issue[k] # None
    BY <2>0, <2>1, <2>2 DEF Sound
  <2>8. IsFiniteSet(Stored(k))
    BY <2>2 DEF CountsAreExact
  <2>9. IsFiniteSet(Stored(k)') /\ Cardinality(Stored(k)') = Cardinality(Stored(k)) + 1
    BY <2>5, <2>8, FS_AddElement
  <2>10. n => Cardinality(Stored(k)) = 0
    <3>1. ASSUME n PROVE Stored(k) = {}
      BY <1>0, <2>7, <3>1 DEF StoredHaveIssues, Stored
    <3> QED
      BY <3>1, FS_EmptySet
  <2>11. issue'[k].count = Cardinality(Stored(k)') /\ notice'[k].new = 1
    <3>1. CASE n
      <4>1. notice[k].new = 0
        BY <2>2, <2>7, <3>1 DEF CountsAreExact
      <4> QED
        BY <2>2, <2>4, <2>9, <2>10, <3>1, <4>1
    <3>2. CASE ~n
      <4>1. issue[k].count = Cardinality(Stored(k)) /\ notice[k].new = 1
        BY <2>2, <2>7, <3>2 DEF CountsAreExact
      <4> QED
        BY <2>2, <2>4, <2>9, <3>2, <4>1
    <3> QED
      BY <3>1, <3>2
  <2>12. ASSUME NEW g \in Group, g # k
         PROVE  /\ IsFiniteSet(Stored(g)')
                /\ issue'[g] # None =>
                     issue'[g].count = Cardinality(Stored(g)') /\ notice'[g].new = 1
                /\ issue'[g] = None => notice'[g].new = 0
    <3>1. notice'[g].new = notice[g].new
      BY <1>0, <2>4, <2>12
    <3> QED
      BY <2>2, <2>6, <2>12, <3>1 DEF CountsAreExact
  <2>13. ASSUME NEW g \in Group, g = k
         PROVE  /\ IsFiniteSet(Stored(g)')
                /\ issue'[g] # None =>
                     issue'[g].count = Cardinality(Stored(g)') /\ notice'[g].new = 1
                /\ issue'[g] = None => notice'[g].new = 0
    BY <2>2, <2>9, <2>11, <2>13
  <2> QED
    BY <2>12, <2>13 DEF CountsAreExact
<1>2. ASSUME NEW g \in Group, NEW to \in {"resolved", "ignored", "open"}, Ingest!Turn(g, to)
      PROVE  CountsAreExact'
  <2>1. UNCHANGED <<event, notice>> /\ issue' = [issue EXCEPT ![g].status = to] /\ issue[g] # None
    BY <1>2 DEF Ingest!Turn
  <2>2. issue[g] \in IssueRow /\ None \notin IssueRow
    BY <2>1 DEF IssueOK
  <2>3. /\ [issue[g] EXCEPT !.status = to] \in IssueRow
        /\ [issue[g] EXCEPT !.status = to].count = issue[g].count
    BY <2>2 DEF IssueRow
  <2>4. \A h \in Group : /\ issue'[h] = None <=> issue[h] = None
                         /\ issue[h] # None => issue'[h].count = issue[h].count
    BY <2>1, <2>2, <2>3 DEF IssueOK
  <2>5. \A h \in Group : Stored(h)' = Stored(h)
    BY <2>1 DEF Stored
  <2> QED
    <3> SUFFICES ASSUME NEW h \in Group
                 PROVE  /\ IsFiniteSet(Stored(h)')
                        /\ issue'[h] # None =>
                             issue'[h].count = Cardinality(Stored(h)') /\ notice'[h].new = 1
                        /\ issue'[h] = None => notice'[h].new = 0
      BY DEF CountsAreExact
    <3>1. /\ IsFiniteSet(Stored(h))
          /\ issue[h] # None => issue[h].count = Cardinality(Stored(h)) /\ notice[h].new = 1
          /\ issue[h] = None => notice[h].new = 0
      BY DEF CountsAreExact
    <3>2. Stored(h)' = Stored(h) /\ notice' = notice
      BY <2>1, <2>5
    <3>3. /\ issue'[h] = None <=> issue[h] = None
          /\ issue[h] # None => issue'[h].count = issue[h].count
      BY <2>4
    <3> QED
      BY <3>1, <3>2, <3>3
<1>3. ASSUME NEW p, Ingest!Delete(p) PROVE CountsAreExact'
  <2>1. \A g \in Group : Owner[g] = p => issue'[g] = None /\ notice'[g].new = 0
    BY <1>3 DEF Ingest!Delete
  <2>2. \A g \in Group : Owner[g] # p => issue'[g] = issue[g] /\ notice'[g] = notice[g]
    BY <1>3 DEF Ingest!Delete
  <2>3. \A g \in Group : Owner[g] = p => Stored(g)' = {}
    BY <1>0, <1>3 DEF Ingest!Delete, Stored
  <2>4. \A g \in Group : Owner[g] # p => Stored(g)' = Stored(g)
    BY <1>0, <1>3 DEF Ingest!Delete, Stored
  <2> QED
    BY <2>1, <2>2, <2>3, <2>4, FS_EmptySet DEF CountsAreExact
<1>4. CASE UNCHANGED <<issue, event, notice>>
  BY <1>4 DEF CountsAreExact, Stored
<1> QED
  BY <1>1, <1>2, <1>3, <1>4, IngestStepCases, Frames DEF Ingest!vars, Ingest!Reads

\* An issue that a commit reopens was resolved, and is announced as regressed.
LEMMA ReopenStep ==
  ASSUME IngestTyped, ContentOK, TxSound, Ingest!ReopeningsAnnounced, [Ingest!Next]_(Ingest!vars)
  PROVE Ingest!ReopeningsAnnounced'
<1> USE DEF IngestTyped
<1>1. ASSUME NEW r \in Request, Ingest!Commit(r), NEW g \in Group
      PROVE  notice'[g].regressed = reopened'[g]
  <2>1. Sound(r)
    BY DEF TxSound
  <2>2. Ingest!Reopens(r, g) => issue[g] # None /\ issue[g].status = "resolved"
    BY <1>1, <2>1, CommitWrites
  <2>3. notice'[g].regressed = notice[g].regressed + IF Ingest!Reopens(r, g) THEN 1 ELSE 0
    BY <1>1 DEF Ingest!Commit, Ingest!Announces
  <2>4. reopened'[g] = reopened[g] + IF issue[g] # None /\ issue[g].status = "resolved"
                                       /\ Ingest!Reopens(r, g) THEN 1 ELSE 0
    BY <1>1 DEF Ingest!Commit
  <2> QED
    BY <2>2, <2>3, <2>4 DEF Ingest!ReopeningsAnnounced
<1>2. ASSUME NEW p, Ingest!Delete(p) PROVE Ingest!ReopeningsAnnounced'
  BY <1>2 DEF Ingest!Delete, Ingest!ReopeningsAnnounced
<1>3. CASE UNCHANGED <<notice, reopened>>
  BY <1>3 DEF Ingest!ReopeningsAnnounced
<1> QED
  BY <1>1, <1>2, <1>3, IngestStepCases, Frames DEF Ingest!ReopeningsAnnounced, Ingest!vars,
      Ingest!Reads, Ingest!Turn

-----------------------------------------------------------------------------
LEMMA GivenContent == ASSUME IngestGiven PROVE ContentOK
  BY DEF IngestGiven, ContentOK, Ingest!Id

\* The invariant holds at first and is kept by every step.
LEMMA IngestInvInit == ASSUME IngestGiven PROVE Ingest!Init => IngestIInv
<1> SUFFICES ASSUME Ingest!Init PROVE IngestIInv
  OBVIOUS
<1>1. /\ issue = [g \in Group |-> None] /\ event = [e \in Ingest!Id |-> None]
      /\ notice = [g \in Group |-> [new |-> 0, regressed |-> 0]]
      /\ tx = [r \in Request |-> None] /\ answer = [r \in Request |-> None]
      /\ reopened = [g \in Group |-> 0] /\ None \notin Group /\ None \notin Tx
         /\ None \notin IssueRow
  BY DEF Ingest!Init, IngestGiven
<1>2. IngestTyped
  BY <1>1 DEF IngestTyped, TxOK, IssueOK, IngestRestOK
<1>3. LocksApart /\ EventsApart /\ TxSound
  BY <1>1 DEF LocksApart, Ingest!Locked, EventsApart, TxSound, Sound, Ingest!HasIssue,
      Ingest!HasEvent, Ingest!Idle
<1>4. StoredHaveIssues /\ Ingest!ReopeningsAnnounced
  BY <1>1 DEF StoredHaveIssues, Ingest!ReopeningsAnnounced
<1>5. CountsAreExact
  <2>1. \A g \in Group : Stored(g) = {}
    BY <1>1 DEF Stored
  <2> QED
    BY <1>1, <2>1, FS_EmptySet DEF CountsAreExact
<1> QED
  BY <1>2, <1>3, <1>4, <1>5 DEF IngestIInv

LEMMA IngestInvStep == ASSUME IngestGiven
  PROVE IngestIInv /\ [Ingest!Next]_(Ingest!vars) => IngestIInv'
<1> SUFFICES ASSUME IngestIInv, [Ingest!Next]_(Ingest!vars) PROVE IngestIInv'
  OBVIOUS
<1>1. IngestTyped /\ ContentOK /\ TxOK /\ TxSound
  BY GivenContent DEF IngestIInv, IngestTyped
<1>2. IngestTyped'
  BY <1>1, TxType, IngestRestStep DEF IngestTyped
<1>3. LocksApart' /\ EventsApart' /\ TxSound'
  BY <1>1, LocksStep, EventsStep, SoundStep DEF IngestIInv
<1>4. StoredHaveIssues' /\ CountsAreExact' /\ Ingest!ReopeningsAnnounced'
  BY <1>1, StoredStep, CountsStep, ReopenStep DEF IngestIInv
<1> QED
  BY <1>2, <1>3, <1>4 DEF IngestIInv

\* An issue counts each of its stored events once, and is announced as new once, whatever
\* requests race, resend or fail (pipeline.rs).
THEOREM IngestCountsOnce == ASSUME IngestGiven
  PROVE Ingest!Spec => [](Ingest!TypeOK /\ Ingest!EventsCountedOnce)
<1>1. IngestIInv => Ingest!EventsCountedOnce
  BY IngestCounts DEF IngestIInv, CountsAreExact, Ingest!EventsCountedOnce, Stored
<1>2. IngestIInv => Ingest!TypeOK
  BY DEF IngestIInv, IngestTyped, IssueOK, IngestRestOK, IssueRow, Ingest!TypeOK
<1> QED
  BY <1>1, <1>2, IngestInvInit, IngestInvStep, PTL DEF Ingest!Spec

\* Ingest announces a regression exactly as often as it reopens a resolved issue.
THEOREM IngestAnnounces == ASSUME IngestGiven PROVE Ingest!Spec => []Ingest!ReopeningsAnnounced
<1>1. IngestIInv => Ingest!ReopeningsAnnounced
  BY DEF IngestIInv
<1> QED
  BY <1>1, IngestInvInit, IngestInvStep, PTL DEF Ingest!Spec
-----------------------------------------------------------------------------
(***************************************************************************)
(* InstanceOperations.  The token of a claim is the number of the attempt, *)
(* which only grows, so that two workers of an operation never have the    *)
(* same one (TokensDiffer), and a backup writes the file of its token: no  *)
(* worker touches the file of another (PathsApart).  A publication is made *)
(* by the worker whose token is the row's, and who leaves with it: nobody  *)
(* is left who could write the file that is offered (Left).                *)
(***************************************************************************)
Kinds == {"backup", "verify"}
Identities == [generation : Nat, mode : {"normal", "restore_validation"}]
Paths == Op \X (0..MaxAttempts)
Rows == [kind : Kinds, state : Ops!Active \cup Ops!Ended, attempt : 0..(MaxAttempts + 1),
         cancel : BOOLEAN, live : BOOLEAN, identity : Identities, artifact : Paths \cup {None}]
Places == {"claimed", "capture", "publish", "remove", "failed", "cancelled"}
Works == [op : Op, attempt : 1..(MaxAttempts + 1), kind : Kinds, step : Places, cancelled : BOOLEAN]
\* None and Gone are values apart from what the variables hold.
OpsGiven ==
  /\ MaxAttempts \in Nat /\ None # Gone
  /\ None \notin Rows /\ Gone \notin Rows /\ None \notin Works
  /\ None \notin Paths /\ None \notin Worker

Apart ==
  /\ None \notin Rows /\ Gone \notin Rows /\ None # Gone /\ None \notin Works /\ None \notin Paths
OpOK == op \in [Op -> Rows \cup {None, Gone}]
WorkOK == work \in [Worker -> Works \cup {None}]
FileOK == file \in [Paths -> {"absent", "partial", "whole"}]
OpsRestOK == lock \in Worker \cup {None} /\ identity \in Identities
OpsTyped == MaxAttempts \in Nat /\ Apart /\ OpOK /\ WorkOK /\ FileOK /\ OpsRestOK

\* At most one operation is active; only a ready one has an artifact.
OneActive == \A o, p \in Op :
  Ops!Exists(o) /\ Ops!Exists(p) /\ op[o].state \in Ops!Active /\ op[p].state \in Ops!Active
    => o = p
RowsAgree == \A o \in Op : Ops!Exists(o) =>
  /\ op[o].live => op[o].state = "running"
  /\ op[o].artifact # None <=> op[o].state = "ready"
\* A worker's token is not larger than its row's, and no other's.
TokensArePast == \A w \in Worker : work[w] # None =>
  /\ op[work[w].op] # None
  /\ Ops!Exists(work[w].op) => work[w].attempt <= op[work[w].op].attempt
  /\ work[w].step \in {"capture", "publish", "remove"} => work[w].attempt <= MaxAttempts
TokensDiffer == \A v, w \in Worker :
  v # w /\ work[v] # None /\ work[w] # None /\ work[v].op = work[w].op =>
    work[v].attempt # work[w].attempt
\* A backup is whole when its worker is about to publish it, and stays whole when it
\* is offered: nobody has its token any more.
CapturedIsWhole == \A w \in Worker :
  Ops!At(w, "publish") /\ work[w].kind = "backup" => file[Ops!Path(w)] = "whole"
Left(o) == \A w \in Worker : work[w] # None /\ work[w].op = o => work[w].attempt # op[o].attempt
Offered(o) ==
  /\ ~op[o].cancel /\ op[o].identity.generation = identity.generation
  /\ op[o].kind = "backup" =>
       /\ op[o].artifact = <<o, op[o].attempt>> /\ <<o, op[o].attempt>> \in Paths
       /\ file[<<o, op[o].attempt>>] = "whole" /\ Left(o)
OfferedIsLeft == \A o \in Op : Ops!Exists(o) /\ op[o].state = "ready" => Offered(o)
KindsAgree == \A w \in Worker :
  work[w] # None /\ Ops!Exists(work[w].op) => work[w].kind = op[work[w].op].kind
OpsIInv ==
  /\ OpsTyped /\ OneActive /\ RowsAgree /\ TokensArePast /\ TokensDiffer /\ KindsAgree
  /\ CapturedIsWhole /\ OfferedIsLeft

-----------------------------------------------------------------------------
\* What each step does to its worker.
Others(w) == \A v \in Worker : v # w => work'[v] = work[v]
Keeps(w) ==
  /\ work'[w] # None /\ work'[w].op = work[w].op /\ work'[w].attempt = work[w].attempt
  /\ work'[w].kind = work[w].kind
Reaches(w, step) == Keeps(w) /\ work'[w].step = step /\ work' \in [Worker -> Works \cup {None}]
Leaves(w) == work'[w] = None /\ Others(w) /\ work' \in [Worker -> Works \cup {None}]

\* A worker at work, and a row that exists, are records of their fields.
LEMMA InWorks ==
  ASSUME OpsTyped, NEW w \in Worker, work[w] # None
  PROVE  /\ work[w] \in Works /\ work[w].op \in Op /\ work[w].attempt \in 1..(MaxAttempts + 1)
         /\ work[w].kind \in Kinds /\ work[w].step \in Places
  BY DEF OpsTyped, WorkOK, Works
LEMMA InRows ==
  ASSUME OpsTyped, NEW o \in Op, Ops!Exists(o)
  PROVE  /\ op[o] \in Rows /\ op[o].kind \in Kinds /\ op[o].attempt \in 0..(MaxAttempts + 1)
         /\ op[o].identity \in Identities /\ op[o].state \in Ops!Active \cup Ops!Ended
  BY DEF OpsTyped, OpOK, Ops!Exists, Rows

\* Action by action: where the worker was, and where it goes.
LEMMA GotoReaches ==
  ASSUME OpsTyped, NEW w \in Worker, work[w] # None, NEW step \in Places, Ops!Goto(w, step)
  PROVE  Reaches(w, step) /\ Others(w)
<1>1. work[w] \in Works /\ work \in [Worker -> Works \cup {None}] /\ None \notin Works
  BY InWorks DEF OpsTyped, WorkOK, Apart
<1>2. [work[w] EXCEPT !.step = step] \in Works
  BY <1>1 DEF Works
<1>3. work' = [work EXCEPT ![w] = [work[w] EXCEPT !.step = step]]
  BY <1>1 DEF Ops!Goto
<1>4. work'[w] = [work[w] EXCEPT !.step = step] /\ work' \in [Worker -> Works \cup {None}]
      /\ Others(w)
  BY <1>1, <1>2, <1>3 DEF Others
<1> QED
  BY <1>1, <1>2, <1>4 DEF Reaches, Keeps, Works

LEMMA LeaveLeaves == ASSUME OpsTyped, NEW w \in Worker, Ops!Leave(w) PROVE Leaves(w)
  BY DEF Ops!Leave, Leaves, Others, OpsTyped, WorkOK

LEMMA ClaimWorks ==
  ASSUME OpsTyped, NEW w \in Worker, NEW o \in Op, Ops!Claim(w, o)
  PROVE  /\ Ops!Exists(o) /\ work'[w] # None /\ work'[w].op = o
         /\ work'[w].attempt = op[o].attempt + 1 /\ work'[w].kind = op[o].kind
         /\ work'[w].step = "claimed" /\ Others(w) /\ work' \in [Worker -> Works \cup {None}]
<1> DEFINE x == [op |-> o, attempt |-> op[o].attempt + 1, kind |-> op[o].kind,
                 step |-> "claimed", cancelled |-> FALSE]
<1>1. Ops!Exists(o) /\ op[o].attempt <= MaxAttempts /\ work' = [work EXCEPT ![w] = x]
  BY DEF Ops!Claim, Ops!Claimable
<1>2. op[o].attempt + 1 \in 1..(MaxAttempts + 1) /\ op[o].kind \in Kinds
  BY <1>1, InRows DEF OpsTyped
<1>3. x \in Works
  BY <1>2 DEF Works, Places
<1>4. work'[w] = x /\ Others(w) /\ work' \in [Worker -> Works \cup {None}]
  BY <1>1, <1>3 DEF OpsTyped, WorkOK, Others
<1> QED
  BY <1>1, <1>3, <1>4 DEF OpsTyped, Apart

LEMMA BeginWorks ==
  ASSUME OpsTyped, NEW w \in Worker, Ops!Begin(w)
  PROVE  /\ work[w] # None /\ work[w].step = "claimed" /\ Others(w)
         /\ \/ /\ Reaches(w, "capture") /\ work[w].attempt <= MaxAttempts
               /\ file' = IF work[w].kind = "verify"
                      THEN file ELSE [file EXCEPT ![Ops!Path(w)] = "partial"]
            \/ (Reaches(w, "failed") \/ Reaches(w, "cancelled")) /\ file' = file
<1>1. work[w] # None /\ work[w].step = "claimed"
  BY DEF Ops!Begin, Ops!At
<1>2. work[w].attempt \in Nat /\ MaxAttempts \in Nat
  BY <1>1, InWorks DEF OpsTyped
<1>3. \/ /\ Ops!Goto(w, "capture") /\ work[w].attempt <= MaxAttempts
         /\ file' = IF work[w].kind = "verify" THEN file ELSE [file EXCEPT ![Ops!Path(w)] = "partial"]
      \/ (Ops!Goto(w, "failed") \/ Ops!Goto(w, "cancelled")) /\ file' = file
  BY <1>2 DEF Ops!Begin, Ops!Spent
<1> QED
  BY <1>1, <1>3, GotoReaches DEF Places

LEMMA HeartbeatWorks ==
  ASSUME OpsTyped, NEW w \in Worker, NEW a \in BOOLEAN, Ops!Heartbeat(w, a)
  PROVE  /\ work[w] # None /\ work[w].step = "capture" /\ Others(w) /\ Reaches(w, "capture")
<1> DEFINE lost == ~(a /\ Ops!Mine(w)) \/ op[work[w].op].cancel \/ lock # w
<1>1. work[w] # None /\ work[w].step = "capture"
  BY DEF Ops!Heartbeat, Ops!At
<1>2. work[w] \in Works /\ work \in [Worker -> Works \cup {None}] /\ None \notin Works
  BY <1>1, InWorks DEF OpsTyped, WorkOK, Apart
<1>3. PICK b \in BOOLEAN : work' = [work EXCEPT ![w].cancelled = b]
  <2>1. PICK b \in BOOLEAN : b = lost
    OBVIOUS
  <2>2. work' = [work EXCEPT ![w].cancelled = lost]
    BY DEF Ops!Heartbeat
  <2> QED
    BY <2>1, <2>2
<1>4. [work[w] EXCEPT !.cancelled = b] \in Works
  BY <1>2 DEF Works
<1>5. work'[w] = [work[w] EXCEPT !.cancelled = b] /\ work' \in [Worker -> Works \cup {None}]
      /\ Others(w)
  BY <1>2, <1>3, <1>4 DEF Others
<1> QED
  BY <1>1, <1>2, <1>4, <1>5 DEF Reaches, Keeps, Works

LEMMA CaptureWorks ==
  ASSUME OpsTyped, NEW w \in Worker, Ops!CaptureEnds(w)
  PROVE  /\ work[w] # None /\ work[w].step = "capture" /\ Others(w)
         /\ \/ Reaches(w, "publish") /\ file' = [file EXCEPT ![Ops!Path(w)] = "whole"]
            \/ Reaches(w, "remove") /\ file' = file
<1>1. work[w] # None /\ work[w].step = "capture"
  BY DEF Ops!CaptureEnds, Ops!At
<1> QED
  BY <1>1, GotoReaches DEF Ops!CaptureEnds, Places

LEMMA PublishWorks ==
  ASSUME OpsTyped, NEW w \in Worker, Ops!Publish(w)
  PROVE  /\ work[w] # None /\ work[w].step = "publish" /\ Others(w)
         /\ \/ Ops!Publishable(w) /\ Leaves(w)
            \/ Reaches(w, "remove") /\ op' = op
<1>1. work[w] # None /\ work[w].step = "publish"
  BY DEF Ops!Publish, Ops!At
<1>2. work[w] \in Works /\ work \in [Worker -> Works \cup {None}] /\ None \notin Works
  BY <1>1, InWorks DEF OpsTyped, WorkOK, Apart
<1>3. CASE Ops!Publishable(w)
  BY <1>1, <1>3, LeaveLeaves DEF Ops!Publish, Leaves
<1>4. CASE ~Ops!Publishable(w)
  <2>1. work' = [work EXCEPT ![w].step = "remove", ![w].cancelled = TRUE] /\ op' = op
    BY <1>4 DEF Ops!Publish
  <2>2. work'[w] = [work[w] EXCEPT !.step = "remove", !.cancelled = TRUE]
    BY <1>2, <2>1
  <2>3. [work[w] EXCEPT !.step = "remove", !.cancelled = TRUE] \in Works
    BY <1>2 DEF Works, Places
  <2>4. Others(w) /\ work' \in [Worker -> Works \cup {None}]
    <3>1. work' = [work EXCEPT ![w] = [work[w] EXCEPT !.step = "remove", !.cancelled = TRUE]]
      BY <1>2, <2>1
    <3> QED
      BY <1>2, <2>3, <3>1 DEF Others
  <2> QED
    BY <1>1, <1>2, <2>1, <2>2, <2>3, <2>4 DEF Reaches, Keeps, Works
<1> QED
  BY <1>3, <1>4

LEMMA RemoveWorks ==
  ASSUME OpsTyped, NEW w \in Worker, Ops!Remove(w)
  PROVE  /\ work[w] # None /\ work[w].step = "remove" /\ Others(w)
         /\ Reaches(w, "failed") \/ Reaches(w, "cancelled")
         /\ file' = [file EXCEPT ![Ops!Path(w)] = "absent"]
<1>1. work[w] # None /\ work[w].step = "remove"
  BY DEF Ops!Remove, Ops!At
<1> QED
  BY <1>1, GotoReaches DEF Ops!Remove, Places

LEMMA TerminalWorks ==
  ASSUME OpsTyped, NEW w \in Worker, Ops!Terminal(w)
  PROVE  work[w] # None /\ work[w].step \in {"failed", "cancelled"} /\ Leaves(w)
  BY LeaveLeaves DEF Ops!Terminal, Ops!At
LEMMA FailWorks ==
  ASSUME OpsTyped, NEW w \in Worker, Ops!Fail(w) PROVE Leaves(w) /\ UNCHANGED <<op, file, identity>>
  BY LeaveLeaves DEF Ops!Fail

-----------------------------------------------------------------------------
\* A row that changes is one that is not over yet.
RowMoves(o) ==
  /\ Ops!Exists(o) /\ op[o].state \in Ops!Active
  /\ \A p \in Op : p # o => op'[p] = op[p]
  /\ op' \in [Op -> Rows \cup {None, Gone}] /\ op'[o] \in Rows
  /\ op'[o].kind = op[o].kind /\ op'[o].identity = op[o].identity
  /\ op'[o].attempt >= op[o].attempt
  /\ op'[o].live => op'[o].state = "running"
  /\ op'[o].artifact # None <=> op'[o].state = "ready"
\* A row that is built anew from one that is not over.
LEMMA RowMade ==
  ASSUME OpsTyped, NEW o \in Op, Ops!Exists(o), op[o].state \in Ops!Active, NEW y \in Rows,
         op'[o] = y, op' = [p \in Op |-> op'[p]], \A p \in Op : p # o => op'[p] = op[p],
         y.kind = op[o].kind, y.identity = op[o].identity, y.attempt >= op[o].attempt,
         y.live => y.state = "running", y.artifact # None <=> y.state = "ready"
  PROVE  RowMoves(o)
<1>1. op' \in [Op -> Rows \cup {None, Gone}]
  BY DEF OpsTyped, OpOK
<1> QED
  BY <1>1 DEF RowMoves

\* A row that is not over offers nothing.
LEMMA ActiveRow ==
  ASSUME OpsTyped, RowsAgree, NEW o \in Op, Ops!Exists(o), op[o].state \in Ops!Active
  PROVE  /\ op[o] \in Rows /\ op[o].artifact = None /\ op[o].attempt \in Nat
         /\ op[o].live => op[o].state = "running"
<1>1. op[o] \in Rows /\ op[o].attempt \in 0..(MaxAttempts + 1) /\ MaxAttempts \in Nat
  BY InRows DEF OpsTyped
<1> QED
  BY <1>1 DEF RowsAgree, Ops!Active

\* Action by action: the row that changes was not over, and only Publish makes it ready.
LEMMA CancelRow ==
  ASSUME OpsTyped, RowsAgree, NEW o \in Op, Ops!Cancel(o)
  PROVE  RowMoves(o) /\ op'[o].state # "ready" /\ op'[o].attempt = op[o].attempt
<1> DEFINE s == IF op[o].state = "queued" THEN "cancelled" ELSE op[o].state
           y == [op[o] EXCEPT !.cancel = TRUE, !.state = s]
<1>1. Ops!Exists(o) /\ op[o].state \in Ops!Active
  BY DEF Ops!Cancel
<1>2. /\ op[o] \in Rows /\ op[o].artifact = None /\ op[o].attempt \in Nat
      /\ op[o].live => op[o].state = "running"
  BY <1>1, ActiveRow
<1>3. y \in Rows /\ s # "ready"
  BY <1>1, <1>2 DEF Rows, Ops!Active, Ops!Ended
<1>4. op'[o] = y /\ (\A p \in Op : p # o => op'[p] = op[p]) /\ op' = [p \in Op |-> op'[p]]
  BY <1>2 DEF Ops!Cancel, OpsTyped, OpOK, Rows
<1>5. /\ y.kind = op[o].kind /\ y.identity = op[o].identity /\ y.attempt = op[o].attempt
      /\ y.state = s /\ y.artifact = None /\ y.live = op[o].live
  BY <1>2 DEF Rows
<1>6. y.live => s = "running"
  BY <1>2, <1>5
<1> HIDE DEF s, y
<1> QED
  BY <1>1, <1>2, <1>3, <1>4, <1>5, <1>6, RowMade

LEMMA ClaimRow ==
  ASSUME OpsTyped, RowsAgree, NEW w \in Worker, NEW o \in Op, Ops!Claim(w, o)
  PROVE  RowMoves(o) /\ op'[o].state # "ready" /\ op'[o].attempt = op[o].attempt + 1
<1> DEFINE y == [op[o] EXCEPT !.state = "running", !.live = TRUE, !.attempt = op[o].attempt + 1]
<1>1. Ops!Exists(o) /\ op[o].state \in Ops!Active /\ op[o].attempt <= MaxAttempts
  BY DEF Ops!Claim, Ops!Claimable, Ops!Active
<1>2. op[o] \in Rows /\ op[o].artifact = None /\ op[o].attempt \in Nat
  BY <1>1, ActiveRow
<1>3. y \in Rows
  <2>1. op[o].attempt + 1 \in 0..(MaxAttempts + 1)
    BY <1>1, <1>2 DEF OpsTyped
  <2> QED
    BY <1>2, <2>1 DEF Rows, Ops!Active
<1>4. op'[o] = y /\ (\A p \in Op : p # o => op'[p] = op[p]) /\ op' = [p \in Op |-> op'[p]]
  BY <1>2 DEF Ops!Claim, OpsTyped, OpOK, Rows
<1>5. /\ y.kind = op[o].kind /\ y.identity = op[o].identity /\ y.attempt = op[o].attempt + 1
      /\ y.state = "running" /\ y.artifact = None
  BY <1>2 DEF Rows
<1> HIDE DEF y
<1> QED
  BY <1>1, <1>2, <1>3, <1>4, <1>5, RowMade

LEMMA HeartbeatRow ==
  ASSUME OpsTyped, RowsAgree, NEW w \in Worker, NEW a \in BOOLEAN, Ops!Heartbeat(w, a)
  PROVE  \/ op' = op
         \/ \E o \in Op : RowMoves(o) /\ op'[o].state # "ready" /\ op'[o].attempt = op[o].attempt
<1> DEFINE o == work[w].op
           y == [op[o] EXCEPT !.live = TRUE]
<1>0. o \in Op /\ (op' = op \/ (Ops!Mine(w) /\ op' = [op EXCEPT ![o].live = TRUE]))
  BY InWorks DEF Ops!Heartbeat, Ops!At
<1>1. CASE Ops!Mine(w) /\ op' = [op EXCEPT ![o].live = TRUE]
  <2>1. Ops!Exists(o) /\ op[o].state = "running"
    BY <1>1 DEF Ops!Mine
  <2>2. op[o] \in Rows /\ op[o].artifact = None /\ op[o].attempt \in Nat
    BY <1>0, <2>1, ActiveRow DEF Ops!Active
  <2>3. y \in Rows
    BY <2>2 DEF Rows
  <2>4. op'[o] = y /\ (\A p \in Op : p # o => op'[p] = op[p]) /\ op' = [p \in Op |-> op'[p]]
    BY <1>0, <1>1, <2>2 DEF OpsTyped, OpOK
  <2>5. /\ y.kind = op[o].kind /\ y.identity = op[o].identity /\ y.attempt = op[o].attempt
        /\ y.state = "running" /\ y.artifact = None
    BY <2>1, <2>2 DEF Rows
  <2> HIDE DEF o, y
  <2>6. RowMoves(o)
    BY <1>0, <2>1, <2>2, <2>3, <2>4, <2>5, RowMade DEF Ops!Active
  <2> QED
    BY <1>0, <2>4, <2>5, <2>6
<1> QED
  BY <1>0, <1>1

LEMMA ExpireRow ==
  ASSUME OpsTyped, RowsAgree, NEW o \in Op, Ops!LeaseExpires(o)
  PROVE  RowMoves(o) /\ op'[o].state # "ready" /\ op'[o].attempt = op[o].attempt
<1> DEFINE y == [op[o] EXCEPT !.live = FALSE]
<1>1. Ops!Exists(o) /\ op[o].state = "running" /\ op' = [op EXCEPT ![o].live = FALSE]
  BY DEF Ops!LeaseExpires
<1>2. op[o] \in Rows /\ op[o].artifact = None /\ op[o].attempt \in Nat
  BY <1>1, ActiveRow DEF Ops!Active
<1>3. y \in Rows
  BY <1>2 DEF Rows
<1>4. op'[o] = y /\ (\A p \in Op : p # o => op'[p] = op[p]) /\ op' = [p \in Op |-> op'[p]]
  BY <1>1, <1>2 DEF OpsTyped, OpOK
<1>5. /\ y.kind = op[o].kind /\ y.identity = op[o].identity /\ y.attempt = op[o].attempt
      /\ y.state = "running" /\ y.artifact = None
  BY <1>1, <1>2 DEF Rows
<1> HIDE DEF y
<1>6. RowMoves(o)
  <2>1. Ops!Exists(o) /\ op[o].state \in Ops!Active
    BY <1>1 DEF Ops!Active
  <2> QED
    BY <2>1, <1>2, <1>3, <1>4, <1>5, RowMade
<1> QED
  BY <1>4, <1>5, <1>6

LEMMA TerminalRow ==
  ASSUME OpsTyped, RowsAgree, NEW w \in Worker, Ops!Terminal(w)
  PROVE  \/ op' = op
         \/ \E o \in Op : RowMoves(o) /\ op'[o].state # "ready" /\ op'[o].attempt = op[o].attempt
<1> DEFINE o == work[w].op
           s == work[w].step
           y == [op[o] EXCEPT !.state = s, !.live = FALSE]
<1>0. o \in Op /\ s \in {"failed", "cancelled"}
      /\ (op' = op \/ (Ops!Mine(w) /\ op' = [op EXCEPT ![o].state = s, ![o].live = FALSE]))
  BY InWorks DEF Ops!Terminal, Ops!At
<1>1. CASE Ops!Mine(w) /\ op' = [op EXCEPT ![o].state = s, ![o].live = FALSE]
  <2>1. Ops!Exists(o) /\ op[o].state = "running"
    BY <1>1 DEF Ops!Mine
  <2>2. op[o] \in Rows /\ op[o].artifact = None /\ op[o].attempt \in Nat
    BY <1>0, <2>1, ActiveRow DEF Ops!Active
  <2>3. y \in Rows
    BY <1>0, <2>2 DEF Rows, Ops!Ended
  <2>4. op'[o] = y /\ (\A p \in Op : p # o => op'[p] = op[p]) /\ op' = [p \in Op |-> op'[p]]
    BY <1>0, <1>1, <2>2 DEF OpsTyped, OpOK, Rows
  <2>5. /\ y.kind = op[o].kind /\ y.identity = op[o].identity /\ y.attempt = op[o].attempt
        /\ y.state = s /\ y.artifact = None /\ y.live = FALSE
    BY <2>1, <2>2 DEF Rows
  <2> HIDE DEF o, s, y
  <2>6. RowMoves(o)
    BY <1>0, <2>1, <2>2, <2>3, <2>4, <2>5, RowMade DEF Ops!Active
  <2> QED
    BY <1>0, <2>4, <2>5, <2>6
<1> QED
  BY <1>0, <1>1

\* A worker that writes has a file of its own in the directory.
LEMMA PathOf ==
  ASSUME OpsTyped, NEW w \in Worker, work[w] # None, work[w].attempt <= MaxAttempts
  PROVE  Ops!Path(w) \in Paths /\ Ops!Path(w) # None
<1>1. work[w].op \in Op /\ work[w].attempt \in 1..(MaxAttempts + 1) /\ MaxAttempts \in Nat
  BY InWorks DEF OpsTyped
<1>2. Ops!Path(w) \in Paths
  BY <1>1, SMTT(30) DEF Ops!Path, Paths
<1> QED
  BY <1>2 DEF OpsTyped, Apart

LEMMA PublishRow ==
  ASSUME OpsTyped, RowsAgree, TokensArePast, KindsAgree, NEW w \in Worker, Ops!Publish(w),
         Ops!Publishable(w)
  PROVE  /\ work[w].op \in Op /\ RowMoves(work[w].op)
         /\ ~op'[work[w].op].cancel
         /\ op'[work[w].op].identity = identity /\ identity' = identity
         /\ op'[work[w].op].artifact = Ops!Path(w)
         /\ op'[work[w].op].attempt = op[work[w].op].attempt
         /\ op[work[w].op].attempt = work[w].attempt
         /\ op[work[w].op].kind = work[w].kind /\ file' = file
<1> DEFINE o == work[w].op
           y == [op[o] EXCEPT !.state = "ready", !.live = FALSE, !.artifact = Ops!Path(w)]
<1>0. /\ o \in Op /\ work[w] # None /\ work[w].step = "publish" /\ Ops!Mine(w)
      /\ op' = [op EXCEPT ![o].state = "ready", ![o].live = FALSE, ![o].artifact = Ops!Path(w)]
      /\ UNCHANGED <<file, identity>>
  BY InWorks DEF Ops!Publish, Ops!Publishable, Ops!At
<1>1. /\ Ops!Exists(o) /\ op[o].state = "running" /\ op[o].attempt = work[w].attempt
      /\ ~op[o].cancel /\ op[o].identity = identity
  BY <1>0 DEF Ops!Mine, Ops!Publishable
<1>2. op[o] \in Rows /\ op[o].artifact = None /\ op[o].attempt \in Nat /\ op[o].kind = work[w].kind
  BY <1>0, <1>1, ActiveRow DEF Ops!Active, KindsAgree
<1>3. Ops!Path(w) \in Paths /\ Ops!Path(w) # None
  BY <1>0, PathOf DEF TokensArePast
<1>4. y \in Rows
  BY <1>2, <1>3 DEF Rows, Ops!Ended
<1>5. op'[o] = y /\ (\A p \in Op : p # o => op'[p] = op[p]) /\ op' = [p \in Op |-> op'[p]]
  BY <1>0, <1>2 DEF OpsTyped, OpOK, Rows
<1>6. /\ y.kind = op[o].kind /\ y.identity = op[o].identity /\ y.attempt = op[o].attempt
      /\ y.state = "ready" /\ y.artifact = Ops!Path(w) /\ y.live = FALSE /\ y.cancel = op[o].cancel
  BY <1>2 DEF Rows
<1>7. RowMoves(o)
  <2>1. o \in Op /\ Ops!Exists(o) /\ op[o].state \in Ops!Active
    BY <1>0, <1>1 DEF Ops!Active
  <2> HIDE DEF o, y
  <2> QED
    BY <2>1, <1>2, <1>3, <1>4, <1>5, <1>6, RowMade
<1> QED
  BY <1>0, <1>1, <1>2, <1>5, <1>6, <1>7

-----------------------------------------------------------------------------
\* A new operation takes an id that was never used, while none is active.
Opens(o) ==
  /\ op[o] = None /\ Ops!Idle
  /\ \A p \in Op : p # o => op'[p] = op[p]
  /\ op' \in [Op -> Rows \cup {None, Gone}] /\ op'[o] # None
  /\ op'[o] \in Rows =>
       /\ op'[o].state = "queued" /\ ~op'[o].live /\ op'[o].artifact = None
\* A new row is queued.
LEMMA NewRow ==
  ASSUME OpsTyped, NEW kind \in Kinds
  PROVE  /\ Ops!New(kind) \in Rows /\ Ops!New(kind).state = "queued" /\ ~Ops!New(kind).live
         /\ Ops!New(kind).artifact = None
  BY DEF OpsTyped, OpsRestOK, Ops!New, Rows, Ops!Active
LEMMA OpenRow ==
  ASSUME OpsTyped, NEW o \in Op, Ops!Create(o) \/ \E c \in BOOLEAN : Ops!VerifyUpload(o, c)
  PROVE  Opens(o)
<1>1. /\ op[o] = None /\ Ops!Idle
      /\ \E y \in {Ops!New("backup"), Ops!New("verify"), Gone} : op' = [op EXCEPT ![o] = y]
  BY DEF Ops!Create, Ops!VerifyUpload
<1>2. PICK y \in {Ops!New("backup"), Ops!New("verify"), Gone} : op' = [op EXCEPT ![o] = y]
  BY <1>1
<1>3. y = Gone \/ (y \in Rows /\ y.state = "queued" /\ ~y.live /\ y.artifact = None)
  BY NewRow DEF Kinds
<1>4. op'[o] = y /\ \A p \in Op : p # o => op'[p] = op[p]
  BY <1>2 DEF OpsTyped, OpOK
<1>5. op' \in [Op -> Rows \cup {None, Gone}]
  BY <1>2, <1>3 DEF OpsTyped, OpOK
<1> QED
  BY <1>1, <1>3, <1>4, <1>5 DEF Opens, OpsTyped, Apart

\* A restore closes every row.
Closes ==
  /\ op' \in [Op -> Rows \cup {None, Gone}]
  /\ \A o \in Op : IF ~Ops!Exists(o) THEN op'[o] = op[o]
       ELSE /\ op'[o] \in Rows /\ op'[o].state \in {"unavailable", "cancelled"}
            /\ ~op'[o].live /\ op'[o].artifact = None
            /\ op'[o].kind = op[o].kind /\ op'[o].attempt = op[o].attempt
LEMMA RestoreRows == ASSUME OpsTyped, Ops!Restore PROVE Closes
<1> DEFINE y(o) == [op[o] EXCEPT !.live = FALSE, !.artifact = None,
                      !.state = IF op[o].state = "ready" THEN "unavailable" ELSE "cancelled"]
<1>1. op' = [o \in Op |-> IF ~Ops!Exists(o) THEN op[o] ELSE y(o)]
  BY DEF Ops!Restore
<1>2. ASSUME NEW o \in Op, Ops!Exists(o)
      PROVE  /\ y(o) \in Rows /\ y(o).state \in {"unavailable", "cancelled"}
             /\ ~y(o).live /\ y(o).artifact = None
             /\ y(o).kind = op[o].kind /\ y(o).attempt = op[o].attempt
  <2>1. op[o] \in Rows
    BY <1>2, InRows
  <2> QED
    BY <2>1 DEF Rows, Ops!Ended
<1> HIDE DEF y
<1>3. op' \in [Op -> Rows \cup {None, Gone}]
  BY <1>1, <1>2 DEF OpsTyped, OpOK
<1> QED
  BY <1>1, <1>2, <1>3 DEF Closes

Empties == op' \in [Op -> {None, Gone}] /\ \A o \in Op : op[o] # None => op'[o] # None

\* What a step does to the rows.
LEMMA OpCases ==
  ASSUME OpsTyped, RowsAgree, TokensArePast, KindsAgree, [Ops!Next]_(Ops!vars)
  PROVE  \/ op' = op
         \/ \E o \in Op : (Opens(o) \/ RowMoves(o)) /\ identity' = identity
         \/ Empties /\ identity' # identity
         \/ Closes /\ identity' # identity
<1>1. CASE \E o \in Op : Ops!Create(o) \/ \E c \in BOOLEAN : Ops!VerifyUpload(o, c)
  BY <1>1, OpenRow DEF Ops!Create, Ops!VerifyUpload
<1>2. CASE \E o \in Op : Ops!Cancel(o) \/ Ops!LeaseExpires(o)
  BY <1>2, CancelRow, ExpireRow DEF Ops!Cancel, Ops!LeaseExpires
<1>3. CASE \E w \in Worker, o \in Op : Ops!Claim(w, o)
  BY <1>3, ClaimRow DEF Ops!Claim
<1>4. CASE \E w \in Worker, a \in BOOLEAN : Ops!Heartbeat(w, a)
  BY <1>4, HeartbeatRow DEF Ops!Heartbeat
<1>5. CASE \E w \in Worker : Ops!Terminal(w)
  BY <1>5, TerminalRow DEF Ops!Terminal
<1>6. CASE \E w \in Worker : Ops!Publish(w)
  BY <1>6, PublishRow, PublishWorks DEF Ops!Publish
<1>7. CASE \E w \in Worker :
             Ops!Begin(w) \/ Ops!CaptureEnds(w) \/ Ops!Remove(w) \/ Ops!Fail(w) \/ Ops!LoseLock(w)
  BY <1>7 DEF Ops!Begin, Ops!CaptureEnds, Ops!Remove, Ops!Fail, Ops!LoseLock
<1>8. CASE Ops!Reset
  <2>1. identity' # identity
    <3>1. identity.generation \in Nat /\ identity'.generation = identity.generation + 1
      BY <1>8 DEF Ops!Reset, OpsTyped, OpsRestOK, Identities
    <3> QED
      BY <3>1
  <2>2. op' = [o \in Op |-> IF op[o] = None THEN None ELSE Gone]
    BY <1>8 DEF Ops!Reset
  <2> QED
    BY <2>1, <2>2 DEF Empties, OpsTyped, Apart
<1>9. CASE Ops!Restore
  <2>1. identity.generation \in Nat /\ identity'.generation = identity.generation + 1
    BY <1>9 DEF Ops!Restore, OpsTyped, OpsRestOK, Identities
  <2>2. identity' # identity
    BY <2>1
  <2> QED
    BY <1>9, <2>2, RestoreRows
<1>10. CASE Ops!Resume \/ UNCHANGED Ops!vars
  BY <1>10 DEF Ops!Resume, Ops!vars
<1> QED
  BY <1>1, <1>2, <1>3, <1>4, <1>5, <1>6, <1>7, <1>8, <1>9, <1>10 DEF Ops!Next

\* Hence the rows keep their form, at most one is active, and only a ready one offers a file.
LEMMA OpType ==
  ASSUME OpsTyped, RowsAgree, TokensArePast, KindsAgree, [Ops!Next]_(Ops!vars) PROVE OpOK'
  BY OpCases DEF Opens, RowMoves, Empties, Closes, OpsTyped, OpOK

LEMMA OneStep ==
  ASSUME OpsTyped, OneActive, RowsAgree, TokensArePast, KindsAgree, [Ops!Next]_(Ops!vars)
  PROVE  OneActive' /\ RowsAgree'
<1> USE DEF OneActive, RowsAgree, Ops!Exists
<1>1. CASE op' = op
  BY <1>1
<1>2. ASSUME NEW o \in Op, Opens(o) PROVE OneActive' /\ RowsAgree'
  <2>1. op'[o] = Gone \/ op'[o] \in Rows
    BY <1>2 DEF Opens
  <2> QED
    BY <1>2, <2>1 DEF Opens, Ops!Idle
<1>3. ASSUME NEW o \in Op, RowMoves(o) PROVE OneActive' /\ RowsAgree'
  BY <1>3 DEF RowMoves
<1>4. CASE Empties
  BY <1>4 DEF Empties
<1>5. CASE Closes
  BY <1>5 DEF Closes, Ops!Active
<1> QED
  BY <1>1, <1>2, <1>3, <1>4, <1>5, OpCases

\* An id stays used, and a row keeps its kind and never gets a smaller token.
LEMMA OpKept ==
  ASSUME OpsTyped, RowsAgree, TokensArePast, KindsAgree, [Ops!Next]_(Ops!vars), NEW o \in Op,
         op[o] # None
  PROVE  /\ op'[o] # None
         /\ Ops!Exists(o)' => /\ Ops!Exists(o) /\ op'[o].kind = op[o].kind
                              /\ op'[o].attempt >= op[o].attempt /\ op'[o].attempt \in Nat
<1> USE DEF Ops!Exists
<1>0. Ops!Exists(o) => op[o] \in Rows /\ op[o].attempt \in Nat
  BY InRows DEF OpsTyped
<1>1. CASE op' = op
  BY <1>0, <1>1
<1>2. ASSUME NEW p \in Op, Opens(p) PROVE op'[o] = op[o]
  BY <1>2 DEF Opens
<1>3. ASSUME NEW p \in Op, RowMoves(p)
      PROVE  /\ op'[o] # None
             /\ Ops!Exists(o)' => /\ Ops!Exists(o) /\ op'[o].kind = op[o].kind
                                  /\ op'[o].attempt >= op[o].attempt /\ op'[o].attempt \in Nat
  <2>1. CASE o = p
    BY <1>3, <2>1, <1>0 DEF RowMoves, Rows, OpsTyped, Apart
  <2>2. CASE o # p
    BY <1>3, <2>2, <1>0 DEF RowMoves
  <2> QED
    BY <2>1, <2>2
<1>4. CASE Empties
  BY <1>4 DEF Empties
<1>5. CASE Closes
  BY <1>0, <1>5 DEF Closes, OpsTyped, Apart
<1>6. op'[o] = op[o] =>
        /\ op'[o] # None
        /\ Ops!Exists(o)' => /\ Ops!Exists(o) /\ op'[o].kind = op[o].kind
                             /\ op'[o].attempt >= op[o].attempt /\ op'[o].attempt \in Nat
  BY <1>0
<1> QED
  BY <1>1, <1>2, <1>3, <1>4, <1>5, <1>6, OpCases

-----------------------------------------------------------------------------
\* What a step does to the workers.
Proceeds(w) ==
  /\ Others(w)
  /\ \/ Leaves(w)
     \/ \E step \in Places :
          /\ Reaches(w, step) /\ step # "claimed" /\ work[w] # None
          /\ \/ step \notin {"capture", "publish", "remove"}
             \/ work[w].attempt <= MaxAttempts
             \/ work[w].step \in {"capture", "publish", "remove"}
\* Every step is one of these to the workers.
LEMMA WorkCases ==
  ASSUME OpsTyped, [Ops!Next]_(Ops!vars)
  PROVE  \/ work' = work
         \/ \E w \in Worker, o \in Op : Ops!Claim(w, o)
         \/ \E w \in Worker : Proceeds(w)
         \/ work' = [w \in Worker |-> None]
<1>1. CASE \E o \in Op : \/ Ops!Create(o) \/ Ops!Cancel(o) \/ Ops!LeaseExpires(o)
                        \/ \E c \in BOOLEAN : Ops!VerifyUpload(o, c)
  BY <1>1 DEF Ops!Create, Ops!Cancel, Ops!LeaseExpires, Ops!VerifyUpload
<1>2. CASE \E w \in Worker, a \in BOOLEAN : Ops!Heartbeat(w, a)
  BY <1>2, HeartbeatWorks DEF Proceeds, Places
<1>3. CASE \E w \in Worker : Ops!Begin(w)
  BY <1>3, BeginWorks DEF Proceeds, Places
<1>4. CASE \E w \in Worker : Ops!CaptureEnds(w)
  BY <1>4, CaptureWorks DEF Proceeds, Places
<1>5. CASE \E w \in Worker : Ops!Publish(w)
  BY <1>5, PublishWorks DEF Proceeds, Places
<1>6. CASE \E w \in Worker : Ops!Remove(w)
  BY <1>6, RemoveWorks DEF Proceeds, Places
<1>7. CASE \E w \in Worker : Ops!Terminal(w) \/ Ops!Fail(w)
  BY <1>7, TerminalWorks, FailWorks DEF Proceeds, Leaves
<1>8. CASE (\E w \in Worker : Ops!LoseLock(w)) \/ Ops!Reset \/ Ops!Resume \/ UNCHANGED Ops!vars
  BY <1>8 DEF Ops!LoseLock, Ops!Reset, Ops!Resume, Ops!vars
<1>9. CASE Ops!Restore
  BY <1>9 DEF Ops!Restore
<1> QED
  BY <1>1, <1>2, <1>3, <1>4, <1>5, <1>6, <1>7, <1>8, <1>9 DEF Ops!Next

LEMMA WorkType == ASSUME OpsTyped, [Ops!Next]_(Ops!vars) PROVE WorkOK'
<1>1. \A w \in Worker, o \in Op : Ops!Claim(w, o) => WorkOK'
  BY ClaimWorks DEF WorkOK
<1> QED
  BY <1>1, WorkCases DEF Proceeds, Leaves, Reaches, WorkOK, OpsTyped

\* A worker's operation was created, and its row, if still there, is of its kind and
\* has no smaller token.
ItsRow(w) == work[w] # None =>
  /\ op[work[w].op] # None
  /\ Ops!Exists(work[w].op) =>
       work[w].attempt <= op[work[w].op].attempt /\ work[w].kind = op[work[w].op].kind
\* A worker that goes on keeps its row, or the row is gone.
LEMMA RowStays ==
  ASSUME OpsTyped, RowsAgree, TokensArePast, KindsAgree, [Ops!Next]_(Ops!vars),
         NEW w \in Worker, work[w] # None, work'[w].op = work[w].op,
         work'[w].attempt = work[w].attempt, work'[w].kind = work[w].kind
  PROVE  ItsRow(w)'
<1>1. PICK o \in Op : o = work[w].op
  BY InWorks
<1>2. op[o] # None /\ work[w].attempt \in Nat
  BY <1>1, InWorks DEF TokensArePast, OpsTyped
<1>3. /\ op'[o] # None
      /\ Ops!Exists(o)' => /\ Ops!Exists(o) /\ op'[o].kind = op[o].kind
                           /\ op'[o].attempt >= op[o].attempt /\ op'[o].attempt \in Nat
  BY <1>2, OpKept
<1>4. Ops!Exists(o) => /\ work[w].attempt <= op[o].attempt /\ op[o].attempt \in Nat
                       /\ work[w].kind = op[o].kind
  BY <1>1, InRows DEF TokensArePast, KindsAgree, OpsTyped
<1>5. Ops!Exists(o)' => work[w].attempt <= op'[o].attempt /\ work[w].kind = op'[o].kind
  BY <1>2, <1>3, <1>4
<1> QED
  BY <1>1, <1>3, <1>5 DEF ItsRow, Ops!Exists

\* A claim takes the token that its row has then.
LEMMA RowClaimed ==
  ASSUME OpsTyped, RowsAgree, NEW w \in Worker, NEW o \in Op, Ops!Claim(w, o) PROVE ItsRow(w)'
<1>1. /\ Ops!Exists(o) /\ work'[w].op = o /\ work'[w].attempt = op[o].attempt + 1
      /\ work'[w].kind = op[o].kind
  BY ClaimWorks
<1>2. op'[o].attempt = op[o].attempt + 1 /\ RowMoves(o)
  BY ClaimRow
<1>3. op[o].attempt \in Nat /\ op'[o].kind = op[o].kind /\ op'[o] # None
  BY <1>1, <1>2, InRows DEF RowMoves, OpsTyped, Apart
<1> QED
  BY <1>1, <1>2, <1>3 DEF ItsRow

\* A claim makes a new token, so that no two workers of an operation have the same.
LEMMA TokensStep ==
  ASSUME OpsTyped, RowsAgree, TokensArePast, TokensDiffer, KindsAgree, [Ops!Next]_(Ops!vars)
  PROVE  TokensArePast' /\ TokensDiffer' /\ KindsAgree'
<1> DEFINE Past(w) == work[w] # None /\ work[w].step \in {"capture", "publish", "remove"} =>
                        work[w].attempt <= MaxAttempts
<1>1. (\A w \in Worker : ItsRow(w)' /\ Past(w)') => TokensArePast' /\ KindsAgree'
  BY DEF ItsRow, TokensArePast, KindsAgree
<1>2. \A w \in Worker : Past(w)
  BY DEF TokensArePast
<1>3. CASE work' = work
  <2>1. \A w \in Worker : ItsRow(w)'
    <3> SUFFICES ASSUME NEW w \in Worker, work'[w] # None PROVE ItsRow(w)'
      BY DEF ItsRow
    <3> QED
      BY <1>3, RowStays
  <2> QED
    BY <1>1, <1>2, <1>3, <2>1 DEF TokensDiffer
<1>4. ASSUME NEW w \in Worker, NEW o \in Op, Ops!Claim(w, o)
      PROVE  TokensArePast' /\ TokensDiffer' /\ KindsAgree'
  <2>1. /\ Ops!Exists(o) /\ work'[w] # None /\ work'[w].op = o
           /\ work'[w].attempt = op[o].attempt + 1
        /\ work'[w].step = "claimed" /\ Others(w)
    BY <1>4, ClaimWorks
  <2>2. ASSUME NEW v \in Worker PROVE ItsRow(v)' /\ Past(v)'
    <3>1. CASE v = w
      BY <1>4, <2>1, <3>1, RowClaimed
    <3>2. CASE v # w
      <4>1. work'[v] = work[v]
        BY <2>1, <3>2 DEF Others
      <4>2. ItsRow(v)'
        BY <4>1, RowStays DEF ItsRow
      <4> QED
        BY <1>2, <4>1, <4>2
    <3> QED
      BY <3>1, <3>2
  <2>3. ASSUME NEW v \in Worker, v # w, work[v] # None, work[v].op = o
        PROVE  work[v].attempt # op[o].attempt + 1
    <3>1. work[v].attempt <= op[o].attempt /\ work[v].attempt \in Nat /\ op[o].attempt \in Nat
      BY <2>1, <2>3, InWorks, InRows DEF TokensArePast, OpsTyped
    <3> QED
      BY <3>1
  <2> HIDE DEF Past
  <2>4. TokensDiffer'
    <3>1. \A v \in Worker : v # w => work'[v] = work[v]
      BY <2>1 DEF Others
    <3> QED
      BY <2>1, <2>3, <3>1 DEF TokensDiffer
  <2> QED
    BY <1>1, <2>2, <2>4
<1>5. ASSUME NEW w \in Worker, Proceeds(w)
      PROVE  TokensArePast' /\ TokensDiffer' /\ KindsAgree'
  <2>1. \A v \in Worker : v # w => work'[v] = work[v]
    <3>1. Others(w)
      BY <1>5 DEF Proceeds
    <3> QED
      BY <3>1 DEF Others
  <2>2. \/ work'[w] = None
        \/ /\ work[w] # None /\ work'[w].op = work[w].op /\ work'[w].attempt = work[w].attempt
           /\ work'[w].kind = work[w].kind
    BY <1>5 DEF Proceeds, Leaves, Reaches, Keeps
  <2>3. ASSUME NEW v \in Worker PROVE ItsRow(v)' /\ Past(v)'
    <3>1. ItsRow(v)'
      <4>1. CASE v = w
        BY <2>2, <4>1, RowStays DEF ItsRow
      <4>2. CASE v # w
        BY <2>1, <4>2, RowStays DEF ItsRow
      <4> QED
        BY <4>1, <4>2
    <3>2. Past(v)'
      <4>1. CASE v = w
        BY <1>2, <1>5, <4>1 DEF Proceeds, Leaves, Reaches, Keeps
      <4>2. CASE v # w
        BY <1>2, <2>1, <4>2
      <4> QED
        BY <4>1, <4>2
    <3> QED
      BY <3>1, <3>2
  <2> HIDE DEF Past
  <2>4. TokensDiffer'
    BY <2>1, <2>2 DEF TokensDiffer
  <2> QED
    BY <1>1, <2>3, <2>4
<1>6. CASE work' = [w \in Worker |-> None]
  BY <1>6 DEF TokensArePast, TokensDiffer, KindsAgree
<1> QED
  BY <1>3, <1>4, <1>5, <1>6, WorkCases

-----------------------------------------------------------------------------
\* A file is written by the worker whose attempt it is; an uploaded archive is the
\* file of attempt 0.
LEMMA PathsApart ==
  ASSUME OpsTyped, NEW v \in Worker, NEW w \in Worker, work[v] # None, work[w] # None,
         v # w, TokensDiffer, work[w].kind = "backup"
  PROVE  Ops!Path(v) # Ops!Path(w)
  BY InWorks DEF TokensDiffer, Ops!Path, OpsTyped
\* A backup is the file of its attempt, which is never an uploaded one.
LEMMA BackupPath ==
  ASSUME OpsTyped, NEW w \in Worker, work[w] # None, work[w].kind = "backup"
  PROVE  Ops!Path(w) = <<work[w].op, work[w].attempt>>
  BY DEF Ops!Path
LEMMA NotUploaded ==
  ASSUME OpsTyped, NEW w \in Worker, NEW o \in Op, work[w] # None, work[w].kind = "backup"
  PROVE  Ops!Path(w) # <<o, 0>>
  BY InWorks DEF Ops!Path, OpsTyped

\* What a step writes.
WritesOnly(q) == \A p \in Paths : p # q => file'[p] = file[p]
\* Every step writes the file of one attempt at most, or restores the instance.
LEMMA FileCases ==
  ASSUME OpsTyped, TokensArePast, [Ops!Next]_(Ops!vars)
  PROVE  /\ FileOK'
         /\ \/ file' = file
            \/ \E o \in Op : op[o] = None /\ work' = work /\ WritesOnly(<<o, 0>>)
            \/ \E w \in Worker : work[w] # None /\ WritesOnly(Ops!Path(w)) /\ Others(w)
                                 /\ work[w].step # "publish" /\ op' = op /\ identity' = identity
            \/ Ops!Restore
<1> USE DEF OpsTyped, FileOK, WritesOnly
<1>1. CASE \E o \in Op : Ops!Create(o) \/ Ops!Cancel(o) \/ Ops!LeaseExpires(o)
  BY <1>1 DEF Ops!Create, Ops!Cancel, Ops!LeaseExpires
<1>2. ASSUME NEW o \in Op, NEW c \in BOOLEAN, Ops!VerifyUpload(o, c)
      PROVE  FileOK' /\ op[o] = None /\ work' = work /\ WritesOnly(<<o, 0>>)
  BY <1>2 DEF Ops!VerifyUpload
<1>3. CASE \E w \in Worker, o \in Op : Ops!Claim(w, o)
  BY <1>3 DEF Ops!Claim
<1>4. CASE \E w \in Worker, a \in BOOLEAN : Ops!Heartbeat(w, a)
  BY <1>4 DEF Ops!Heartbeat
<1>5. ASSUME NEW w \in Worker, NEW x \in {"absent", "partial", "whole"},
             file' = [file EXCEPT ![Ops!Path(w)] = x]
      PROVE  FileOK' /\ WritesOnly(Ops!Path(w))
  BY <1>5
<1>6. ASSUME NEW w \in Worker, Ops!Begin(w) \/ Ops!CaptureEnds(w) \/ Ops!Remove(w)
      PROVE  /\ work[w] # None /\ work[w].step # "publish" /\ Others(w)
             /\ op' = op /\ identity' = identity
             /\ \/ file' = file
                \/ \E x \in {"absent", "partial", "whole"} : file' = [file EXCEPT ![Ops!Path(w)] = x]
  BY <1>6, BeginWorks, CaptureWorks, RemoveWorks DEF Ops!Begin, Ops!CaptureEnds, Ops!Remove
<1>7. CASE \E w \in Worker : Ops!Publish(w) \/ Ops!Terminal(w) \/ Ops!Fail(w) \/ Ops!LoseLock(w)
  BY <1>7 DEF Ops!Publish, Ops!Terminal, Ops!Fail, Ops!LoseLock
<1>8. CASE Ops!Reset \/ Ops!Resume \/ UNCHANGED Ops!vars
  BY <1>8 DEF Ops!Reset, Ops!Resume, Ops!vars
<1>9. CASE Ops!Restore
  BY <1>9 DEF Ops!Restore
<1>10. CASE \E o \in Op, c \in BOOLEAN : Ops!VerifyUpload(o, c)
  BY <1>2, <1>10
<1>11. CASE \E w \in Worker : Ops!Begin(w) \/ Ops!CaptureEnds(w) \/ Ops!Remove(w)
  <2>1. PICK w \in Worker : Ops!Begin(w) \/ Ops!CaptureEnds(w) \/ Ops!Remove(w)
    BY <1>11
  <2> QED
    BY <1>5, <1>6, <2>1
<1> QED
  BY <1>1, <1>3, <1>4, <1>7, <1>8, <1>9, <1>10, <1>11 DEF Ops!Next

\* Nothing but the end of a capture brings a worker to the publication.
LEMMA ToPublish ==
  ASSUME OpsTyped, TokensArePast, [Ops!Next]_(Ops!vars), NEW w \in Worker, Ops!At(w, "publish")'
  PROVE  \/ work'[w] = work[w]
         \/ /\ work[w] # None /\ work'[w].op = work[w].op /\ work'[w].attempt = work[w].attempt
            /\ work'[w].kind = work[w].kind /\ work[w].attempt <= MaxAttempts
            /\ file' = [file EXCEPT ![Ops!Path(w)] = "whole"]
<1> USE DEF Ops!At
<1>1. CASE work' = work
  BY <1>1
<1>2. CASE \E v \in Worker, o \in Op : Ops!Claim(v, o)
  BY <1>2, ClaimWorks DEF Others
<1>3. CASE \E v \in Worker : Ops!Begin(v)
  BY <1>3, BeginWorks DEF Others, Reaches
<1>4. CASE \E v \in Worker, a \in BOOLEAN : Ops!Heartbeat(v, a)
  BY <1>4, HeartbeatWorks DEF Others, Reaches
<1>5. ASSUME NEW v \in Worker, Ops!CaptureEnds(v), w # v PROVE work'[w] = work[w]
  BY <1>5, CaptureWorks DEF Others
<1>6. CASE Ops!CaptureEnds(w)
  BY <1>6, CaptureWorks DEF Reaches, Keeps, TokensArePast
<1>7. CASE \E v \in Worker : Ops!Publish(v)
  BY <1>7, PublishWorks DEF Others, Reaches, Leaves
<1>8. CASE \E v \in Worker : Ops!Remove(v)
  BY <1>8, RemoveWorks DEF Others, Reaches
<1>9. CASE \E v \in Worker : Ops!Terminal(v) \/ Ops!Fail(v)
  BY <1>9, TerminalWorks, FailWorks DEF Others, Leaves
<1>10. CASE Ops!Restore
  BY <1>10 DEF Ops!Restore
<1>11. CASE (\E o \in Op : \/ Ops!Create(o) \/ Ops!Cancel(o) \/ Ops!LeaseExpires(o)
                          \/ \E c \in BOOLEAN : Ops!VerifyUpload(o, c))
            \/ (\E v \in Worker : Ops!LoseLock(v)) \/ Ops!Reset \/ Ops!Resume \/ UNCHANGED Ops!vars
  BY <1>11 DEF Ops!Create, Ops!Cancel, Ops!LeaseExpires, Ops!VerifyUpload, Ops!LoseLock, Ops!Reset,
      Ops!Resume, Ops!vars
<1> QED
  BY <1>1, <1>2, <1>3, <1>4, <1>5, <1>6, <1>7, <1>8, <1>9, <1>10, <1>11 DEF Ops!Next

\* What was captured stays whole until it is published: the others write other files.
LEMMA CapturedStep ==
  ASSUME OpsTyped, TokensArePast, TokensDiffer, CapturedIsWhole, [Ops!Next]_(Ops!vars)
  PROVE  CapturedIsWhole'
<1> SUFFICES ASSUME NEW w \in Worker, Ops!At(w, "publish")', work'[w].kind = "backup"
             PROVE  (file[Ops!Path(w)])' = "whole"
  BY DEF CapturedIsWhole
<1>1. ASSUME work[w] # None, work'[w].op = work[w].op, work'[w].attempt = work[w].attempt,
             work'[w].kind = work[w].kind, work[w].attempt <= MaxAttempts
      PROVE  Ops!Path(w)' = Ops!Path(w) /\ Ops!Path(w) \in Paths
  BY <1>1, PathOf DEF Ops!Path
<1>2. CASE work'[w] = work[w]
  <2>1. work[w] # None /\ Ops!At(w, "publish") /\ work[w].attempt <= MaxAttempts
    BY <1>2 DEF Ops!At, TokensArePast
  <2>2. Ops!Path(w)' = Ops!Path(w) /\ Ops!Path(w) \in Paths /\ file[Ops!Path(w)] = "whole"
    BY <1>1, <1>2, <2>1 DEF CapturedIsWhole
  <2>3. file'[Ops!Path(w)] = file[Ops!Path(w)]
    <3>1. CASE file' = file
      BY <3>1
    <3>2. ASSUME NEW o \in Op, WritesOnly(<<o, 0>>) PROVE file'[Ops!Path(w)] = file[Ops!Path(w)]
      BY <1>2, <2>1, <2>2, <3>2, NotUploaded DEF WritesOnly
    <3>3. ASSUME NEW v \in Worker, work[v] # None, WritesOnly(Ops!Path(v)), work[v].step # "publish"
          PROVE  file'[Ops!Path(w)] = file[Ops!Path(w)]
      <4>1. v # w
        BY <2>1, <3>3 DEF Ops!At
      <4> QED
        BY <1>2, <2>1, <2>2, <3>3, <4>1, PathsApart DEF WritesOnly
    <3>4. ~Ops!Restore
      BY DEF Ops!Restore, Ops!At
    <3> QED
      BY <3>1, <3>2, <3>3, <3>4, FileCases
  <2> QED
    BY <2>2, <2>3
<1>3. CASE /\ work[w] # None /\ work'[w].op = work[w].op /\ work'[w].attempt = work[w].attempt
           /\ work'[w].kind = work[w].kind /\ work[w].attempt <= MaxAttempts
           /\ file' = [file EXCEPT ![Ops!Path(w)] = "whole"]
  BY <1>1, <1>3 DEF OpsTyped, FileOK
<1> QED
  BY <1>2, <1>3, ToPublish

-----------------------------------------------------------------------------
\* Nothing but a publication makes an operation ready.
LEMMA ToReady ==
  ASSUME OpsTyped, RowsAgree, TokensArePast, KindsAgree, [Ops!Next]_(Ops!vars), NEW o \in Op,
         Ops!Exists(o)', op'[o].state = "ready"
  PROVE  \/ op'[o] = op[o] /\ identity'.generation = identity.generation
         \/ \E w \in Worker : Ops!Publish(w) /\ Ops!Publishable(w) /\ work[w].op = o
<1>1. ASSUME NEW p \in Op, RowMoves(p), op'[p].state # "ready" PROVE op'[o] = op[o]
  BY <1>1 DEF RowMoves
<1>2. CASE \E p \in Op : Ops!Create(p) \/ \E c \in BOOLEAN : Ops!VerifyUpload(p, c)
  <2>1. PICK p \in Op : Ops!Create(p) \/ \E c \in BOOLEAN : Ops!VerifyUpload(p, c)
    BY <1>2
  <2>2. Opens(p) /\ identity' = identity
    BY <2>1, OpenRow DEF Ops!Create, Ops!VerifyUpload
  <2>3. p # o
    BY <2>2 DEF Opens, Ops!Exists
  <2> QED
    BY <2>2, <2>3 DEF Opens
<1>3. CASE \E p \in Op : Ops!Cancel(p) \/ Ops!LeaseExpires(p)
  BY <1>1, <1>3, CancelRow, ExpireRow DEF Ops!Cancel, Ops!LeaseExpires
<1>4. CASE \E w \in Worker, p \in Op : Ops!Claim(w, p)
  BY <1>1, <1>4, ClaimRow DEF Ops!Claim
<1>5. CASE \E w \in Worker, a \in BOOLEAN : Ops!Heartbeat(w, a)
  BY <1>1, <1>5, HeartbeatRow DEF Ops!Heartbeat
<1>6. CASE \E w \in Worker : Ops!Terminal(w)
  BY <1>1, <1>6, TerminalRow DEF Ops!Terminal
<1>7. ASSUME NEW w \in Worker, Ops!Publish(w)
      PROVE  \/ op'[o] = op[o] /\ identity'.generation = identity.generation
             \/ Ops!Publish(w) /\ Ops!Publishable(w) /\ work[w].op = o
  <2>1. CASE ~Ops!Publishable(w)
    BY <1>7, <2>1 DEF Ops!Publish
  <2>2. CASE Ops!Publishable(w)
    <3>1. RowMoves(work[w].op) /\ identity' = identity
      BY <1>7, <2>2, PublishRow
    <3> QED
      BY <1>7, <2>2, <3>1 DEF RowMoves
  <2> QED
    BY <2>1, <2>2
<1>8. CASE \E w \in Worker :
             Ops!Begin(w) \/ Ops!CaptureEnds(w) \/ Ops!Remove(w) \/ Ops!Fail(w) \/ Ops!LoseLock(w)
  BY <1>8 DEF Ops!Begin, Ops!CaptureEnds, Ops!Remove, Ops!Fail, Ops!LoseLock
<1>9. CASE Ops!Reset
  BY <1>9 DEF Ops!Reset, Ops!Exists
<1>10. CASE Ops!Restore
  BY <1>10, RestoreRows DEF Closes, Ops!Exists
<1>11. CASE Ops!Resume \/ UNCHANGED Ops!vars
  BY <1>11 DEF Ops!Resume, Ops!vars, OpsTyped, OpsRestOK, Identities
<1> QED
  BY <1>2, <1>3, <1>4, <1>5, <1>6, <1>7, <1>8, <1>9, <1>10, <1>11 DEF Ops!Next

\* What was offered stays as it is: nobody holds its token any more.
LEMMA LeftStays ==
  ASSUME OpsTyped, [Ops!Next]_(Ops!vars), NEW o \in Op, Ops!Exists(o), op[o].state = "ready",
         op'[o] = op[o], Left(o)
  PROVE  Left(o)'
<1>1. CASE work' = work
  BY <1>1 DEF Left
<1>2. ASSUME NEW w \in Worker, NEW p \in Op, Ops!Claim(w, p) PROVE Left(o)'
  <2>1. p # o
    BY <1>2 DEF Ops!Claim, Ops!Claimable
  <2>2. work'[w].op = p /\ \A v \in Worker : v # w => work'[v] = work[v]
    BY <1>2, ClaimWorks DEF Others
  <2> QED
    BY <2>1, <2>2 DEF Left
<1>3. ASSUME NEW w \in Worker, Proceeds(w) PROVE Left(o)'
  <2>1. \A v \in Worker : v # w => work'[v] = work[v]
    <3>1. Others(w)
      BY <1>3 DEF Proceeds
    <3> QED
      BY <3>1 DEF Others
  <2>2. \/ work'[w] = None
        \/ work[w] # None /\ work'[w].op = work[w].op /\ work'[w].attempt = work[w].attempt
    BY <1>3 DEF Proceeds, Leaves, Reaches, Keeps
  <2> QED
    BY <2>1, <2>2 DEF Left
<1>4. CASE work' = [w \in Worker |-> None]
  BY <1>4 DEF Left
<1> QED
  BY <1>1, <1>2, <1>3, <1>4, WorkCases

\* Nobody is left to write the file of a backup that is ready.
LEMMA FileLeft ==
  ASSUME OpsTyped, RowsAgree, TokensArePast, KindsAgree, [Ops!Next]_(Ops!vars), NEW o \in Op,
         Ops!Exists(o), op[o].kind = "backup", op[o].state = "ready", op'[o] = op[o],
         Ops!Exists(o)', Left(o), <<o, op[o].attempt>> \in Paths
  PROVE  file'[<<o, op[o].attempt>>] = file[<<o, op[o].attempt>>]
<1>1. CASE file' = file
  BY <1>1
<1>2. ASSUME NEW p \in Op, op[p] = None, WritesOnly(<<p, 0>>)
      PROVE  file'[<<o, op[o].attempt>>] = file[<<o, op[o].attempt>>]
  BY <1>2 DEF WritesOnly, Ops!Exists
<1>3. ASSUME NEW w \in Worker, work[w] # None, WritesOnly(Ops!Path(w))
      PROVE  file'[<<o, op[o].attempt>>] = file[<<o, op[o].attempt>>]
  <2>1. Ops!Path(w) # <<o, op[o].attempt>>
    BY <1>3 DEF Ops!Path, KindsAgree, Left
  <2> QED
    BY <1>3, <2>1 DEF WritesOnly
<1>4. CASE Ops!Restore
  BY <1>4, RestoreRows DEF Closes
<1> QED
  BY <1>1, <1>2, <1>3, <1>4, FileCases

\* What was offered stays whole, and what is published is.
LEMMA OfferedStays ==
  ASSUME OpsTyped, RowsAgree, TokensArePast, KindsAgree, [Ops!Next]_(Ops!vars), NEW o \in Op,
         Ops!Exists(o), op[o].state = "ready", op'[o] = op[o], Ops!Exists(o)',
         identity'.generation = identity.generation, Offered(o)
  PROVE  Offered(o)'
<1>1. ~op'[o].cancel /\ op'[o].identity.generation = identity'.generation
  BY DEF Offered
<1>2. ASSUME op[o].kind = "backup"
      PROVE  /\ op'[o].artifact = <<o, op'[o].attempt>> /\ <<o, op'[o].attempt>> \in Paths
             /\ file'[<<o, op'[o].attempt>>] = "whole" /\ Left(o)'
  <2>1. /\ op[o].artifact = <<o, op[o].attempt>> /\ <<o, op[o].attempt>> \in Paths
        /\ file[<<o, op[o].attempt>>] = "whole" /\ Left(o)
    BY <1>2 DEF Offered
  <2>2. Left(o)'
    BY <2>1, LeftStays
  <2>3. file'[<<o, op[o].attempt>>] = file[<<o, op[o].attempt>>]
    BY <1>2, <2>1, FileLeft
  <2> QED
    BY <2>1, <2>2, <2>3
<1> QED
  BY <1>1, <1>2 DEF Offered

LEMMA OfferedNew ==
  ASSUME OpsTyped, RowsAgree, TokensArePast, TokensDiffer, KindsAgree, CapturedIsWhole,
         NEW w \in Worker, Ops!Publish(w), Ops!Publishable(w), NEW o \in Op, work[w].op = o
  PROVE  Offered(o)'
<1>1. /\ RowMoves(o) /\ ~op'[o].cancel
      /\ op'[o].identity = identity /\ identity' = identity
      /\ op'[o].artifact = Ops!Path(w) /\ op'[o].attempt = op[o].attempt
      /\ op[o].attempt = work[w].attempt /\ op[o].kind = work[w].kind /\ file' = file
  BY PublishRow
<1>2. work[w] # None /\ Ops!At(w, "publish") /\ work[w].attempt <= MaxAttempts
  BY DEF Ops!Publish, Ops!At, TokensArePast
<1>3. Ops!Path(w) \in Paths
  BY <1>2, PathOf
<1>4. op'[o].kind = op[o].kind
  BY <1>1 DEF RowMoves
<1>5. ASSUME op'[o].kind = "backup"
      PROVE  /\ op'[o].artifact = <<o, op'[o].attempt>> /\ <<o, op'[o].attempt>> \in Paths
             /\ file'[<<o, op'[o].attempt>>] = "whole" /\ Left(o)'
  <2>1. Ops!Path(w) = <<o, work[w].attempt>> /\ file[Ops!Path(w)] = "whole"
    BY <1>1, <1>2, <1>4, <1>5, BackupPath DEF CapturedIsWhole
  <2>2. Leaves(w) /\ \A v \in Worker : v # w => work'[v] = work[v]
    <3>1. Leaves(w)
      BY LeaveLeaves DEF Ops!Publish
    <3> QED
      BY <3>1 DEF Leaves, Others
  <2>3. ASSUME NEW v \in Worker, work'[v] # None, work'[v].op = o
        PROVE  work'[v].attempt # work[w].attempt
    <3>1. v # w /\ work'[v] = work[v]
      BY <2>2, <2>3 DEF Leaves
    <3> QED
      BY <1>2, <2>3, <3>1 DEF TokensDiffer
  <2>4. \A v \in Worker : work'[v] # None /\ work'[v].op = o => work'[v].attempt # op'[o].attempt
    BY <1>1, <2>3
  <2>5. Left(o)'
    BY <2>4 DEF Left
  <2> QED
    BY <1>1, <1>3, <2>1, <2>5
<1> QED
  BY <1>1, <1>5 DEF Offered

LEMMA OfferedStep ==
  ASSUME OpsTyped, RowsAgree, TokensArePast, TokensDiffer, KindsAgree, CapturedIsWhole,
         OfferedIsLeft, [Ops!Next]_(Ops!vars)
  PROVE  OfferedIsLeft'
<1> SUFFICES ASSUME NEW o \in Op, Ops!Exists(o)', op'[o].state = "ready" PROVE Offered(o)'
  BY DEF OfferedIsLeft
<1>1. CASE op'[o] = op[o] /\ identity'.generation = identity.generation
  <2>1. Ops!Exists(o) /\ op[o].state = "ready"
    BY <1>1 DEF Ops!Exists
  <2>2. Offered(o)
    BY <2>1 DEF OfferedIsLeft
  <2> QED
    BY <1>1, <2>1, <2>2, OfferedStays
<1>2. ASSUME NEW w \in Worker, Ops!Publish(w), Ops!Publishable(w), work[w].op = o PROVE Offered(o)'
  BY <1>2, OfferedNew, SMTT(30)
<1> QED
  BY <1>1, <1>2, ToReady

-----------------------------------------------------------------------------
\* The lock and the identity keep their form.
LEMMA OpsRestStep == ASSUME OpsTyped, [Ops!Next]_(Ops!vars) PROVE OpsRestOK'
<1> USE DEF OpsTyped, OpsRestOK
<1>1. CASE UNCHANGED identity
  <2>1. lock' \in Worker \cup {None}
    BY <1>1 DEF Ops!Next, Ops!Create, Ops!VerifyUpload, Ops!Cancel, Ops!Claim, Ops!Begin,
        Ops!Heartbeat, Ops!CaptureEnds, Ops!Publish,
                Ops!Remove, Ops!Terminal, Ops!Fail, Ops!LoseLock, Ops!LeaseExpires, Ops!Leave,
                Ops!Reset, Ops!Restore, Ops!Resume, Ops!vars
  <2> QED
    BY <1>1, <2>1
<1>2. CASE Ops!Reset \/ Ops!Restore \/ Ops!Resume
  <2>0. identity \in Identities /\ lock \in Worker \cup {None} /\ identity.generation + 1 \in Nat
    BY DEF Identities
  <2>1. identity' \in Identities
    <3>1. CASE Ops!Reset
      BY <2>0, <3>1 DEF Ops!Reset, Identities
    <3>2. CASE Ops!Restore
      BY <2>0, <3>2 DEF Ops!Restore, Identities
    <3>3. CASE Ops!Resume
      BY <2>0, <3>3 DEF Ops!Resume, Identities
    <3> QED
      BY <1>2, <3>1, <3>2, <3>3
  <2>2. lock' \in Worker \cup {None}
    BY <1>2, <2>0 DEF Ops!Reset, Ops!Restore, Ops!Resume
  <2> QED
    BY <2>1, <2>2
<1> QED
  BY <1>1, <1>2, ZenonT(40) DEF Ops!Next, Ops!Create, Ops!VerifyUpload, Ops!Cancel, Ops!Claim,
      Ops!Begin, Ops!Heartbeat, Ops!CaptureEnds, Ops!Publish, Ops!Remove, Ops!Terminal,
      Ops!Fail, Ops!LoseLock, Ops!LeaseExpires, Ops!vars

\* The invariant holds at first and is kept by every step.
LEMMA OpsInvInit == ASSUME OpsGiven PROVE Ops!Init => OpsIInv
<1> SUFFICES ASSUME Ops!Init PROVE OpsIInv
  OBVIOUS
<1>1. /\ op = [o \in Op |-> None] /\ work = [w \in Worker |-> None] /\ lock = None
      /\ file = [a \in Paths |-> "absent"] /\ identity = [generation |-> 1, mode |-> "normal"]
  BY DEF Ops!Init, Paths
<1>2. OpsTyped
  BY <1>1 DEF OpsGiven, OpsTyped, Apart, OpOK, WorkOK, FileOK, OpsRestOK, Identities
<1>3. /\ OneActive /\ RowsAgree /\ TokensArePast /\ TokensDiffer /\ KindsAgree
      /\ CapturedIsWhole /\ OfferedIsLeft
  BY <1>1 DEF OneActive, RowsAgree, TokensArePast, TokensDiffer, KindsAgree, CapturedIsWhole,
              OfferedIsLeft, Ops!Exists, Ops!At
<1> QED
  BY <1>2, <1>3 DEF OpsIInv

LEMMA OpsInvStep == OpsIInv /\ [Ops!Next]_(Ops!vars) => OpsIInv'
<1> SUFFICES ASSUME OpsIInv, [Ops!Next]_(Ops!vars) PROVE OpsIInv'
  OBVIOUS
<1>1. /\ OpsTyped /\ OneActive /\ RowsAgree /\ TokensArePast /\ TokensDiffer /\ KindsAgree
      /\ CapturedIsWhole /\ OfferedIsLeft
  BY DEF OpsIInv
<1>2. OpOK' /\ WorkOK' /\ FileOK' /\ OpsRestOK'
  BY <1>1, OpType, WorkType, FileCases, OpsRestStep
<1>3. OpsTyped'
  BY <1>1, <1>2 DEF OpsTyped, Apart
<1>4. OneActive' /\ RowsAgree' /\ TokensArePast' /\ TokensDiffer' /\ KindsAgree'
  BY <1>1, OneStep, TokensStep
<1>5. CapturedIsWhole' /\ OfferedIsLeft'
  BY <1>1, CapturedStep, OfferedStep
<1> QED
  BY <1>3, <1>4, <1>5 DEF OpsIInv

\* A set whose elements are all the same has one at most.
LEMMA AtMostOne == ASSUME NEW S, \A x, y \in S : x = y PROVE Cardinality(S) <= 1
<1>1. CASE S = {}
  BY <1>1, FS_EmptySet
<1>2. CASE S # {}
  <2>1. PICK x \in S : S = {x}
    BY <1>2
  <2>2. Cardinality({x}) = 1
    BY FS_Singleton
  <2> QED
    BY <2>1, <2>2
<1> QED
  BY <1>1, <1>2

\* The rows are well formed, and there is never more than one operation under way.
THEOREM OperationsTyped == ASSUME OpsGiven PROVE Ops!Spec => []Ops!TypeOK
<1>1. OpsIInv => Ops!TypeOK
  <2> SUFFICES ASSUME OpsIInv PROVE Ops!TypeOK
    OBVIOUS
  <2> DEFINE A == {o \in Op : Ops!Exists(o) /\ op[o].state \in Ops!Active}
  <2>1. Cardinality(A) <= 1
    <3>1. \A o, p \in A : o = p
      BY DEF OpsIInv, OneActive
    <3> HIDE DEF A
    <3> QED
      BY <3>1, AtMostOne
  <2>2. ASSUME NEW o \in Op, Ops!Exists(o)
        PROVE  /\ op[o].state \in Ops!Active \cup Ops!Ended
                  /\ op[o].attempt \in 0..(MaxAttempts + 1)
               /\ op[o].live => op[o].state = "running"
               /\ (op[o].artifact # None) = (op[o].state = "ready")
    BY <2>2, InRows DEF OpsIInv, RowsAgree
  <2> QED
    BY <2>1, <2>2, OpsCounts DEF OpsIInv, OpsTyped, OpsRestOK, Ops!TypeOK
<1> QED
  BY <1>1, OpsInvInit, OpsInvStep, PTL DEF Ops!Spec

\* A backup that is offered is a whole file, not cancelled, and of this instance: whatever
\* workers of older attempts still do to the directory (instance_operations.rs).
THEOREM OperationsOfferWhole == ASSUME OpsGiven PROVE Ops!Spec => []Ops!OfferedBackupIsWhole
<1>1. OpsIInv => Ops!OfferedBackupIsWhole
  BY DEF OpsIInv, OfferedIsLeft, Offered, Ops!OfferedBackupIsWhole
<1> QED
  BY <1>1, OpsInvInit, OpsInvStep, PTL DEF Ops!Spec

\* An operation that ended never changes again, unless the instance is restored.
THEOREM OperationsStayEnded == ASSUME OpsGiven PROVE Ops!Spec => Ops!EndedStaysEnded
<1>1. OpsIInv /\ [Ops!Next]_(Ops!vars) => [Ops!EndedStep]_(Ops!vars)
  <2> SUFFICES ASSUME OpsIInv, [Ops!Next]_(Ops!vars), NEW o \in Op, Ops!Exists(o),
                      op[o].state \in Ops!Ended,
                      identity' = identity
               PROVE  op'[o] = op[o]
    BY DEF Ops!EndedStep
  <2>1. CASE op' = op
    BY <2>1
  <2>2. CASE \E p \in Op : Opens(p) \/ RowMoves(p)
    BY <2>2 DEF Opens, RowMoves, Ops!Exists, Ops!Active, Ops!Ended
  <2> QED
    BY <2>1, <2>2, OpCases DEF OpsIInv
<1> QED
  BY <1>1, OpsInvInit, OpsInvStep, PTL DEF Ops!Spec, Ops!EndedStaysEnded

(***************************************************************************)
(* Accounts.  Whoever has the row of an account locked knows what its      *)
(* password is until it commits, and that its link is still good; what has *)
(* no lock changes nothing of an account that is locked.                   *)
(***************************************************************************)
SessionRow == [user : User, password : Nat]
LinkRow == [user : User, live : BOOLEAN]
TxRow == [step : {"locked", "admitted", "found"}, kind : {"login", "change", "reset"},
          user : User, with : Nat \cup {None}, id : Session \cup Link \cup {None}]

\* What is not there yet, and what is gone, are no rows.
AccountsGiven ==
  /\ Root \in User /\ None # Gone
  /\ \A x \in {None, Gone} :
       x \notin Nat /\ x \notin SessionRow /\ x \notin LinkRow /\ x \notin TxRow /\ x \notin User

AccountsTyped ==
  /\ account \in [User -> {None, Gone} \cup Nat]
  /\ session \in [Session -> {None, Gone} \cup SessionRow]
  /\ link \in [Link -> {None, Gone} \cup LinkRow]
  /\ signing \in [Request -> {None} \cup TxRow]
  /\ shell \in User \cup {None}
  /\ lastSet \in [Link -> Nat]

Holds(r) == signing[r] # None /\ signing[r].step = "locked"
HoldsApart == \A q, r \in Request : Holds(q) /\ Holds(r) /\ signing[q].user = signing[r].user
  => q = r

\* What a transaction may rely on.
TxKnows(r) == signing[r] # None =>
  /\ signing[r].step = "locked" => Users!Exists(signing[r].user)
  /\ signing[r].kind = "login" => signing[r].step = "locked"
     /\ account[signing[r].user] = signing[r].with
  /\ signing[r].kind = "reset" =>
       /\ signing[r].id \in Link /\ link[signing[r].id] # None
       /\ link[signing[r].id] # Gone => link[signing[r].id].user = signing[r].user
       /\ signing[r].step = "locked" => Users!Usable(signing[r].id)

SessionsAgree == \A s \in Session : Users!Live(s) =>
  /\ Users!Exists(session[s].user)
  /\ session[s].password = account[session[s].user] \/ shell = session[s].user

\* A link that can still set a password has set none.
LinksSetOnce == \A l \in Link :
  /\ lastSet[l] <= 1
  /\ link[l] = None \/ Users!Usable(l) => lastSet[l] = 0

AccountsIInv ==
  /\ AccountsTyped /\ HoldsApart /\ \A r \in Request : TxKnows(r)
  /\ SessionsAgree /\ LinksSetOnce

-----------------------------------------------------------------------------
LEMMA AccountsInit == ASSUME AccountsGiven PROVE Users!Init => AccountsIInv
  BY DEF Users!Init, AccountsIInv, AccountsGiven, AccountsTyped, HoldsApart, Holds, TxKnows,
         SessionsAgree,
     LinksSetOnce, Users!Live, Users!Usable

LEMMA AccountsThere ==
  ASSUME AccountsGiven, AccountsTyped
  PROVE  /\ \A u \in User : Users!Exists(u) <=> account[u] \in Nat
         /\ \A s \in Session : Users!Live(s) <=> session[s] \in SessionRow
         /\ \A l \in Link : link[l] \notin {None, Gone} <=> link[l] \in LinkRow
         /\ \A r \in Request : signing[r] # None <=> signing[r] \in TxRow
  BY DEF AccountsGiven, AccountsTyped, Users!Exists, Users!Live

\* A link comes once, then it is spent or goes.
LinkGoes(l) ==
  \/ link'[l] = link[l]
  \/ link[l] = None /\ link'[l] \in LinkRow
  \/ link[l] \in LinkRow /\ link'[l] = Gone
  \/ link[l] \in LinkRow /\ link'[l] \in LinkRow /\ link'[l].user = link[l].user /\ ~link'[l].live

\* What a locked transaction relies on stays, and nothing is locked but by one.
Respects(q) == Holds(q) =>
  /\ account'[signing[q].user] = account[signing[q].user]
  /\ signing[q].kind = "reset" => link'[signing[q].id] = link[signing[q].id]
TxStays(q) == signing'[q] = signing[q] /\ Respects(q)
UsersTxEnds(q) == signing'[q] = None
TxMoves(r) ==
  /\ signing'[r] \in TxRow /\ account' = account /\ link' = link
  /\ signing'[r].step = "locked" => Users!Exists(signing'[r].user)
     /\ Users!Unlocked(signing'[r].user)
  /\ signing'[r].kind = "login" => signing'[r].step = "locked"
     /\ account[signing'[r].user] = signing'[r].with
  /\ signing'[r].kind = "reset" =>
       /\ signing'[r].id \in Link /\ link[signing'[r].id] # None
       /\ link[signing'[r].id] # Gone => link[signing'[r].id].user = signing'[r].user
       /\ signing'[r].step = "locked" => Users!Usable(signing'[r].id)
TxGo == \E r \in Request :
  /\ TxStays(r) \/ UsersTxEnds(r) \/ TxMoves(r)
  /\ \A q \in Request \ {r} : TxStays(q)
TxAllStay == \A q \in Request : TxStays(q)

TxSet(r, row) == signing' = [signing EXCEPT ![r] = row]
LEMMA TxSetGoes ==
  ASSUME AccountsTyped, NEW r \in Request, NEW row \in TxRow \cup {None}, TxSet(r, row)
  PROVE  /\ signing'[r] = row /\ \A q \in Request \ {r} : signing'[q] = signing[q]
         /\ signing' \in [Request -> {None} \cup TxRow]
  BY DEF AccountsTyped, TxSet

\* Where a link was spent, or went with its account.
LEMMA LinksSpent ==
  ASSUME AccountsGiven, AccountsTyped, NEW u \in User, link' = Users!Spent(u)
  PROVE  /\ link' \in [Link -> {None, Gone} \cup LinkRow]
         /\ \A l \in Link : LinkGoes(l)
         /\ \A l \in Link : link[l] \in LinkRow /\ link[l].user = u =>
              link'[l] \in LinkRow /\ ~link'[l].live
         /\ \A l \in Link : ~(link[l] \in LinkRow /\ link[l].user = u) => link'[l] = link[l]
<1>1. ASSUME NEW l \in Link, link[l] \in LinkRow, link[l].user = u
      PROVE  link'[l] \in LinkRow /\ link'[l].user = link[l].user /\ ~link'[l].live
  <2>1. link'[l] = [link[l] EXCEPT !.live = FALSE]
    BY <1>1 DEF Users!Spent, AccountsGiven
  <2> QED
    BY <1>1, <2>1 DEF LinkRow
<1>2. ASSUME NEW l \in Link, ~(link[l] \in LinkRow /\ link[l].user = u)
      PROVE  link'[l] = link[l]
  BY <1>2, AccountsThere DEF Users!Spent
<1>3. link' = [l \in Link |-> link'[l]]
  BY DEF Users!Spent
<1>4. \A l \in Link : link'[l] \in {None, Gone} \cup LinkRow
  BY <1>1, <1>2 DEF AccountsTyped
<1>5. link' \in [Link -> {None, Gone} \cup LinkRow]
  BY <1>3, <1>4
<1>6. \A l \in Link : LinkGoes(l)
  BY <1>1, <1>2 DEF LinkGoes
<1> QED
  BY <1>1, <1>2, <1>5, <1>6

LEMMA AccountGone ==
  ASSUME AccountsGiven, AccountsTyped, NEW u \in User, Users!Without(u)
  PROVE  /\ link' \in [Link -> {None, Gone} \cup LinkRow]
         /\ session' \in [Session -> {None, Gone} \cup SessionRow]
         /\ \A l \in Link : LinkGoes(l)
         /\ \A l \in Link : ~(link[l] \in LinkRow /\ link[l].user = u) => link'[l] = link[l]
         /\ \A s \in Session : session'[s] = IF session[s] \in SessionRow /\ session[s].user = u
                                             THEN Gone ELSE session[s]
<1>1. \A l \in Link : link'[l] = IF link[l] \in LinkRow /\ link[l].user = u THEN Gone ELSE link[l]
  BY AccountsThere DEF Users!Without
<1>2. \A s \in Session : session'[s] = IF session[s] \in SessionRow /\ session[s].user = u
                                       THEN Gone ELSE session[s]
  BY AccountsThere DEF Users!Without
<1>3. link' \in [Link -> {None, Gone} \cup LinkRow]
  BY DEF Users!Without, AccountsTyped
<1>4. session' \in [Session -> {None, Gone} \cup SessionRow]
  BY DEF Users!Without, AccountsTyped
<1>5. \A l \in Link : LinkGoes(l)
  BY <1>1 DEF LinkGoes
<1> QED
  BY <1>1, <1>2, <1>3, <1>4, <1>5

\* The session with a new password, and those that are closed.
LEMMA SessionsClose ==
  ASSUME AccountsGiven, AccountsTyped, NEW u \in User, session' = Users!Closed(u)
  PROVE  /\ session' \in [Session -> {None, Gone} \cup SessionRow]
         /\ \A s \in Session : session'[s] = IF session[s] \in SessionRow /\ session[s].user = u
                                             THEN Gone ELSE session[s]
<1>1. session' \in [Session -> {None, Gone} \cup SessionRow]
  BY DEF Users!Closed, AccountsTyped
<1>2. \A s \in Session : session'[s] = IF session[s] \in SessionRow /\ session[s].user = u
                                       THEN Gone ELSE session[s]
  BY AccountsThere DEF Users!Closed
<1> QED
  BY <1>1, <1>2

\* The password of an account is set.
LEMMA PasswordSet ==
  ASSUME AccountsGiven, AccountsTyped, NEW u \in User, NEW v \in Nat \cup {Gone},
         account' = [account EXCEPT ![u] = v]
  PROVE  /\ account'[u] = v /\ \A x \in User \ {u} : account'[x] = account[x]
         /\ account' \in [User -> {None, Gone} \cup Nat]
  BY DEF AccountsTyped

\* What holds an account's row keeps the rest of them from it.
LEMMA OthersStay ==
  ASSUME AccountsGiven, AccountsTyped, \A r \in Request : TxKnows(r), NEW u \in User,
         \A x \in User \ {u} : account'[x] = account[x],
         \A l \in Link : ~(link[l] \in LinkRow /\ link[l].user = u) => link'[l] = link[l],
         NEW q \in Request, signing'[q] = signing[q], ~(Holds(q) /\ signing[q].user = u)
  PROVE  TxStays(q)
<1> SUFFICES ASSUME Holds(q)
             PROVE  /\ account'[signing[q].user] = account[signing[q].user]
                    /\ signing[q].kind = "reset" => link'[signing[q].id] = link[signing[q].id]
  BY DEF TxStays, Respects
<1>1. signing[q] \in TxRow /\ signing[q].user \in User \ {u}
  BY AccountsThere DEF Holds, TxRow
<1>2. signing[q].kind = "reset" => signing[q].id \in Link /\ link[signing[q].id] \notin {None, Gone}
                             /\ link[signing[q].id].user = signing[q].user
  BY DEF TxKnows, Holds, Users!Usable
<1> QED
  BY <1>1, <1>2

-----------------------------------------------------------------------------
\* What a step does to the transactions and to the links.
LEMMA AccountSteps ==
  ASSUME AccountsGiven, AccountsTyped, HoldsApart, \A r \in Request : TxKnows(r),
         [Users!Next]_(Users!vars)
  PROVE  AccountsTyped' /\ (TxGo \/ TxAllStay) /\ \A l \in Link : LinkGoes(l)
<1> DEFINE Said == AccountsTyped' /\ (TxGo \/ TxAllStay) /\ \A l \in Link : LinkGoes(l)
<1>0. /\ \A u \in User : Users!Exists(u) <=> account[u] \in Nat
      /\ \A s \in Session : Users!Live(s) <=> session[s] \in SessionRow
      /\ \A l \in Link : link[l] \notin {None, Gone} <=> link[l] \in LinkRow
      /\ \A r \in Request : signing[r] # None <=> signing[r] \in TxRow
  BY AccountsThere
<1>a. ASSUME NEW q \in Request, signing' = signing \/ signing'[q] = signing[q], account' = account,
             link' = link
      PROVE  TxStays(q)
  BY <1>a DEF TxStays, Respects
<1>b. ASSUME signing' = signing, account' = account, link' = link
      PROVE  TxAllStay /\ \A l \in Link : LinkGoes(l)
  BY <1>a, <1>b DEF TxAllStay, LinkGoes
<1>c. ASSUME NEW u \in User, Users!Unlocked(u), signing' = signing,
             \A x \in User \ {u} : account'[x] = account[x],
             \A l \in Link : ~(link[l] \in LinkRow /\ link[l].user = u) => link'[l] = link[l]
      PROVE  TxAllStay
  <2>1. \A q \in Request : ~(Holds(q) /\ signing[q].user = u)
    BY <1>c DEF Users!Unlocked, Holds
  <2> QED
    BY <1>c, <2>1, OthersStay DEF TxAllStay
<1>d. ASSUME NEW r \in Request, signing' = [signing EXCEPT ![r] = None], account' = account,
             link' = link
      PROVE  TxGo /\ (\A l \in Link : LinkGoes(l)) /\ signing' \in [Request -> {None} \cup TxRow]
  <2>1. UsersTxEnds(r) /\ signing' \in [Request -> {None} \cup TxRow]
        /\ \A q \in Request \ {r} : signing'[q] = signing[q]
    BY <1>d, TxSetGoes DEF UsersTxEnds, TxSet
  <2> QED
    BY <1>a, <1>d, <2>1 DEF TxGo, LinkGoes
<1>e. ASSUME NEW r \in Request, NEW row \in TxRow, TxSet(r, row), account' = account, link' = link,
             session' = session, shell' = shell, lastSet' = lastSet,
             row.step = "locked" => Users!Exists(row.user) /\ Users!Unlocked(row.user),
             row.kind = "login" => row.step = "locked" /\ account[row.user] = row.with,
             row.kind = "reset" =>
               /\ row.id \in Link /\ link[row.id] # None
               /\ link[row.id] # Gone => link[row.id].user = row.user
               /\ row.step = "locked" => Users!Usable(row.id)
      PROVE  Said
  <2>1. signing'[r] = row /\ signing' \in [Request -> {None} \cup TxRow]
        /\ \A q \in Request \ {r} : signing'[q] = signing[q]
    BY <1>e, TxSetGoes
  <2>2. TxMoves(r)
    BY <1>e, <2>1 DEF TxMoves
  <2>3. TxGo /\ \A l \in Link : LinkGoes(l)
    BY <1>a, <1>e, <2>1, <2>2 DEF TxGo, LinkGoes
  <2> QED
    BY <1>e, <2>1, <2>3 DEF AccountsTyped
<1>f. ASSUME NEW u \in User, account[u] = None, account' = [account EXCEPT ![u] = 1],
             UNCHANGED <<session, link, assigned, signing, shell, lastSet>>
      PROVE  Said
  <2>1. (\A x \in User \ {u} : account'[x] = account[x])
        /\ account' \in [User -> {None, Gone} \cup Nat]
    BY <1>f, PasswordSet
  <2>2. \A q \in Request : ~(Holds(q) /\ signing[q].user = u)
    BY <1>f DEF Holds, TxKnows, Users!Exists
  <2>3. TxAllStay
    BY <1>f, <2>1, <2>2, OthersStay DEF TxAllStay
  <2> QED
    BY <1>f, <2>1, <2>3 DEF AccountsTyped, LinkGoes
<1>1. ASSUME Users!EnsureOwner
      PROVE  Said
  BY <1>1, <1>f DEF Users!EnsureOwner, AccountsGiven
<1>2. ASSUME NEW u \in User, Users!Create(u)
      PROVE  Said
  BY <1>2, <1>f DEF Users!Create
<1>3. ASSUME NEW u \in User, Users!Delete(u)
      PROVE  Said
  <2>1. account' = [account EXCEPT ![u] = Gone] /\ Users!Without(u) /\ Users!Unlocked(u)
        /\ UNCHANGED <<signing, shell, lastSet>>
    BY <1>3 DEF Users!Delete
  <2>2. (\A x \in User \ {u} : account'[x] = account[x])
        /\ account' \in [User -> {None, Gone} \cup Nat]
    BY <2>1, PasswordSet
  <2>3. /\ link' \in [Link -> {None, Gone} \cup LinkRow]
        /\ session' \in [Session -> {None, Gone} \cup SessionRow]
        /\ \A l \in Link : LinkGoes(l)
        /\ \A l \in Link : ~(link[l] \in LinkRow /\ link[l].user = u) => link'[l] = link[l]
    BY <2>1, AccountGone
  <2>4. TxAllStay
    BY <1>c, <2>1, <2>2, <2>3
  <2> QED
    BY <2>1, <2>2, <2>3, <2>4 DEF AccountsTyped
<1>4. ASSUME NEW u \in User, Users!ShellUpdate(u)
      PROVE  Said
  <2>1. account' = [account EXCEPT ![u] = Users!NextPassword(u)] /\ Users!Unlocked(u) /\ shell' = u
        /\ UNCHANGED <<session, link, signing, lastSet>> /\ Users!NextPassword(u) \in Nat
    BY <1>0, <1>4 DEF Users!ShellUpdate, Users!NextPassword
  <2>2. (\A x \in User \ {u} : account'[x] = account[x])
        /\ account' \in [User -> {None, Gone} \cup Nat]
    BY <2>1, PasswordSet
  <2>3. TxAllStay
    BY <1>c, <2>1, <2>2
  <2> QED
    BY <2>1, <2>2, <2>3 DEF AccountsTyped, LinkGoes
<1>5. ASSUME Users!ShellDelete
      PROVE  Said
  <2>1. session' \in [Session -> {None, Gone} \cup SessionRow] /\ shell' = None
        /\ UNCHANGED <<account, link, signing, lastSet>>
    BY <1>5 DEF Users!ShellDelete, Users!Closed, AccountsTyped
  <2> QED
    BY <1>b, <2>1 DEF AccountsTyped
<1>6. ASSUME NEW u \in User, NEW p \in Project, Users!Assign(u, p) \/ Users!Unassign(u, p)
      PROVE  Said
  BY <1>6, <1>b DEF Users!Assign, Users!Unassign, AccountsTyped
<1>7. ASSUME NEW r \in Request, NEW u \in User, NEW password \in 1 .. MaxPassword,
             Users!LoginLock(r, u, password)
      PROVE  Said
  <2> DEFINE row == [step |-> "locked", kind |-> "login", user |-> u, with |-> password,
                     id |-> None]
  <2>1. row \in TxRow /\ row.step = "locked" /\ row.kind = "login" /\ row.user = u
        /\ row.with = password
    BY DEF TxRow
  <2>2. TxSet(r, row) /\ Users!Exists(u) /\ Users!Unlocked(u) /\ account[u] = password
        /\ UNCHANGED <<account, session, link, shell, lastSet>>
    BY <1>7 DEF Users!LoginLock, Users!Verified, TxSet
  <2> HIDE DEF row
  <2> QED
    BY <1>e, <2>1, <2>2
<1>8. ASSUME NEW r \in Request, NEW s \in Session, Users!LoginCommit(r, s)
      PROVE  Said
  <2>1. signing' = [signing EXCEPT ![r] = None] /\ UNCHANGED <<account, link, shell, lastSet>>
        /\ session' = [session EXCEPT ![s] = [user |-> signing[r].user, password |-> signing[r].with]]
    BY <1>8 DEF Users!LoginCommit
  <2>2. [user |-> signing[r].user, password |-> signing[r].with] \in SessionRow
    <3>1. signing[r] \in TxRow /\ account[signing[r].user] = signing[r].with
          /\ Users!Exists(signing[r].user)
      BY <1>0, <1>8 DEF Users!LoginCommit, TxKnows
    <3>2. signing[r].user \in User
      BY <3>1 DEF TxRow
    <3> QED
      BY <1>0, <3>1, <3>2 DEF SessionRow
  <2>3. session' \in [Session -> {None, Gone} \cup SessionRow]
    BY <2>1, <2>2 DEF AccountsTyped
  <2> QED
    BY <1>d, <2>1, <2>3 DEF AccountsTyped
<1>9. ASSUME NEW r \in Request, NEW s \in Session, Users!ChangeBegin(r, s)
      PROVE  Said
  <2> DEFINE row == [step |-> "admitted", kind |-> "change", user |-> session[s].user,
                     with |-> None, id |-> s]
  <2>1. session[s].user \in User
    BY <1>0, <1>9 DEF Users!ChangeBegin, Users!Admits, SessionRow
  <2>2. row \in TxRow /\ row.step = "admitted" /\ row.kind = "change"
    BY <2>1 DEF TxRow
  <2>3. TxSet(r, row) /\ UNCHANGED <<account, session, link, shell, lastSet>>
    BY <1>9 DEF Users!ChangeBegin, TxSet
  <2> HIDE DEF row
  <2> QED
    BY <1>e, <2>2, <2>3
<1>10. ASSUME NEW r \in Request, NEW password \in 1 .. MaxPassword, Users!ChangeLock(r, password)
       PROVE  Said
  <2>1. signing[r] \in TxRow /\ signing[r].kind = "change"
        /\ UNCHANGED <<account, session, link, shell, lastSet>>
    BY <1>0, <1>10 DEF Users!ChangeLock
  <2>2. CASE signing' = [signing EXCEPT ![r] = None]
    BY <1>d, <2>1, <2>2 DEF AccountsTyped
  <2>3. CASE signing' = [signing EXCEPT ![r].step = "locked"] /\ Users!Exists(signing[r].user)
             /\ Users!Unlocked(signing[r].user)
    <3> DEFINE row == [signing[r] EXCEPT !.step = "locked"]
    <3>1. row \in TxRow /\ row.step = "locked" /\ row.kind = "change" /\ row.user = signing[r].user
      BY <2>1 DEF TxRow
    <3>2. TxSet(r, row)
      BY <2>3 DEF TxSet
    <3> HIDE DEF row
    <3> QED
      BY <1>e, <2>1, <2>3, <3>1, <3>2
  <2> QED
    BY <1>10, <2>2, <2>3 DEF Users!ChangeLock
<1>11. ASSUME NEW r \in Request, Users!ChangeCommit(r) \/ Users!ResetCommit(r)
       PROVE  Said
  <2>0. signing[r] \in TxRow /\ Holds(r) /\ signing[r].kind \in {"change", "reset"}
    BY <1>0, <1>11 DEF Users!ChangeCommit, Users!ResetCommit, Holds
  <2>1. PICK u \in User : u = signing[r].user
    BY <2>0 DEF TxRow
  <2>2. account' = [account EXCEPT ![u] = Users!NextPassword(u)] /\ link' = Users!Spent(u)
        /\ signing' = [signing EXCEPT ![r] = None] /\ shell' = shell
    BY <1>11, <2>1 DEF Users!ChangeCommit, Users!ResetCommit
  <2>3. Users!NextPassword(u) \in Nat
    BY <1>0, <2>0, <2>1 DEF TxKnows, Holds, Users!NextPassword
  <2>4. (\A x \in User \ {u} : account'[x] = account[x])
        /\ account' \in [User -> {None, Gone} \cup Nat]
    BY <2>2, <2>3, PasswordSet
  <2>5. /\ link' \in [Link -> {None, Gone} \cup LinkRow]
        /\ \A l \in Link : LinkGoes(l)
        /\ \A l \in Link : ~(link[l] \in LinkRow /\ link[l].user = u) => link'[l] = link[l]
    BY <2>2, LinksSpent
  <2>6. signing'[r] = None /\ signing' \in [Request -> {None} \cup TxRow]
        /\ \A q \in Request \ {r} : signing'[q] = signing[q]
    BY <2>2, TxSetGoes DEF TxSet
  <2>7. \A q \in Request \ {r} : TxStays(q)
    <3>1. \A q \in Request \ {r} : ~(Holds(q) /\ signing[q].user = u)
      BY <2>0, <2>1 DEF HoldsApart
    <3> QED
      BY <2>4, <2>5, <2>6, <3>1, OthersStay
  <2>8. TxGo
    BY <2>6, <2>7 DEF TxGo, UsersTxEnds
  <2>9. session' \in [Session -> {None, Gone} \cup SessionRow]
    <3>1. CASE Users!ResetCommit(r)
      BY <2>1, <3>1 DEF Users!ResetCommit, AccountsTyped
    <3>2. CASE Users!ChangeCommit(r)
      <4>1. session' = [s \in Session |->
              IF ~Users!Live(s) \/ session[s].user # u THEN session[s]
              ELSE IF s = signing[r].id
                          THEN [session[s] EXCEPT !.password = Users!NextPassword(u)]
              ELSE Gone]
        BY <2>1, <3>2 DEF Users!ChangeCommit
      <4>2. \A s \in Session : Users!Live(s) =>
              [session[s] EXCEPT !.password = Users!NextPassword(u)] \in SessionRow
        BY <1>0, <2>3 DEF SessionRow
      <4>3. \A s \in Session : session'[s] \in {None, Gone} \cup SessionRow
        BY <4>1, <4>2 DEF AccountsTyped
      <4> QED
        BY <4>1, <4>3
    <3> QED
      BY <1>11, <3>1, <3>2
  <2>10. lastSet' \in [Link -> Nat]
    BY <1>11 DEF Users!ChangeCommit, Users!ResetCommit, AccountsTyped
  <2>11. AccountsTyped'
    BY <2>2, <2>4, <2>5, <2>6, <2>9, <2>10 DEF AccountsTyped
  <2> QED
    BY <2>5, <2>8, <2>11
<1>12. ASSUME NEW u \in User, NEW l \in Link, Users!Forgot(u, l)
       PROVE  Said
  <2> DEFINE row == [user |-> u, live |-> TRUE]
  <2>1. row \in LinkRow
    BY DEF LinkRow
  <2>2. link[l] = None /\ link' = [link EXCEPT ![l] = row]
        /\ UNCHANGED <<account, session, signing, shell, lastSet>>
    BY <1>12 DEF Users!Forgot
  <2> HIDE DEF row
  <2>3. link'[l] = row /\ (\A k \in Link \ {l} : link'[k] = link[k])
        /\ link' \in [Link -> {None, Gone} \cup LinkRow]
    BY <2>1, <2>2 DEF AccountsTyped
  <2>4. \A k \in Link : LinkGoes(k)
    BY <2>1, <2>2, <2>3 DEF LinkGoes
  <2>5. ASSUME NEW q \in Request PROVE TxStays(q)
    <3>1. Holds(q) /\ signing[q].kind = "reset" => signing[q].id \in Link \ {l}
      BY <2>2 DEF Holds, TxKnows
    <3> QED
      BY <2>2, <2>3, <3>1 DEF TxStays, Respects
  <2> QED
    BY <2>2, <2>3, <2>4, <2>5 DEF TxAllStay, AccountsTyped
<1>13. ASSUME NEW r \in Request, NEW l \in Link, Users!ResetFind(r, l)
       PROVE  Said
  <2> DEFINE row == [step |-> "found", kind |-> "reset", user |-> link[l].user, with |-> None,
                     id |-> l]
  <2>1. link[l] \in LinkRow /\ link[l] \notin {None, Gone}
    BY <1>0, <1>13 DEF Users!ResetFind, Users!Usable
  <2>2. link[l].user \in User
    BY <2>1 DEF LinkRow
  <2>3. row \in TxRow /\ row.step = "found" /\ row.kind = "reset" /\ row.user = link[l].user
        /\ row.id = l
    BY <2>2 DEF TxRow
  <2>4. TxSet(r, row) /\ UNCHANGED <<account, session, link, shell, lastSet>>
    BY <1>13 DEF Users!ResetFind, TxSet
  <2> HIDE DEF row
  <2> QED
    BY <1>e, <2>1, <2>3, <2>4
<1>14. ASSUME NEW r \in Request, Users!ResetLock(r)
       PROVE  Said
  <2>1. signing[r] \in TxRow /\ signing[r].kind = "reset"
        /\ UNCHANGED <<account, session, link, shell, lastSet>>
    BY <1>0, <1>14 DEF Users!ResetLock
  <2>2. CASE signing' = [signing EXCEPT ![r] = None]
    BY <1>d, <2>1, <2>2 DEF AccountsTyped
  <2>3. CASE signing' = [signing EXCEPT ![r].step = "locked"] /\ Users!Exists(signing[r].user)
             /\ Users!Unlocked(signing[r].user)
             /\ Users!Usable(signing[r].id)
    <3> DEFINE row == [signing[r] EXCEPT !.step = "locked"]
    <3>1. row \in TxRow /\ row.step = "locked" /\ row.kind = "reset" /\ row.user = signing[r].user
          /\ row.id = signing[r].id
      BY <2>1 DEF TxRow
    <3>2. TxSet(r, row)
      BY <2>3 DEF TxSet
    <3>3. /\ signing[r].id \in Link /\ link[signing[r].id] # None
          /\ link[signing[r].id] # Gone => link[signing[r].id].user = signing[r].user
      BY <1>0, <2>1 DEF TxKnows
    <3> HIDE DEF row
    <3> QED
      BY <1>e, <2>1, <2>3, <3>1, <3>2, <3>3
  <2> QED
    BY <1>14, <2>2, <2>3 DEF Users!ResetLock, Users!StillUsable
<1>15. ASSUME NEW r \in Request, Users!Abort(r)
       PROVE  Said
  BY <1>15, <1>d DEF Users!Abort, AccountsTyped
<1>16. ASSUME NEW l \in Link, Users!Expire(l)
       PROVE  Said
  <2> DEFINE row == [link[l] EXCEPT !.live = FALSE]
  <2>1. link[l] \in LinkRow
    BY <1>0, <1>16 DEF Users!Expire, Users!Usable
  <2>2. row \in LinkRow /\ row.user = link[l].user /\ ~row.live
    BY <2>1 DEF LinkRow
  <2>3. link' = [link EXCEPT ![l] = row] /\ UNCHANGED <<account, session, signing, shell, lastSet>>
        /\ \A r \in Request : ~(signing[r] # None /\ signing[r].id = l /\ signing[r].step = "locked")
    BY <1>16 DEF Users!Expire
  <2> HIDE DEF row
  <2>4. link'[l] = row /\ (\A k \in Link \ {l} : link'[k] = link[k])
        /\ link' \in [Link -> {None, Gone} \cup LinkRow]
    BY <2>2, <2>3 DEF AccountsTyped
  <2>5. \A k \in Link : LinkGoes(k)
    BY <2>1, <2>2, <2>4 DEF LinkGoes
  <2>6. ASSUME NEW q \in Request PROVE TxStays(q)
    <3>1. Holds(q) /\ signing[q].kind = "reset" => signing[q].id \in Link \ {l}
      BY <2>3 DEF Holds, TxKnows
    <3> QED
      BY <2>3, <2>4, <3>1 DEF TxStays, Respects
  <2> QED
    BY <2>3, <2>4, <2>5, <2>6 DEF TxAllStay, AccountsTyped
<1>17. ASSUME NEW s \in Session, Users!Logout(s)
       PROVE  Said
  BY <1>17, <1>b DEF Users!Logout, AccountsTyped
<1>18. CASE UNCHANGED Users!vars
  BY <1>18, <1>b DEF Users!vars, AccountsTyped
<1> HIDE DEF Said
<1>19. ASSUME Users!Next PROVE Said
  <2>1. CASE Users!EnsureOwner \/ Users!ShellDelete
    BY <1>1, <1>5, <2>1
  <2>2. CASE \E u \in User : Users!Create(u) \/ Users!Delete(u) \/ Users!ShellUpdate(u)
    BY <1>2, <1>3, <1>4, <2>2
  <2>3. CASE \E u \in User, p \in Project : Users!Assign(u, p) \/ Users!Unassign(u, p)
    BY <1>6, <2>3
  <2>4. CASE \E r \in Request, u \in User,
             password \in 1 .. MaxPassword : Users!LoginLock(r, u, password)
    BY <1>7, <2>4
  <2>5. CASE \E r \in Request, s \in Session : Users!LoginCommit(r, s) \/ Users!ChangeBegin(r, s)
    BY <1>8, <1>9, <2>5
  <2>6. CASE \E r \in Request, password \in 1 .. MaxPassword : Users!ChangeLock(r, password)
    BY <1>10, <2>6
  <2>7. CASE \E r \in Request, l \in Link : Users!ResetFind(r, l)
    BY <1>13, <2>7
  <2>8. CASE \E r \in Request : Users!ChangeCommit(r) \/ Users!ResetLock(r) \/ Users!ResetCommit(r)
               \/ Users!Abort(r)
    BY <1>11, <1>14, <1>15, <2>8
  <2>9. CASE \E u \in User, l \in Link : Users!Forgot(u, l)
    BY <1>12, <2>9
  <2>10. CASE (\E l \in Link : Users!Expire(l)) \/ \E s \in Session : Users!Logout(s)
    BY <1>16, <1>17, <2>10
  <2> QED
    BY <1>19, <2>1, <2>2, <2>3, <2>4, <2>5, <2>6, <2>7, <2>8, <2>9, <2>10 DEF Users!Next
<1> QED
  BY <1>18, <1>19 DEF Said


-----------------------------------------------------------------------------
\* What a transaction knows outlives what the others do.
LEMMA TxKnowsStep ==
  ASSUME AccountsGiven, AccountsTyped, AccountsTyped', HoldsApart, \A r \in Request : TxKnows(r),
         TxGo \/ TxAllStay, \A l \in Link : LinkGoes(l)
  PROVE  HoldsApart' /\ \A r \in Request : TxKnows(r)'
<1>1. ASSUME NEW q \in Request, TxStays(q) PROVE TxKnows(q)' /\ (Holds(q)' <=> Holds(q))
  <2>1. signing'[q] = signing[q] /\ (Holds(q)' <=> Holds(q))
    BY <1>1 DEF TxStays, Holds
  <2>2. CASE signing[q] = None
    BY <2>1, <2>2 DEF TxKnows
  <2>3. CASE signing[q] # None
    <3>1. signing[q].kind = "reset" =>
            /\ signing[q].id \in Link /\ link'[signing[q].id] # None
            /\ link'[signing[q].id] # Gone => link'[signing[q].id].user = signing[q].user
      <4> SUFFICES ASSUME signing[q].kind = "reset"
                   PROVE  /\ signing[q].id \in Link /\ link'[signing[q].id] # None
                          /\ link'[signing[q].id] # Gone
                               => link'[signing[q].id].user = signing[q].user
        OBVIOUS
      <4>1. /\ signing[q].id \in Link /\ link[signing[q].id] # None /\ LinkGoes(signing[q].id)
            /\ link[signing[q].id] # Gone => link[signing[q].id].user = signing[q].user
        BY <2>3 DEF TxKnows
      <4> QED
        BY <4>1 DEF LinkGoes, AccountsGiven
    <3>2. CASE Holds(q)
      <4>1. account'[signing[q].user] = account[signing[q].user]
            /\ (signing[q].kind = "reset" => link'[signing[q].id] = link[signing[q].id])
        BY <1>1, <3>2 DEF TxStays, Respects
      <4>2. Users!Exists(signing[q].user)' <=> Users!Exists(signing[q].user)'
        OBVIOUS
      <4>3. /\ signing[q].step = "locked" => account'[signing[q].user] \notin {None, Gone}
            /\ signing[q].kind = "login" => signing[q].step = "locked"
               /\ account'[signing[q].user] = signing[q].with
            /\ signing[q].kind = "reset" /\ signing[q].step = "locked" =>
                 link'[signing[q].id] \notin {None, Gone} /\ link'[signing[q].id].live
        BY <2>3, <4>1 DEF TxKnows, Users!Exists, Users!Usable
      <4> QED
        BY <2>1, <3>1, <4>3 DEF TxKnows, Users!Exists, Users!Usable
    <3>3. CASE ~Holds(q)
      <4>1. signing[q].step # "locked" /\ signing[q].kind # "login"
        BY <2>3, <3>3 DEF Holds, TxKnows
      <4> QED
        BY <2>1, <3>1, <4>1 DEF TxKnows
    <3> QED
      BY <3>2, <3>3
  <2> QED
    BY <2>1, <2>2, <2>3
<1>2. CASE TxAllStay
  <2>1. \A q \in Request : TxStays(q) /\ signing'[q] = signing[q]
    BY <1>2 DEF TxAllStay, TxStays
  <2> QED
    BY <1>1, <2>1 DEF HoldsApart
<1>3. ASSUME NEW r \in Request, TxStays(r) \/ UsersTxEnds(r) \/ TxMoves(r),
             \A q \in Request \ {r} : TxStays(q)
      PROVE  HoldsApart' /\ \A q \in Request : TxKnows(q)'
  <2>1. \A q \in Request \ {r} : TxKnows(q)' /\ signing'[q] = signing[q] /\ (Holds(q)' <=> Holds(q))
    BY <1>1, <1>3 DEF TxStays
  <2>2. CASE TxStays(r)
    <3>1. \A q \in Request : TxKnows(q)' /\ signing'[q] = signing[q] /\ (Holds(q)' <=> Holds(q))
      BY <1>1, <2>1, <2>2 DEF TxStays
    <3> QED
      BY <3>1 DEF HoldsApart
  <2>3. CASE UsersTxEnds(r)
    <3>1. ~Holds(r)' /\ TxKnows(r)'
      BY <2>3 DEF UsersTxEnds, Holds, TxKnows
    <3> QED
      BY <2>1, <3>1 DEF HoldsApart
  <2>4. CASE TxMoves(r)
    <3>1. TxKnows(r)'
      BY <2>4 DEF TxMoves, TxKnows, Users!Exists, Users!Usable
    <3>2. Holds(r)' => \A q \in Request : Holds(q) => signing[q].user # signing'[r].user
      BY <2>4 DEF TxMoves, Holds, Users!Unlocked
    <3> QED
      BY <2>1, <3>1, <3>2 DEF HoldsApart
  <2> QED
    BY <1>3, <2>2, <2>3, <2>4
<1> QED
  BY <1>2, <1>3 DEF TxGo

\* Every session agrees with the password in force.
LEMMA SessionsStep ==
  ASSUME AccountsGiven, AccountsTyped, \A r \in Request : TxKnows(r), SessionsAgree,
         [Users!Next]_(Users!vars)
  PROVE  SessionsAgree'
<1>0. /\ \A u \in User : Users!Exists(u) <=> account[u] \in Nat
      /\ \A s \in Session : Users!Live(s) <=> session[s] \in SessionRow
      /\ \A s \in Session : Users!Live(s) => session[s].user \in User
  BY AccountsThere DEF SessionRow
\* enough that each session was there and its account's password is the same
<1>a. ASSUME shell' = shell \/ shell = None,
             \A s \in Session : Users!Live(s)' => /\ Users!Live(s) /\ session'[s] = session[s]
                                                  /\ account'[session[s].user] =
                                                         account[session[s].user]
      PROVE  SessionsAgree'
  <2> SUFFICES ASSUME NEW s \in Session, Users!Live(s)'
               PROVE  /\ account'[session'[s].user] \notin {None, Gone}
                      /\ session'[s].password = account'[session'[s].user]
                           \/ shell' = session'[s].user
    BY DEF SessionsAgree, Users!Exists
  <2>1. session[s].user \in User /\ Users!Exists(session[s].user)
        /\ (session[s].password = account[session[s].user] \/ shell = session[s].user)
    BY <1>0, <1>a DEF SessionsAgree
  <2> QED
    BY <1>a, <2>1 DEF Users!Exists, AccountsGiven
<1>1. CASE session' = session /\ account' = account /\ shell' = shell
  BY <1>a, <1>1 DEF Users!Live
<1>2. ASSUME NEW u \in User, account[u] = None, account' = [account EXCEPT ![u] = 1],
             session' = session, shell' = shell
      PROVE  SessionsAgree'
  <2>1. \A x \in User \ {u} : account'[x] = account[x]
    BY <1>2, PasswordSet
  <2>2. \A s \in Session : Users!Live(s) => session[s].user \in User \ {u}
    BY <1>0, <1>2 DEF SessionsAgree, Users!Exists
  <2> QED
    BY <1>a, <1>2, <2>1, <2>2 DEF Users!Live
<1>3. ASSUME NEW u \in User, Users!Delete(u)
      PROVE  SessionsAgree'
  <2>1. account' = [account EXCEPT ![u] = Gone] /\ Users!Without(u) /\ shell' = shell
    BY <1>3 DEF Users!Delete
  <2>2. \A x \in User \ {u} : account'[x] = account[x]
    BY <2>1, PasswordSet
  <2>3. \A s \in Session : session'[s] = IF session[s] \in SessionRow /\ session[s].user = u
                                         THEN Gone ELSE session[s]
    BY <2>1, AccountGone
  <2>4. \A s \in Session : Users!Live(s)' => Users!Live(s) /\ session'[s] = session[s]
        /\ session[s].user # u
    BY <1>0, <2>3 DEF Users!Live
  <2> QED
    BY <1>0, <1>a, <2>1, <2>2, <2>4
<1>4. ASSUME NEW u \in User, Users!ShellUpdate(u)
      PROVE  SessionsAgree'
  <2>1. account' = [account EXCEPT ![u] = Users!NextPassword(u)] /\ shell' = u /\ shell = None
        /\ session' = session
        /\ account[u] \in Nat /\ Users!NextPassword(u) \in Nat
    BY <1>0, <1>4 DEF Users!ShellUpdate, Users!NextPassword
  <2>2. account'[u] = Users!NextPassword(u) /\ \A x \in User \ {u} : account'[x] = account[x]
    BY <2>1, PasswordSet
  <2> SUFFICES ASSUME NEW s \in Session, Users!Live(s)'
               PROVE  /\ account'[session'[s].user] \notin {None, Gone}
                      /\ session'[s].password = account'[session'[s].user]
                           \/ shell' = session'[s].user
    BY DEF SessionsAgree, Users!Exists
  <2>3. session'[s] = session[s] /\ Users!Live(s)
    BY <2>1 DEF Users!Live
  <2>4. session[s].user \in User /\ account[session[s].user] \notin {None, Gone}
        /\ (session[s].password = account[session[s].user] \/ shell = session[s].user)
    BY <1>0, <2>3 DEF SessionsAgree, Users!Exists
  <2> QED
    BY <2>1, <2>2, <2>3, <2>4 DEF AccountsGiven
<1>5. ASSUME Users!ShellDelete
      PROVE  SessionsAgree'
  <2>1. PICK u \in User : u = shell
    BY <1>5 DEF Users!ShellDelete, AccountsTyped
  <2>2. session' = Users!Closed(u) /\ shell' = None /\ account' = account
    BY <1>5, <2>1 DEF Users!ShellDelete
  <2>3. \A s \in Session : session'[s] = IF session[s] \in SessionRow /\ session[s].user = u
                                         THEN Gone ELSE session[s]
    BY <2>2, SessionsClose
  <2> SUFFICES ASSUME NEW s \in Session, Users!Live(s)'
               PROVE  /\ account'[session'[s].user] \notin {None, Gone}
                      /\ session'[s].password = account'[session'[s].user]
    BY DEF SessionsAgree, Users!Exists
  <2>4. session'[s] = session[s] /\ Users!Live(s) /\ session[s].user # u
    BY <1>0, <2>3 DEF Users!Live
  <2> QED
    BY <2>1, <2>2, <2>4 DEF SessionsAgree, Users!Exists
<1>6. ASSUME NEW r \in Request, NEW s \in Session, Users!LoginCommit(r, s)
      PROVE  SessionsAgree'
  <2> DEFINE row == [user |-> signing[r].user, password |-> signing[r].with]
  <2>1. Users!Exists(signing[r].user) /\ account[signing[r].user] = signing[r].with
    BY <1>6 DEF Users!LoginCommit, TxKnows
  <2>2. row.user = signing[r].user /\ row.password = signing[r].with
    OBVIOUS
  <2>3. session' = [session EXCEPT ![s] = row] /\ account' = account /\ shell' = shell
    BY <1>6 DEF Users!LoginCommit
  <2> HIDE DEF row
  <2>4. session'[s] = row /\ \A x \in Session \ {s} : session'[x] = session[x]
    BY <2>3 DEF AccountsTyped
  <2> SUFFICES ASSUME NEW x \in Session, Users!Live(x)'
               PROVE  /\ account[session'[x].user] \notin {None, Gone}
                      /\ session'[x].password = account[session'[x].user]
                           \/ shell = session'[x].user
    BY <2>3 DEF SessionsAgree, Users!Exists
  <2>5. CASE x = s
    BY <2>1, <2>2, <2>4, <2>5 DEF Users!Exists
  <2>6. CASE x # s
    BY <2>4, <2>6 DEF SessionsAgree, Users!Live, Users!Exists
  <2> QED
    BY <2>5, <2>6
<1>7. ASSUME NEW r \in Request, Users!ChangeCommit(r) \/ Users!ResetCommit(r)
      PROVE  SessionsAgree'
  <2>0. signing[r] \in TxRow /\ signing[r].step = "locked" /\ signing[r] # None
    BY <1>7, AccountsThere DEF Users!ChangeCommit, Users!ResetCommit
  <2>1. PICK u \in User : u = signing[r].user
    BY <2>0 DEF TxRow
  <2>2. account[u] \in Nat /\ Users!NextPassword(u) \in Nat
    BY <1>0, <2>0, <2>1 DEF TxKnows, Users!NextPassword
  <2>3. account' = [account EXCEPT ![u] = Users!NextPassword(u)] /\ shell' = shell
    BY <1>7, <2>1 DEF Users!ChangeCommit, Users!ResetCommit
  <2>4. account'[u] = Users!NextPassword(u) /\ \A x \in User \ {u} : account'[x] = account[x]
    BY <2>2, <2>3, PasswordSet
  <2>5. ASSUME NEW s \in Session, Users!Live(s)'
        PROVE  /\ Users!Live(s) /\ session'[s].user = session[s].user
               /\ \/ session[s].user # u /\ session'[s] = session[s]
                  \/ session[s].user = u /\ session'[s].password = Users!NextPassword(u)
    <3>1. CASE Users!ResetCommit(r)
      BY <2>1, <2>5, <3>1 DEF Users!ResetCommit, Users!Live
    <3>2. CASE Users!ChangeCommit(r)
      <4>1. session'[s] = IF ~Users!Live(s) \/ session[s].user # u THEN session[s]
                          ELSE IF s = signing[r].id
                          THEN [session[s] EXCEPT !.password = Users!NextPassword(u)]
                          ELSE Gone
        BY <2>1, <3>2 DEF Users!ChangeCommit
      <4>2. Users!Live(s)
        BY <2>5, <4>1 DEF Users!Live
      <4>3. session[s] \in SessionRow
        BY <1>0, <4>2
      <4> QED
        BY <2>5, <4>1, <4>2, <4>3 DEF Users!Live, SessionRow
    <3> QED
      BY <1>7, <3>1, <3>2
  <2> SUFFICES ASSUME NEW s \in Session, Users!Live(s)'
               PROVE  /\ account'[session'[s].user] \notin {None, Gone}
                      /\ session'[s].password = account'[session'[s].user]
                           \/ shell' = session'[s].user
    BY DEF SessionsAgree, Users!Exists
  <2>6. CASE session[s].user = u
    BY <2>2, <2>4, <2>5, <2>6 DEF AccountsGiven
  <2>7. CASE session[s].user # u
    <3>1. Users!Live(s) /\ session'[s] = session[s] /\ session[s].user \in User
      BY <1>0, <2>5, <2>7
    <3> QED
      BY <2>3, <2>4, <2>7, <3>1 DEF SessionsAgree, Users!Exists
  <2> QED
    BY <2>6, <2>7
<1>8. ASSUME NEW s \in Session, Users!Logout(s)
      PROVE  SessionsAgree'
  <2>1. session' = [session EXCEPT ![s] = Gone] /\ account' = account /\ shell' = shell
    BY <1>8 DEF Users!Logout
  <2>2. \A x \in Session : Users!Live(x)' => Users!Live(x) /\ session'[x] = session[x]
    BY <2>1 DEF Users!Live, AccountsTyped
  <2> QED
    BY <1>a, <2>1, <2>2
<1>9. ASSUME Users!Next PROVE SessionsAgree'
  <2>1. CASE Users!EnsureOwner \/ Users!ShellDelete
    BY <1>2, <1>5, <2>1 DEF Users!EnsureOwner, AccountsGiven
  <2>2. CASE \E u \in User : Users!Create(u) \/ Users!Delete(u) \/ Users!ShellUpdate(u)
    BY <1>2, <1>3, <1>4, <2>2 DEF Users!Create
  <2>3. CASE \E u \in User, p \in Project : Users!Assign(u, p) \/ Users!Unassign(u, p)
    BY <1>1, <2>3 DEF Users!Assign, Users!Unassign
  <2>4. CASE \E r \in Request, u \in User,
             password \in 1 .. MaxPassword : Users!LoginLock(r, u, password)
    BY <1>1, <2>4 DEF Users!LoginLock
  <2>5. CASE \E r \in Request, s \in Session : Users!LoginCommit(r, s) \/ Users!ChangeBegin(r, s)
    BY <1>1, <1>6, <2>5 DEF Users!ChangeBegin
  <2>6. CASE \E r \in Request, password \in 1 .. MaxPassword : Users!ChangeLock(r, password)
    BY <1>1, <2>6 DEF Users!ChangeLock
  <2>7. CASE \E r \in Request, l \in Link : Users!ResetFind(r, l)
    BY <1>1, <2>7 DEF Users!ResetFind
  <2>8. CASE \E r \in Request : Users!ChangeCommit(r) \/ Users!ResetLock(r) \/ Users!ResetCommit(r)
               \/ Users!Abort(r)
    BY <1>1, <1>7, <2>8 DEF Users!ResetLock, Users!Abort
  <2>9. CASE \E u \in User, l \in Link : Users!Forgot(u, l)
    BY <1>1, <2>9 DEF Users!Forgot
  <2>10. CASE (\E l \in Link : Users!Expire(l)) \/ \E s \in Session : Users!Logout(s)
    BY <1>1, <1>8, <2>10 DEF Users!Expire
  <2> QED
    BY <1>9, <2>1, <2>2, <2>3, <2>4, <2>5, <2>6, <2>7, <2>8, <2>9, <2>10 DEF Users!Next
<1> QED
  BY <1>1, <1>9 DEF Users!vars

\* A link sets a password once: it is spent when it does.
LEMMA LinksStep ==
  ASSUME AccountsGiven, AccountsTyped, AccountsTyped', \A r \in Request : TxKnows(r), LinksSetOnce,
         \A l \in Link : LinkGoes(l), [Users!Next]_(Users!vars)
  PROVE  LinksSetOnce'
<1>1. \A l \in Link : (link'[l] = None => link[l] = None)
      /\ (Users!Usable(l)' => link[l] = None \/ Users!Usable(l))
  BY DEF LinkGoes, Users!Usable, AccountsGiven
<1>2. CASE lastSet' = lastSet
  BY <1>1, <1>2 DEF LinksSetOnce
<1>3. ASSUME NEW r \in Request, Users!ResetCommit(r)
      PROVE  LinksSetOnce'
  <2>1. signing[r] \in TxRow /\ signing[r].kind = "reset" /\ signing[r].step = "locked"
        /\ signing[r] # None
    BY <1>3, AccountsThere DEF Users!ResetCommit
  <2>2. PICK i \in Link : i = signing[r].id
    BY <2>1 DEF TxKnows
  <2>3. PICK u \in User : u = signing[r].user
    BY <2>1 DEF TxRow
  <2>4. Users!Usable(i) /\ link[i].user = u /\ lastSet[i] = 0
    BY <2>1, <2>2, <2>3 DEF TxKnows, Users!Usable, LinksSetOnce
  <2>5. link' = Users!Spent(u) /\ lastSet' = [lastSet EXCEPT ![i] = lastSet[i] + 1]
    BY <1>3, <2>2, <2>3 DEF Users!ResetCommit
  <2>6. link'[i] \in LinkRow /\ ~link'[i].live
    BY <2>4, <2>5, LinksSpent, AccountsThere DEF Users!Usable
  <2>7. lastSet'[i] = 1 /\ \A l \in Link \ {i} : lastSet'[l] = lastSet[l]
    BY <2>4, <2>5 DEF AccountsTyped
  <2>8. link'[i] # None /\ ~Users!Usable(i)'
    BY <2>6 DEF Users!Usable, AccountsGiven
  <2> QED
    BY <1>1, <2>7, <2>8 DEF LinksSetOnce
<1>4. lastSet' = lastSet \/ \E r \in Request : Users!ResetCommit(r)
  BY DEF Users!Next, Users!vars, Users!EnsureOwner, Users!ShellDelete, Users!Create, Users!Delete,
         Users!ShellUpdate, Users!Assign, Users!Unassign, Users!LoginLock,
     Users!LoginCommit, Users!ChangeBegin, Users!ChangeLock, Users!ResetFind, Users!ChangeCommit,
     Users!ResetLock, Users!Abort, Users!Forgot, Users!Expire,
     Users!Logout
<1> QED
  BY <1>2, <1>3, <1>4

LEMMA AccountsInvariant == ASSUME AccountsGiven PROVE Users!Spec => []AccountsIInv
<1>1. Users!Init => AccountsIInv
  BY AccountsInit
<1>2. AccountsIInv /\ [Users!Next]_(Users!vars) => AccountsIInv'
  <2> SUFFICES ASSUME AccountsIInv, [Users!Next]_(Users!vars) PROVE AccountsIInv'
    OBVIOUS
  <2>1. AccountsTyped' /\ (TxGo \/ TxAllStay) /\ \A l \in Link : LinkGoes(l)
    BY AccountSteps DEF AccountsIInv
  <2>2. HoldsApart' /\ \A r \in Request : TxKnows(r)'
    BY <2>1, TxKnowsStep DEF AccountsIInv
  <2>3. SessionsAgree'
    BY SessionsStep DEF AccountsIInv
  <2>4. LinksSetOnce'
    BY <2>1, LinksStep DEF AccountsIInv
  <2> QED
    BY <2>1, <2>2, <2>3, <2>4 DEF AccountsIInv
<1> QED
  BY <1>1, <1>2, PTL DEF Users!Spec

\* A reset leaves no session of an older password alive, and a link sets one password at
\* most, however many requests carry it (bootstrap.rs:126, handlers/auth.rs).
THEOREM PasswordsRule == ASSUME AccountsGiven PROVE Users!Spec => []Users!SessionsFollowPassword
<1>1. AccountsIInv => Users!SessionsFollowPassword
  BY DEF AccountsIInv, SessionsAgree, LinksSetOnce, Users!SessionsFollowPassword
<1> QED
  BY <1>1, AccountsInvariant, PTL

(***************************************************************************)
(* ProjectAdmin.  The version of the row and the log move together; a      *)
(* token is made by one request only, and from then on it is used: nothing *)
(* makes it a second time.                                                 *)
(***************************************************************************)
TokenRow == [scope : Admin!Scope, revoked : BOOLEAN]
Asking == [what : {"create", "revoke"}, token : Token, at : {"checked", "done", "answered"}]
Calling == [token : Token, needs : {"any", "api"}, dead : BOOLEAN, scope : Admin!Scope \cup {None},
            at : {"arrived", "known", "inside", "refused"}]
AdminGiven ==
  /\ MaxVersion \in Nat \ {0}
  /\ None \notin Admin!Row /\ None \notin TokenRow /\ None \notin Asking /\ None \notin Calling

\* The row, the screens that show it and what the log says of it.
Updated(v) == [what |-> "project.update", version |-> v] \in audit
Deleted == \E v \in 1 .. MaxVersion : [what |-> "project.delete", version |-> v] \in audit
RowIsTold ==
  /\ Admin!Exists =>
       /\ project.version \in 1 .. MaxVersion
       /\ \A v \in 2 .. project.version : Updated(v)
       /\ \A v \in project.version + 1 .. MaxVersion : ~Updated(v)
  /\ ~Admin!Exists /\ audit # {} => Deleted
ScreensArePast == \A e \in Editor : screen[e] # None /\ Admin!Exists =>
  /\ screen[e].version <= project.version
  /\ screen[e].version = project.version => screen[e] = project

\* Before the project is made there is nothing of it.
NothingBefore == audit = {} =>
  /\ ~Admin!Exists /\ \A e \in Editor : screen[e] = None
  /\ \A t \in Token : tokens[t] = None
  /\ \A r \in Request : request[r] # None => request[r].what = "create" /\ request[r].at = "checked"

\* A request names the token, and none is about to make it.
Used(t) ==
  /\ \E r \in Request : request[r] # None /\ request[r].token = t
  /\ \A r \in Request : request[r] # None /\ request[r].token = t /\ request[r].what = "create" =>
       request[r].at # "checked"
UsedOnce ==
  /\ \A t \in Token : tokens[t] # None => Used(t)
  /\ \A r \in Request : request[r] # None /\ request[r].what = "revoke" => Used(request[r].token)
  /\ \A q, r \in Request :
       /\ request[q] # None /\ request[r] # None /\ request[q].token = request[r].token
       /\ request[q].what = "create" /\ request[r].what = "create"
       => q = r
RevokedIsOut ==
  /\ \A r \in Request :
       /\ request[r] # None /\ request[r].what = "revoke" /\ request[r].at # "checked"
       => ~Admin!Active(request[r].token)
  /\ \A t \in Token : [what |-> "revoke", token |-> t] \in audit => Admin!Answered(t)
CallersAgree == \A c \in Caller : caller[c] # None =>
  /\ caller[c].dead => Admin!Answered(caller[c].token)
  /\ caller[c].at \in {"known", "inside"} =>
       /\ Used(caller[c].token) /\ ~caller[c].dead
       /\ tokens[caller[c].token] # None => tokens[caller[c].token].scope = caller[c].scope
  /\ caller[c].at = "inside" /\ caller[c].needs = "api" => caller[c].scope = "api"

RowAgrees == RowIsTold /\ ScreensArePast /\ NothingBefore
AdminIInv == Admin!TypeOK /\ RowAgrees /\ UsedOnce /\ RevokedIsOut /\ CallersAgree

-----------------------------------------------------------------------------
LEMMA AdminInit == ASSUME AdminGiven PROVE Admin!Init => AdminIInv
<1> SUFFICES ASSUME Admin!Init PROVE AdminIInv
  OBVIOUS
<1>1. Admin!TypeOK
  BY DEF Admin!Init, Admin!TypeOK
<1>2. RowAgrees
  BY DEF Admin!Init, RowAgrees, RowIsTold, ScreensArePast, NothingBefore, Admin!Exists
<1>3. UsedOnce
  BY DEF Admin!Init, UsedOnce
<1>4. RevokedIsOut /\ CallersAgree
  BY DEF Admin!Init, RevokedIsOut, CallersAgree
<1> QED
  BY <1>1, <1>2, <1>3, <1>4 DEF AdminIInv

LEMMA AdminThere ==
  ASSUME AdminGiven, Admin!TypeOK
  PROVE  /\ Admin!Exists <=> project \in Admin!Row
         /\ \A e \in Editor : screen[e] # None <=> screen[e] \in Admin!Row
         /\ \A t \in Token : tokens[t] # None <=> tokens[t] \in TokenRow
         /\ \A r \in Request : request[r] # None <=> request[r] \in Asking
         /\ \A c \in Caller : caller[c] # None <=> caller[c] \in Calling
<1>1. /\ project \in Admin!Row \cup {None}
      /\ \A e \in Editor : screen[e] \in Admin!Row \cup {None}
      /\ \A t \in Token : tokens[t] \in TokenRow \cup {None}
      /\ \A r \in Request : request[r] \in {None} \cup Asking
      /\ \A c \in Caller : caller[c] \in {None} \cup Calling
  BY DEF Admin!TypeOK, TokenRow, Asking, Calling
<1> QED
  BY <1>1 DEF AdminGiven, Admin!Exists

\* What a step does to a request and to a token.
Asks(r) ==
  /\ request[r] = None /\ request'[r] \in Asking /\ request'[r].at = "checked"
  /\ request'[r].what = "create" =>
       \A q \in Request : request[q] # None => request[q].token # request'[r].token
  /\ request'[r].what = "revoke" => tokens[request'[r].token] # None
Advances(r) ==
  /\ request[r] \in Asking /\ request'[r] \in Asking
  /\ request'[r].what = request[r].what /\ request'[r].token = request[r].token
  /\ \/ request[r].at = "checked" /\ request'[r].at = "done"
     \/ request[r].at = "done" /\ request'[r].at = "answered"
RequestGoes(r) == request'[r] = request[r] \/ Asks(r) \/ Advances(r)
RequestsGo == \E r \in Request :
  /\ Asks(r) \/ Advances(r)
  /\ \A q \in Request \ {r} : request'[q] = request[q]

AdminMade(t) ==
  /\ tokens[t] = None
  /\ \E r \in Request : /\ request[r] # None /\ request[r].what = "create"
                        /\ request[r].at = "checked" /\ request[r].token = t
                        /\ request'[r] # request[r]
TokenGoes(t) ==
  \/ tokens'[t] = tokens[t]
  \/ tokens'[t] = None
  \/ tokens[t] # None /\ tokens'[t].scope = tokens[t].scope /\ tokens'[t].revoked
  \/ AdminMade(t) /\ tokens'[t] \in TokenRow

LEMMA RequestSet ==
  ASSUME AdminGiven, Admin!TypeOK, NEW r \in Request, NEW row \in Asking,
         request' = [request EXCEPT ![r] = row]
  PROVE  /\ request'[r] = row /\ \A q \in Request \ {r} : request'[q] = request[q]
         /\ request' \in [Request -> {None} \cup Asking]
  BY DEF Admin!TypeOK, Asking

LEMMA ManageStep ==
  ASSUME AdminGiven, Admin!TypeOK, Admin!Manage
  PROVE  /\ request' \in [Request -> {None} \cup Asking]
            /\ tokens' \in [Token -> TokenRow \cup {None}]
         /\ RequestsGo
         /\ \A t \in Token : TokenGoes(t)
         /\ \A r \in Request : request[r] # None /\ request[r].what = "revoke"
              /\ request[r].at = "checked" /\ request'[r] # request[r]
                   => ~Admin!Active(request[r].token)'
         /\ UNCHANGED <<project, screen, caller, member>>
         /\ \/ audit' = audit
            \/ \E r \in Request :
                 /\ request[r] \in Asking /\ request[r].at = "done" /\ request'[r].at = "answered"
                 /\ audit' = audit \cup {[what |-> request[r].what, token |-> request[r].token]}
<1> DEFINE Managed ==
         /\ request' \in [Request -> {None} \cup Asking]
            /\ tokens' \in [Token -> TokenRow \cup {None}]
         /\ RequestsGo
         /\ \A t \in Token : TokenGoes(t)
         /\ \A r \in Request : request[r] # None /\ request[r].what = "revoke"
              /\ request[r].at = "checked" /\ request'[r] # request[r]
                   => ~Admin!Active(request[r].token)'
         /\ UNCHANGED <<project, screen, caller, member>>
         /\ \/ audit' = audit
            \/ \E r \in Request :
                 /\ request[r] \in Asking /\ request[r].at = "done" /\ request'[r].at = "answered"
                 /\ audit' = audit \cup {[what |-> request[r].what, token |-> request[r].token]}
<1>0. \A r \in Request : request[r] # None <=> request[r] \in Asking
  BY AdminThere
<1>a. tokens \in [Token -> TokenRow \cup {None}]
  BY DEF Admin!TypeOK, TokenRow
<1>1. ASSUME NEW r \in Request, NEW t \in Token, NEW what \in {"create", "revoke"},
             Admin!Check(r, what, t),
             what = "create" => \A q \in Request : request[q] # None => request[q].token # t,
             what = "revoke" => tokens[t] # None
      PROVE  Managed
  <2> DEFINE row == [what |-> what, token |-> t, at |-> "checked"]
  <2>1. row \in Asking /\ row.what = what /\ row.token = t /\ row.at = "checked"
    BY DEF Asking
  <2>2. request[r] = None /\ request' = [request EXCEPT ![r] = row]
        /\ UNCHANGED <<project, screen, tokens, caller, member, audit>>
    BY <1>1 DEF Admin!Check
  <2> HIDE DEF row
  <2>3. request'[r] = row /\ (\A q \in Request \ {r} : request'[q] = request[q])
        /\ request' \in [Request -> {None} \cup Asking]
    BY <2>1, <2>2, RequestSet
  <2>4. Asks(r)
    BY <1>1, <2>1, <2>2, <2>3 DEF Asks
  <2>5. RequestsGo
    BY <2>3, <2>4 DEF RequestsGo
  <2>6. \A q \in Request : request[q] # None => request'[q] = request[q]
    BY <2>2, <2>3
  <2> QED
    BY <1>a, <2>2, <2>3, <2>5, <2>6 DEF TokenGoes
<1>b. ASSUME NEW r \in Request, NEW at \in {"done", "answered"}, request[r] # None,
             request' = [request EXCEPT ![r].at = at],
             request[r].at = IF at = "done" THEN "checked" ELSE "done"
      PROVE  /\ request' \in [Request -> {None} \cup Asking] /\ RequestsGo
             /\ request'[r].at = at /\ \A q \in Request \ {r} : request'[q] = request[q]
  <2> DEFINE row == [request[r] EXCEPT !.at = at]
  <2>1. request[r] \in Asking
    BY <1>0, <1>b
  <2>2. row \in Asking /\ row.what = request[r].what /\ row.token = request[r].token /\ row.at = at
    BY <2>1 DEF Asking
  <2>3. request' = [request EXCEPT ![r] = row]
    BY <1>b
  <2> HIDE DEF row
  <2>4. request'[r] = row /\ (\A q \in Request \ {r} : request'[q] = request[q])
        /\ request' \in [Request -> {None} \cup Asking]
    BY <2>2, <2>3, RequestSet
  <2>5. Advances(r)
    BY <1>b, <2>1, <2>2, <2>4 DEF Advances
  <2> QED
    BY <2>2, <2>4, <2>5 DEF RequestsGo
<1>2. ASSUME NEW r \in Request, NEW scope \in Admin!Scope, Admin!Mint(r, scope)
      PROVE  Managed
  <2> DEFINE row == [scope |-> scope, revoked |-> FALSE]
  <2>1. request[r] \in Asking
    BY <1>0, <1>2 DEF Admin!Mint
  <2>2. PICK t \in Token : t = request[r].token
    BY <2>1 DEF Asking
  <2>3. row \in TokenRow
    BY DEF TokenRow
  <2>4. tokens' = [tokens EXCEPT ![t] = row] /\ tokens[t] = None /\ request[r].what = "create"
        /\ request[r].at = "checked" /\ request[r] # None
    BY <1>2, <2>2 DEF Admin!Mint
  <2> HIDE DEF row
  <2>5. tokens'[t] = row /\ (\A x \in Token \ {t} : tokens'[x] = tokens[x])
        /\ tokens' \in [Token -> TokenRow \cup {None}]
    BY <1>a, <2>3, <2>4
  <2>6. /\ request' \in [Request -> {None} \cup Asking] /\ RequestsGo
        /\ request'[r].at = "done" /\ \A q \in Request \ {r} : request'[q] = request[q]
    BY <1>2, <1>b, <2>4 DEF Admin!Mint
  <2>7. \A x \in Token : TokenGoes(x)
    BY <2>2, <2>3, <2>4, <2>5, <2>6 DEF TokenGoes, AdminMade
  <2>8. \A q \in Request : request[q] # None /\ request[q].what = "revoke"
          => request'[q] = request[q]
    BY <2>4, <2>6
  <2> QED
    BY <1>2, <2>5, <2>6, <2>7, <2>8 DEF Admin!Mint
<1>3. ASSUME NEW r \in Request, Admin!Revoke(r)
      PROVE  Managed
  <2>1. request[r] \in Asking
    BY <1>0, <1>3 DEF Admin!Revoke
  <2>2. PICK t \in Token : t = request[r].token
    BY <2>1 DEF Asking
  <2>3. /\ request' \in [Request -> {None} \cup Asking] /\ RequestsGo
        /\ \A q \in Request \ {r} : request'[q] = request[q]
    BY <1>3, <1>b DEF Admin!Revoke
  <2>4. CASE tokens[t] = None
    <3>1. tokens' = tokens
      BY <1>3, <2>2, <2>4 DEF Admin!Revoke, Admin!Found
    <3>2. ~Admin!Active(t)'
      BY <2>4, <3>1 DEF Admin!Active, Admin!Found
    <3> QED
      BY <1>3, <1>a, <2>2, <2>3, <3>1, <3>2 DEF Admin!Revoke, TokenGoes
  <2>5. CASE tokens[t] # None
    <3> DEFINE row == [tokens[t] EXCEPT !.revoked = TRUE]
    <3>1. tokens[t] \in TokenRow
      BY <1>a, <2>5
    <3>2. row \in TokenRow /\ row.scope = tokens[t].scope /\ row.revoked = TRUE
      BY <3>1 DEF TokenRow
    <3>3. tokens' = [tokens EXCEPT ![t] = row]
      BY <1>3, <2>2, <2>5 DEF Admin!Revoke, Admin!Found
    <3> HIDE DEF row
    <3>4. tokens'[t] = row /\ (\A x \in Token \ {t} : tokens'[x] = tokens[x])
          /\ tokens' \in [Token -> TokenRow \cup {None}]
      BY <1>a, <3>2, <3>3
    <3>5. \A x \in Token : TokenGoes(x)
      BY <2>5, <3>2, <3>4 DEF TokenGoes
    <3>6. ~Admin!Active(t)'
      BY <3>2, <3>4 DEF Admin!Active
    <3>7. ASSUME NEW q \in Request, request'[q] # request[q] PROVE ~Admin!Active(request[q].token)'
      <4>1. q = r
        BY <2>3, <3>7
      <4>2. ~(tokens'[request[q].token] # None /\ ~tokens'[request[q].token].revoked)
        BY <2>2, <3>6, <4>1 DEF Admin!Active, Admin!Found
      <4>3. ~(tokens'[t] # None /\ ~tokens'[t].revoked) /\ request'[q].token = t
        BY <2>1, <2>2, <2>3, <3>6, <4>1, <1>3 DEF Admin!Active, Admin!Found, Admin!Revoke,
             Admin!TypeOK
      <4> QED
        BY <4>3 DEF Admin!Active, Admin!Found
    <3> QED
      BY <1>3, <2>3, <3>4, <3>5, <3>7 DEF Admin!Revoke
  <2> QED
    BY <2>4, <2>5
<1>4. ASSUME NEW r \in Request, NEW written \in BOOLEAN, Admin!Answer(r, written)
      PROVE  Managed
  <2>1. request[r] \in Asking /\ request[r].at = "done" /\ tokens' = tokens
    BY <1>0, <1>4 DEF Admin!Answer
  <2>2. /\ request' \in [Request -> {None} \cup Asking] /\ RequestsGo
        /\ request'[r].at = "answered" /\ \A q \in Request \ {r} : request'[q] = request[q]
    BY <1>4, <1>b DEF Admin!Answer
  <2>3. \A q \in Request : request[q] # None /\ request[q].at = "checked"
          => request'[q] = request[q]
    BY <2>1, <2>2
  <2> QED
    BY <1>4, <1>a, <2>1, <2>2, <2>3 DEF Admin!Answer, Admin!Said, TokenGoes
<1> HIDE DEF Managed
<1>5. Managed
  <2>1. PICK r \in Request :
          \/ \E t \in Token : Admin!AskCreate(r, t) \/ Admin!AskRevoke(r, t)
          \/ \E scope \in Admin!Scope : Admin!Mint(r, scope)
          \/ Admin!Revoke(r)
          \/ \E written \in BOOLEAN : Admin!Answer(r, written)
    BY DEF Admin!Manage
  <2>2. CASE \E t \in Token : Admin!AskCreate(r, t) \/ Admin!AskRevoke(r, t)
    BY <1>1, <2>2 DEF Admin!AskCreate, Admin!AskRevoke, Admin!Found
  <2> QED
    BY <1>2, <1>3, <1>4, <2>1, <2>2
<1> QED
  BY <1>5 DEF Managed

-----------------------------------------------------------------------------
(* The row, the screens and the log.                                        *)
LEMMA EditStep ==
  ASSUME AdminGiven, Admin!TypeOK, RowAgrees, Admin!Edit
  PROVE  Admin!TypeOK' /\ RowAgrees'
<1>0. /\ Admin!Exists => project \in Admin!Row /\ project.version \in 1 .. MaxVersion
         /\ project.version \in Nat
      /\ \A e \in Editor : screen[e] # None => screen[e] \in Admin!Row /\ screen[e].version \in Nat
      /\ MaxVersion \in Nat \ {0}
  BY AdminThere DEF Admin!Row, RowAgrees, RowIsTold, AdminGiven
<1>1. ASSUME NEW n \in Name, Admin!Create(n)
      PROVE  Admin!TypeOK' /\ RowAgrees'
  <2> DEFINE row == [version |-> 1, name |-> n]
             entry == [what |-> "project.create", version |-> 1]
  <2>1. row \in Admin!Row /\ row.version = 1
    BY DEF Admin!Row
  <2>2. project' = row /\ audit = {} /\ audit' = {entry}
        /\ UNCHANGED <<screen, tokens, request, caller, member>>
    BY <1>1 DEF Admin!Create, Admin!Said
  <2>3. entry.what = "project.create"
    OBVIOUS
  <2> HIDE DEF row, entry
  <2>4. \A v : ~Updated(v)'
    <3>1. \A v : [what |-> "project.update", version |-> v].what = "project.update"
      OBVIOUS
    <3> QED
      BY <2>2, <2>3, <3>1 DEF Updated
  <2>5. RowIsTold'
    BY <1>0, <2>1, <2>2, <2>4 DEF RowIsTold, Admin!Exists, AdminGiven
  <2>6. ScreensArePast' /\ NothingBefore'
    BY <2>2 DEF ScreensArePast, NothingBefore, RowAgrees
  <2> QED
    BY <2>1, <2>2, <2>5, <2>6 DEF Admin!TypeOK, RowAgrees
<1>2. ASSUME NEW e \in Editor, Admin!Show(e)
      PROVE  Admin!TypeOK' /\ RowAgrees'
  <2>1. Admin!Exists /\ project \in Admin!Row /\ screen' = [screen EXCEPT ![e] = project]
        /\ UNCHANGED <<project, tokens, request, caller, member, audit>>
    BY <1>0, <1>2 DEF Admin!Show
  <2>2. screen'[e] = project /\ (\A d \in Editor \ {e} : screen'[d] = screen[d])
        /\ screen' \in [Editor -> Admin!Row \cup {None}]
    BY <2>1 DEF Admin!TypeOK
  <2>3. RowIsTold'
    BY <2>1 DEF RowAgrees, RowIsTold, Admin!Exists, Updated, Deleted
  <2>4. ScreensArePast'
    <3>1. ASSUME NEW d \in Editor, screen'[d] # None
          PROVE  /\ screen'[d].version <= project.version
                 /\ screen'[d].version = project.version => screen'[d] = project
      <4>1. CASE d = e
        BY <1>0, <2>1, <2>2, <4>1
      <4>2. CASE d # e
        BY <2>1, <2>2, <3>1, <4>2 DEF RowAgrees, ScreensArePast
      <4> QED
        BY <4>1, <4>2
    <3> QED
      BY <2>1, <3>1 DEF ScreensArePast
  <2>5. NothingBefore'
    BY <2>1 DEF RowAgrees, NothingBefore
  <2> QED
    BY <2>1, <2>2, <2>3, <2>4, <2>5 DEF Admin!TypeOK, RowAgrees
<1>3. ASSUME NEW e \in Editor, NEW n \in Name, NEW sends \in BOOLEAN, Admin!Update(e, n, sends)
      PROVE  Admin!TypeOK' /\ RowAgrees'
  <2> DEFINE row == [version |-> project.version + 1, name |-> n]
             entry == [what |-> "project.update", version |-> project.version + 1]
  <2>1. Admin!Exists /\ project.version \in 1 .. MaxVersion /\ project.version \in Nat
        /\ project.version < MaxVersion
    BY <1>0, <1>3 DEF Admin!Update
  <2>2. row \in Admin!Row /\ row.version = project.version + 1
    BY <2>1 DEF Admin!Row
  <2>3. project' = row /\ audit' = audit \cup {entry} /\ screen' = [screen EXCEPT ![e] = None]
        /\ UNCHANGED <<tokens, request, caller, member>>
    BY <1>3 DEF Admin!Update, Admin!Said
  <2>4. entry.version = project.version + 1
        /\ entry = [what |-> "project.update", version |-> project.version + 1]
    OBVIOUS
  <2> HIDE DEF row, entry
  <2>5. \A v : Updated(v)' <=> Updated(v) \/ v = project.version + 1
    <3>1. \A v : [what |-> "project.update", version |-> v].version = v
      OBVIOUS
    <3> QED
      BY <2>3, <2>4, <3>1 DEF Updated
  <2>6. Admin!Exists'
    BY <2>2, <2>3 DEF Admin!Exists, AdminGiven
  <2>7. RowIsTold'
    <3>1. project'.version = project.version + 1 /\ project'.version \in 1 .. MaxVersion
      BY <1>0, <2>1, <2>2, <2>3
    <3>2. /\ \A v \in 2 .. project.version : Updated(v)
          /\ \A v \in project.version + 1 .. MaxVersion : ~Updated(v)
      BY <2>1 DEF RowAgrees, RowIsTold
    <3>3. /\ \A v \in 2 .. project'.version : Updated(v)'
          /\ \A v \in project'.version + 1 .. MaxVersion : ~Updated(v)'
      <4>1. \A v \in 2 .. project.version + 1 : v \in 2 .. project.version
              \/ v = project.version + 1
        BY <2>1
      <4>2. \A v \in project.version + 1 + 1 .. MaxVersion :
              v \in project.version + 1 .. MaxVersion /\ v # project.version + 1
        BY <2>1
      <4> QED
        BY <2>5, <3>1, <3>2, <4>1, <4>2
    <3> QED
      BY <2>6, <3>1, <3>3 DEF RowIsTold
  <2>8. screen' \in [Editor -> Admin!Row \cup {None}]
        /\ \A d \in Editor : screen'[d] # None => screen'[d] = screen[d]
    BY <2>3 DEF Admin!TypeOK
  <2>9. ScreensArePast'
    <3>1. ASSUME NEW d \in Editor, screen'[d] # None
          PROVE  screen'[d].version < project'.version /\ screen'[d].version \in Nat
                 /\ project'.version \in Nat
      BY <1>0, <2>1, <2>2, <2>3, <2>8, <3>1 DEF RowAgrees, ScreensArePast
    <3> QED
      BY <3>1 DEF ScreensArePast
  <2>10. NothingBefore'
    BY <2>3 DEF NothingBefore
  <2> QED
    BY <2>2, <2>3, <2>7, <2>8, <2>9, <2>10 DEF Admin!TypeOK, RowAgrees
<1>4. ASSUME NEW e \in Editor, NEW sends \in BOOLEAN, Admin!Delete(e, sends)
      PROVE  Admin!TypeOK' /\ RowAgrees'
  <2>1. project' = None /\ tokens' = [t \in Token |-> None] /\ screen' = [screen EXCEPT ![e] = None]
        /\ audit' = audit \cup {[what |-> "project.delete", version |-> project.version]}
        /\ UNCHANGED <<request, caller, member>>
    BY <1>4 DEF Admin!Delete, Admin!Said
  <2>2. project.version \in 1 .. MaxVersion
    BY <1>0, <1>4 DEF Admin!Delete
  <2>3. RowIsTold'
    BY <2>1, <2>2 DEF RowIsTold, Admin!Exists, Deleted
  <2>4. ScreensArePast' /\ NothingBefore'
    BY <2>1 DEF ScreensArePast, NothingBefore, Admin!Exists
  <2>5. Admin!TypeOK'
    BY <2>1 DEF Admin!TypeOK
  <2> QED
    BY <2>3, <2>4, <2>5 DEF RowAgrees
<1> QED
  BY <1>1, <1>2, <1>3, <1>4 DEF Admin!Edit

\* Requests about tokens leave the row alone.
LEMMA ManageRow ==
  ASSUME AdminGiven, Admin!TypeOK, RowAgrees, UsedOnce, Admin!Manage
  PROVE  RowAgrees'
<1>1. /\ RequestsGo /\ (\A t \in Token : TokenGoes(t))
      /\ tokens' \in [Token -> TokenRow \cup {None}]
      /\ UNCHANGED <<project, screen, caller, member>>
      /\ \/ audit' = audit
         \/ \E r \in Request :
              /\ request[r] \in Asking /\ request[r].at = "done" /\ request'[r].at = "answered"
              /\ audit' = audit \cup {[what |-> request[r].what, token |-> request[r].token]}
  BY ManageStep
<1>2. CASE audit' = audit
  <2>1. RowIsTold' /\ ScreensArePast'
    BY <1>1, <1>2 DEF RowAgrees, RowIsTold, ScreensArePast, Admin!Exists, Updated, Deleted
  <2>2. ASSUME audit = {} PROVE NothingBefore'
    <3>1. ~Admin!Exists /\ (\A e \in Editor : screen[e] = None)
          /\ (\A t \in Token : tokens[t] = None)
          /\ \A r \in Request : request[r] # None => request[r].what = "create"
             /\ request[r].at = "checked"
      BY <2>2 DEF RowAgrees, NothingBefore
    <3>2. PICK r \in Request : \/ \E t \in Token : Admin!AskCreate(r, t) \/ Admin!AskRevoke(r, t)
                               \/ \E scope \in Admin!Scope : Admin!Mint(r, scope)
                               \/ Admin!Revoke(r)
                               \/ \E written \in BOOLEAN : Admin!Answer(r, written)
      BY DEF Admin!Manage
    <3>3. \E t \in Token : Admin!AskCreate(r, t)
      BY <3>1, <3>2 DEF Admin!AskRevoke, Admin!Found, Admin!Mint, Admin!Revoke, Admin!Answer
    <3>4. /\ tokens' = tokens
          /\ \E t \in Token :
                request' = [request EXCEPT ![r] = [what |-> "create", token |-> t, at |-> "checked"]]
      BY <3>3 DEF Admin!AskCreate, Admin!Check
    <3>5. \A q \in Request : request'[q] # None => request'[q].what = "create"
          /\ request'[q].at = "checked"
      BY <3>1, <3>4 DEF Admin!TypeOK
    <3> QED
      BY <1>1, <3>1, <3>4, <3>5 DEF NothingBefore, Admin!Exists
  <2>3. audit # {} => NothingBefore'
    BY <1>2 DEF NothingBefore
  <2> QED
    BY <2>1, <2>2, <2>3 DEF RowAgrees
<1>3. ASSUME NEW r \in Request, request[r] \in Asking, request[r].at = "done",
             audit' = audit \cup {[what |-> request[r].what, token |-> request[r].token]}
      PROVE  RowAgrees'
  <2> DEFINE entry == [what |-> request[r].what, token |-> request[r].token]
  <2>1. entry.what \in {"create", "revoke"}
    BY <1>3 DEF Asking
  <2>2. audit' = audit \cup {entry}
    BY <1>3
  <2> HIDE DEF entry
  <2>3. \A v : Updated(v)' <=> Updated(v)
    <3>1. \A v : [what |-> "project.update", version |-> v].what = "project.update"
      OBVIOUS
    <3> QED
      BY <2>1, <2>2, <3>1 DEF Updated
  <2>4. audit # {}
    BY <1>3 DEF RowAgrees, NothingBefore, AdminGiven
  <2>5. RowIsTold' /\ ScreensArePast'
    BY <1>1, <2>2, <2>3, <2>4 DEF RowAgrees, RowIsTold, ScreensArePast, Admin!Exists, Deleted
  <2>6. NothingBefore'
    BY <2>2 DEF NothingBefore
  <2> QED
    BY <2>5, <2>6 DEF RowAgrees
<1> QED
  BY <1>1, <1>2, <1>3


-----------------------------------------------------------------------------
(* The tokens, the requests about them and those who come with one.         *)
Steady ==
  /\ request' \in [Request -> {None} \cup Asking]
  /\ RequestsGo \/ request' = request
  /\ \A t \in Token : TokenGoes(t)
LEMMA SteadyStep ==
  ASSUME AdminGiven, Admin!TypeOK, [Admin!Next]_(Admin!vars)
  PROVE  Steady
<1>1. request \in [Request -> {None} \cup Asking]
  BY DEF Admin!TypeOK, Asking
<1>2. CASE Admin!Manage
  BY <1>2, ManageStep DEF Steady
<1>3. CASE Admin!Edit
  BY <1>1, <1>3 DEF Admin!Edit, Admin!Create, Admin!Show, Admin!Update, Admin!Delete, Steady,
       TokenGoes
<1>4. CASE Admin!Assign \/ Admin!Use \/ UNCHANGED Admin!vars
  BY <1>1, <1>4 DEF Admin!Assign, Admin!Use, Admin!Arrive, Admin!Resolve, Admin!Enter, Admin!vars,
       Steady, TokenGoes
<1> QED
  BY <1>2, <1>3, <1>4 DEF Admin!Next

LEMMA RequestCases ==
  ASSUME AdminGiven, Admin!TypeOK, Steady
  PROVE  /\ \A r \in Request : RequestGoes(r)
         /\ \A q, r \in Request : request'[q] # request[q] /\ request'[r] # request[r] => q = r
         /\ \A r \in Request : (request[r] # None <=> request[r] \in Asking)
                               /\ (request'[r] # None <=> request'[r] \in Asking)
<1>1. \A r \in Request : (request[r] # None <=> request[r] \in Asking)
                         /\ (request'[r] # None <=> request'[r] \in Asking)
  BY AdminThere DEF Steady, AdminGiven
<1> QED
  BY <1>1 DEF Steady, RequestsGo, RequestGoes

\* What is used stays used, and what was answered stays answered.
LEMMA UsedStays ==
  ASSUME AdminGiven, Admin!TypeOK, Steady, NEW t \in Token, Used(t)
  PROVE  Used(t)'
<1>1. PICK r \in Request : request[r] # None /\ request[r].token = t
  BY DEF Used
<1>2. request'[r] # None /\ request'[r].token = t
  BY <1>1, RequestCases DEF RequestGoes, Asks, Advances
<1>3. ASSUME NEW q \in Request, request'[q] # None, request'[q].token = t,
             request'[q].what = "create"
      PROVE  request'[q].at # "checked"
  <2>1. CASE request'[q] = request[q]
    BY <1>3, <2>1 DEF Used
  <2>2. CASE Asks(q)
    BY <1>1, <1>3, <2>2 DEF Asks
  <2>3. CASE Advances(q)
    BY <2>3 DEF Advances
  <2> QED
    BY <2>1, <2>2, <2>3, RequestCases DEF RequestGoes
<1> QED
  BY <1>2, <1>3 DEF Used

LEMMA AnsweredStays ==
  ASSUME AdminGiven, Admin!TypeOK, Steady, NEW t, Admin!Answered(t)
  PROVE  Admin!Answered(t)'
  BY RequestCases DEF Admin!Answered, RequestGoes, Asks, Advances

\* A used token is not made again: it keeps its scope, and is out when it was.
LEMMA UsedTokenStays ==
  ASSUME AdminGiven, Admin!TypeOK, Steady, NEW t \in Token, Used(t)
  PROVE  /\ tokens'[t] # None => tokens[t] # None /\ tokens'[t].scope = tokens[t].scope
         /\ ~Admin!Active(t) => ~Admin!Active(t)'
<1>1. ~AdminMade(t)
  BY DEF AdminMade, Used
<1>2. \/ tokens'[t] = tokens[t] \/ tokens'[t] = None
      \/ tokens[t] # None /\ tokens'[t].scope = tokens[t].scope /\ tokens'[t].revoked
  BY <1>1 DEF Steady, TokenGoes
<1> QED
  BY <1>2 DEF Admin!Active, Admin!Found

LEMMA UsedOnceStep ==
  ASSUME AdminGiven, Admin!TypeOK, UsedOnce, Steady
  PROVE  UsedOnce'
<1>1. ASSUME NEW t \in Token, tokens'[t] # None
      PROVE  Used(t)'
  <2>1. CASE tokens[t] # None
    BY <2>1, UsedStays DEF UsedOnce
  <2>2. CASE tokens[t] = None
    <3>1. AdminMade(t)
      BY <1>1, <2>2 DEF Steady, TokenGoes
    <3>2. PICK r \in Request : /\ request[r] # None /\ request[r].what = "create"
                               /\ request[r].at = "checked" /\ request[r].token = t
                               /\ request'[r] # request[r]
      BY <3>1 DEF AdminMade
    <3>3. Advances(r)
      BY <3>2, RequestCases DEF RequestGoes, Asks
    <3>4. request'[r] # None /\ request'[r].token = t /\ request'[r].at = "done"
      BY <3>2, <3>3, RequestCases DEF Advances
    <3>5. ASSUME NEW q \in Request, request'[q] # None, request'[q].token = t,
                 request'[q].what = "create"
          PROVE  request'[q].at # "checked"
      <4>1. CASE q = r
        BY <3>4, <4>1
      <4>2. CASE q # r
        <5>1. request'[q] = request[q]
          BY <3>2, <4>2, RequestCases
        <5> QED
          BY <3>2, <3>5, <4>2, <5>1 DEF UsedOnce
      <4> QED
        BY <4>1, <4>2
    <3> QED
      BY <3>4, <3>5 DEF Used
  <2> QED
    BY <2>1, <2>2
<1>2. ASSUME NEW r \in Request, request'[r] # None, request'[r].what = "revoke"
      PROVE  Used(request[r].token)'
  <2>0. request'[r] \in Asking
    BY <1>2, RequestCases
  <2>1. PICK t \in Token : t = request'[r].token
    BY <2>0 DEF Asking
  <2>2. Used(t)
    <3>1. CASE request'[r] = request[r]
      BY <1>2, <2>1, <3>1 DEF UsedOnce
    <3>2. CASE Asks(r)
      BY <1>2, <2>1, <3>2 DEF Asks, UsedOnce
    <3>3. CASE Advances(r)
      BY <1>2, <2>1, <3>3, RequestCases DEF Advances, UsedOnce
    <3> QED
      BY <3>1, <3>2, <3>3, RequestCases DEF RequestGoes
  <2>3. Used(t)'
    BY <2>2, UsedStays
  <2> QED
    BY <2>1, <2>3 DEF Used
<1>3. ASSUME NEW q \in Request, NEW r \in Request,
             request'[q] # None, request'[r] # None, request'[q].token = request'[r].token,
             request'[q].what = "create", request'[r].what = "create"
      PROVE  q = r
  <2> SUFFICES ASSUME q # r PROVE FALSE
    OBVIOUS
  <2>1. RequestGoes(q) /\ RequestGoes(r) /\ (request'[q] = request[q] \/ request'[r] = request[r])
    BY RequestCases
  <2>2. ~Asks(q) => request[q] # None /\ request[q].token = request'[q].token
        /\ request[q].what = "create"
    BY <1>3, <2>1, RequestCases DEF RequestGoes, Advances
  <2>3. ~Asks(r) => request[r] # None /\ request[r].token = request'[r].token
        /\ request[r].what = "create"
    BY <1>3, <2>1, RequestCases DEF RequestGoes, Advances
  <2>4. CASE Asks(q)
    <3>1. request'[r] = request[r]
      BY <1>3, <2>1, <2>4 DEF Asks
    <3> QED
      BY <1>3, <2>4, <3>1 DEF Asks
  <2>5. CASE Asks(r)
    <3>1. request'[q] = request[q]
      BY <1>3, <2>1, <2>5 DEF Asks
    <3> QED
      BY <1>3, <2>5, <3>1 DEF Asks
  <2>6. CASE ~Asks(q) /\ ~Asks(r)
    BY <1>3, <2>2, <2>3, <2>6 DEF UsedOnce
  <2> QED
    BY <2>4, <2>5, <2>6
<1>4. \A r \in Request : request'[r] # None /\ request'[r].what = "revoke"
        => Used(request[r].token)'
  BY <1>2
<1> QED
  BY <1>1, <1>3, <1>4 DEF UsedOnce


\* What was answered is true.
LEMMA RevokedStep ==
  ASSUME AdminGiven, Admin!TypeOK, RowAgrees, UsedOnce, RevokedIsOut, [Admin!Next]_(Admin!vars)
  PROVE  RevokedIsOut'
<1>0. Steady
  BY SteadyStep
<1>1. ASSUME NEW r \in Request, request'[r] # None, request'[r].what = "revoke",
             request'[r].at # "checked"
      PROVE  ~Admin!Active(request[r].token)'
  <2>1. request'[r] \in Asking
    BY <1>0, <1>1, RequestCases
  <2>2. PICK t \in Token : t = request'[r].token
    BY <2>1 DEF Asking
  <2>3. CASE request'[r] = request[r]
    <3>1. Used(t) /\ ~Admin!Active(t)
      BY <1>1, <2>2, <2>3 DEF UsedOnce, RevokedIsOut
    <3>2. ~Admin!Active(t)'
      BY <1>0, <3>1, UsedTokenStays
    <3> QED
      BY <2>2, <3>2 DEF Admin!Active, Admin!Found
  <2>4. CASE request'[r] # request[r]
    <3>1. Advances(r) /\ request[r] # None
      BY <1>0, <1>1, <2>4, RequestCases DEF RequestGoes, Asks, Advances
    <3>2. request[r].what = "revoke" /\ request[r].token = t
      BY <1>1, <2>2, <3>1 DEF Advances
    <3>3. CASE request[r].at = "checked"
      <4>1. request' # request
        BY <2>4
      <4>2. Admin!Manage
        BY <4>1 DEF Admin!Next, Admin!vars, Admin!Edit, Admin!Create, Admin!Show, Admin!Update,
             Admin!Delete, Admin!Assign, Admin!Use, Admin!Arrive, Admin!Resolve, Admin!Enter
      <4> QED
        BY <2>4, <3>1, <3>2, <3>3, <4>2, ManageStep
    <3>4. CASE request[r].at # "checked"
      <4>1. Used(t) /\ ~Admin!Active(t)
        BY <3>1, <3>2, <3>4 DEF UsedOnce, RevokedIsOut
      <4>2. ~Admin!Active(t)'
        BY <1>0, <4>1, UsedTokenStays
      <4> QED
        BY <2>2, <4>2 DEF Admin!Active, Admin!Found
    <3> QED
      BY <3>3, <3>4
  <2> QED
    BY <2>3, <2>4
<1>2. ASSUME NEW t \in Token, [what |-> "revoke", token |-> t] \in audit'
      PROVE  Admin!Answered(t)'
  <2> DEFINE entry == [what |-> "revoke", token |-> t]
  <2>1. CASE entry \in audit
    BY <1>0, <2>1, AnsweredStays DEF RevokedIsOut
  <2>2. CASE entry \notin audit
    <3>1. \A v : entry # [what |-> "project.create", version |-> v]
                 /\ entry # [what |-> "project.update", version |-> v]
                 /\ entry # [what |-> "project.delete", version |-> v]
      <4>1. \A v : /\ [what |-> "project.create", version |-> v].what = "project.create"
                   /\ [what |-> "project.update", version |-> v].what = "project.update"
                   /\ [what |-> "project.delete", version |-> v].what = "project.delete"
        OBVIOUS
      <4>2. entry.what = "revoke"
        OBVIOUS
      <4> HIDE DEF entry
      <4> QED
        BY <4>1, <4>2
    <3>2. entry \in audit' /\ entry.what = "revoke" /\ entry.token = t
      BY <1>2
    <3> HIDE DEF entry
    <3>3. Admin!Manage
      BY <2>2, <3>1, <3>2 DEF Admin!Next, Admin!vars, Admin!Edit, Admin!Create, Admin!Show,
           Admin!Update, Admin!Delete, Admin!Assign, Admin!Use, Admin!Arrive, Admin!Resolve,
         Admin!Enter, Admin!Said
    <3>4. PICK r \in Request :
            /\ request[r] \in Asking /\ request[r].at = "done" /\ request'[r].at = "answered"
            /\ audit' = audit \cup {[what |-> request[r].what, token |-> request[r].token]}
      BY <2>2, <3>2, <3>3, ManageStep
    <3>5. entry = [what |-> request[r].what, token |-> request[r].token]
      BY <2>2, <3>2, <3>4
    <3>6. request[r].what = "revoke" /\ request[r].token = t
      BY <3>2, <3>5
    <3>7. Advances(r)
      BY <1>0, <3>4, RequestCases DEF RequestGoes, Asks, AdminGiven
    <3>8. request'[r] # None /\ request'[r].what = "revoke" /\ request'[r].token = t
      BY <1>0, <3>6, <3>7, RequestCases DEF Advances
    <3> QED
      BY <3>4, <3>8 DEF Admin!Answered
  <2> QED
    BY <2>1, <2>2
<1> QED
  BY <1>1, <1>2 DEF RevokedIsOut

LEMMA CallerSet ==
  ASSUME AdminGiven, Admin!TypeOK, NEW c \in Caller, NEW row \in Calling,
         caller' = [caller EXCEPT ![c] = row]
  PROVE  /\ caller'[c] = row /\ \A d \in Caller \ {c} : caller'[d] = caller[d]
         /\ caller' \in [Caller -> {None} \cup Calling]
  BY DEF Admin!TypeOK, Calling

\* Who is inside came with a token that was active.
CallerAgrees(c) == caller[c] # None =>
  /\ caller[c].dead => Admin!Answered(caller[c].token)
  /\ caller[c].at \in {"known", "inside"} =>
       /\ Used(caller[c].token) /\ ~caller[c].dead
       /\ tokens[caller[c].token] # None => tokens[caller[c].token].scope = caller[c].scope
  /\ caller[c].at = "inside" /\ caller[c].needs = "api" => caller[c].scope = "api"
LEMMA CallerStays ==
  ASSUME AdminGiven, Admin!TypeOK, Steady, NEW c \in Caller, CallerAgrees(c), caller'[c] = caller[c]
  PROVE  CallerAgrees(c)'
<1> SUFFICES ASSUME caller[c] # None PROVE CallerAgrees(c)'
  BY DEF CallerAgrees
<1>1. caller[c] \in Calling
  BY AdminThere
<1>2. PICK t \in Token : t = caller[c].token
  BY <1>1 DEF Calling
<1>3. caller[c].dead => Admin!Answered(t)'
  BY <1>2, AnsweredStays DEF CallerAgrees
<1>4. ASSUME caller[c].at \in {"known", "inside"}
      PROVE  /\ Used(t)' /\ ~caller[c].dead
             /\ tokens'[t] # None => tokens'[t].scope = caller[c].scope
  <2>1. Used(t) /\ ~caller[c].dead /\ (tokens[t] # None => tokens[t].scope = caller[c].scope)
    BY <1>2, <1>4 DEF CallerAgrees
  <2> QED
    BY <2>1, UsedStays, UsedTokenStays
<1>5. caller[c].at = "inside" /\ caller[c].needs = "api" => caller[c].scope = "api"
  BY DEF CallerAgrees
<1> QED
  BY <1>2, <1>3, <1>4, <1>5 DEF CallerAgrees, Admin!Answered, Used

LEMMA UseStep ==
  ASSUME AdminGiven, Admin!TypeOK, UsedOnce, RevokedIsOut, \A c \in Caller : CallerAgrees(c),
         Admin!Use
  PROVE  Admin!TypeOK' /\ \A c \in Caller : CallerAgrees(c)'
<1>0. PICK c \in Caller :
        (\E t \in Token, needs \in {"any", "api"} : Admin!Arrive(c, t, needs)) \/ Admin!Resolve(c)
          \/ Admin!Enter(c)
  BY DEF Admin!Use
<1>1. UNCHANGED <<project, screen, tokens, request, member, audit>>
  BY <1>0 DEF Admin!Arrive, Admin!Resolve, Admin!Enter
<1>2. Steady
  BY SteadyStep DEF Admin!Next
<1>3. ASSUME NEW row \in Calling, caller' = [caller EXCEPT ![c] = row],
             row.dead => Admin!Answered(row.token),
             row.at \in {"known", "inside"} =>
               /\ Used(row.token) /\ ~row.dead
               /\ tokens[row.token] # None => tokens[row.token].scope = row.scope,
             row.at = "inside" /\ row.needs = "api" => row.scope = "api"
      PROVE  Admin!TypeOK' /\ \A d \in Caller : CallerAgrees(d)'
  <2>1. caller'[c] = row /\ (\A d \in Caller \ {c} : caller'[d] = caller[d])
        /\ caller' \in [Caller -> {None} \cup Calling]
    BY <1>3, CallerSet
  <2>2. CallerAgrees(c)'
    BY <1>1, <1>3, <2>1 DEF CallerAgrees, Admin!Answered, Used
  <2>3. \A d \in Caller \ {c} : CallerAgrees(d)'
    BY <1>2, <2>1, CallerStays
  <2>4. Admin!TypeOK'
    BY <1>1, <2>1 DEF Admin!TypeOK, Calling
  <2> QED
    BY <2>2, <2>3, <2>4
<1>4. ASSUME NEW t \in Token, NEW needs \in {"any", "api"}, Admin!Arrive(c, t, needs)
      PROVE  Admin!TypeOK' /\ \A d \in Caller : CallerAgrees(d)'
  <2> DEFINE row == [token |-> t, needs |-> needs, dead |-> Admin!Answered(t),
                     at |-> "arrived", scope |-> None]
  <2>1. Admin!Answered(t) \in BOOLEAN
    BY DEF Admin!Answered
  <2>2. row \in Calling /\ row.at = "arrived" /\ row.token = t /\ (row.dead <=> Admin!Answered(t))
    BY <2>1 DEF Calling
  <2>3. caller' = [caller EXCEPT ![c] = row]
    BY <1>4 DEF Admin!Arrive
  <2> HIDE DEF row
  <2> QED
    BY <1>3, <2>2, <2>3
<1>5. ASSUME Admin!Resolve(c)
      PROVE  Admin!TypeOK' /\ \A d \in Caller : CallerAgrees(d)'
  <2>1. caller[c] \in Calling /\ caller[c] # None
    BY <1>5, AdminThere DEF Admin!Resolve
  <2>2. PICK t \in Token : t = caller[c].token
    BY <2>1 DEF Calling
  <2>3. caller[c].dead => Admin!Answered(t)
    BY <2>1, <2>2 DEF CallerAgrees
  <2>4. CASE Admin!Active(t)
    <3> DEFINE row == [caller[c] EXCEPT !.at = "known", !.scope = tokens[t].scope]
    <3>1. tokens[t] # None /\ tokens[t] \in TokenRow /\ ~tokens[t].revoked
      BY <2>4, AdminThere DEF Admin!Active, Admin!Found
    <3>2. tokens[t].scope \in Admin!Scope \cup {None}
      BY <3>1 DEF TokenRow
    <3>3. row \in Calling /\ row.at = "known" /\ row.token = t /\ row.scope = tokens[t].scope
          /\ row.dead = caller[c].dead
      BY <2>1, <2>2, <3>2 DEF Calling
    <3>4. caller' = [caller EXCEPT ![c] = row]
      BY <1>5, <2>2, <2>4 DEF Admin!Resolve
    <3>5. ~Admin!Answered(t)
      BY <2>4 DEF Admin!Answered, RevokedIsOut
    <3>6. Used(t)
      BY <3>1 DEF UsedOnce
    <3> HIDE DEF row
    <3> QED
      BY <1>3, <2>3, <3>3, <3>4, <3>5, <3>6
  <2>5. CASE ~Admin!Active(t)
    <3> DEFINE row == [caller[c] EXCEPT !.at = "refused"]
    <3>1. row \in Calling /\ row.at = "refused" /\ row.token = t /\ row.dead = caller[c].dead
      BY <2>1, <2>2 DEF Calling
    <3>2. caller' = [caller EXCEPT ![c] = row]
      BY <1>5, <2>2, <2>5 DEF Admin!Resolve
    <3> HIDE DEF row
    <3> QED
      BY <1>3, <2>3, <3>1, <3>2
  <2> QED
    BY <2>4, <2>5
<1>6. ASSUME Admin!Enter(c)
      PROVE  Admin!TypeOK' /\ \A d \in Caller : CallerAgrees(d)'
  <2> DEFINE at == IF Admin!Allowed(c) THEN "inside" ELSE "refused"
             row == [caller[c] EXCEPT !.at = at]
  <2>1. caller[c] \in Calling /\ caller[c] # None /\ caller[c].at = "known"
    BY <1>6, AdminThere DEF Admin!Enter
  <2>2. at \in {"inside", "refused"} /\ (at = "inside" => Admin!Allowed(c))
    OBVIOUS
  <2>3. caller' = [caller EXCEPT ![c] = row]
    BY <1>6 DEF Admin!Enter
  <2> HIDE DEF at
  <2>4. row \in Calling /\ row.at = at /\ row.token = caller[c].token /\ row.dead = caller[c].dead
        /\ row.needs = caller[c].needs /\ row.scope = caller[c].scope
    BY <2>1, <2>2 DEF Calling
  <2> HIDE DEF row
  <2>5. /\ caller[c].dead => Admin!Answered(caller[c].token)
        /\ Used(caller[c].token) /\ ~caller[c].dead
        /\ tokens[caller[c].token] # None => tokens[caller[c].token].scope = caller[c].scope
    BY <2>1 DEF CallerAgrees
  <2>6. row.at = "inside" /\ row.needs = "api" => row.scope = "api"
    BY <2>2, <2>4 DEF Admin!Allowed
  <2> QED
    BY <1>3, <2>3, <2>4, <2>5, <2>6
<1> QED
  BY <1>0, <1>4, <1>5, <1>6

LEMMA AdminInvariant == ASSUME AdminGiven PROVE Admin!Spec => []AdminIInv
<1>1. Admin!Init => AdminIInv
  BY AdminInit
<1>2. AdminIInv /\ [Admin!Next]_(Admin!vars) => AdminIInv'
  <2> SUFFICES ASSUME AdminIInv, [Admin!Next]_(Admin!vars) PROVE AdminIInv'
    OBVIOUS
  <2>0. Admin!TypeOK /\ RowAgrees /\ UsedOnce /\ RevokedIsOut /\ \A c \in Caller : CallerAgrees(c)
    BY DEF AdminIInv, CallersAgree, CallerAgrees
  <2>1. Steady /\ UsedOnce' /\ RevokedIsOut'
    BY <2>0, SteadyStep, UsedOnceStep, RevokedStep
  <2>2. CASE Admin!Use
    <3>1. Admin!TypeOK' /\ \A c \in Caller : CallerAgrees(c)'
      BY <2>0, <2>2, UseStep
    <3>2. RowAgrees'
      BY <2>0, <2>2 DEF Admin!Use, Admin!Arrive, Admin!Resolve, Admin!Enter, RowAgrees, RowIsTold,
           ScreensArePast, NothingBefore,
         Admin!Exists, Updated, Deleted
    <3> QED
      BY <2>1, <3>1, <3>2 DEF AdminIInv, CallersAgree, CallerAgrees
  <2>3. CASE caller' = caller /\ Admin!TypeOK' /\ RowAgrees'
    <3>1. \A c \in Caller : CallerAgrees(c)'
      BY <2>0, <2>1, <2>3, CallerStays
    <3> QED
      BY <2>1, <2>3, <3>1 DEF AdminIInv, CallersAgree, CallerAgrees
  <2>4. CASE Admin!Edit
    <3>1. caller' = caller
      BY <2>4 DEF Admin!Edit, Admin!Create, Admin!Show, Admin!Update, Admin!Delete
    <3> QED
      BY <2>0, <2>3, <2>4, <3>1, EditStep
  <2>5. CASE Admin!Manage
    <3>1. Admin!TypeOK' /\ caller' = caller
      BY <2>0, <2>5, ManageStep DEF Admin!TypeOK, Asking, TokenRow
    <3> QED
      BY <2>0, <2>3, <2>5, <3>1, ManageRow
  <2>6. CASE Admin!Assign \/ UNCHANGED Admin!vars
    <3>1. UNCHANGED <<project, screen, tokens, request, caller, audit>> /\ member' \in BOOLEAN
      BY <2>0, <2>6 DEF Admin!Assign, Admin!vars, Admin!TypeOK
    <3>2. Admin!TypeOK' /\ RowAgrees'
      BY <2>0, <3>1 DEF Admin!TypeOK, RowAgrees, RowIsTold, ScreensArePast, NothingBefore,
           Admin!Exists, Updated, Deleted
    <3> QED
      BY <2>3, <3>1, <3>2
  <2> QED
    BY <2>2, <2>4, <2>5, <2>6 DEF Admin!Next
<1> QED
  BY <1>1, <1>2, PTL DEF Admin!Spec

\* The log tells every version of the row and its end, and a version names one row
\* (admin/projects.rs, audit.rs).
THEOREM AdminRow ==
  ASSUME AdminGiven
  PROVE Admin!Spec => [](Admin!AuditTellsAll /\ Admin!VersionNamesRow)
<1>1. AdminIInv => Admin!AuditTellsAll
  BY DEF AdminIInv, RowAgrees, RowIsTold, Updated, Deleted, Admin!AuditTellsAll
<1>2. AdminIInv => Admin!VersionNamesRow
  BY DEF AdminIInv, RowAgrees, ScreensArePast, Admin!VersionNamesRow
<1> QED
  BY <1>1, <1>2, AdminInvariant, PTL

\* What the log says was revoked lets nobody in, and nobody is inside whose token had
\* been revoked when they came, nor on an agents' route without the scope for it
\* (admin/tokens.rs, ingest-token).
THEOREM AdminTokens ==
  ASSUME AdminGiven
  PROVE Admin!Spec => [](Admin!AuditIsTrue /\ Admin!RevokedStaysOut)
<1>1. AdminIInv => Admin!AuditIsTrue
  BY DEF AdminIInv, RevokedIsOut, Admin!Answered, Admin!AuditIsTrue
<1>2. AdminIInv => Admin!RevokedStaysOut
  BY DEF AdminIInv, CallersAgree, Admin!RevokedStaysOut
<1> QED
  BY <1>1, <1>2, AdminInvariant, PTL

(***************************************************************************)
(* TaskAutomation.  A task is verified by signals that are later than its  *)
(* barrier, and every regression raises the barrier: what verified it      *)
(* before does not verify it again.                                        *)
(***************************************************************************)
Evidence == [version : Nat, authority : Tasks!Signal, checks : Tasks!Signal \cup {None},
             deployment : Tasks!Signal \cup {None}]
TaskRow == [stage : Tasks!Stage, verified : BOOLEAN, barrier : Nat, evidence : Evidence \cup {None}]
AnswerOf == {None, "ok", "refused"}
View == [stage : Tasks!Stage, verified : BOOLEAN, to : Tasks!Stage \cup {"touch"}, current : BOOLEAN,
         receipt : BOOLEAN, answer : AnswerOf]
        \cup [current : {FALSE}, receipt : BOOLEAN, answer : AnswerOf]

\* There is a time, and None is no row, no signal, no evidence and no refusal.
TaskGiven ==
    /\ MaxTime \in Nat \ {0}
    /\ None \notin TaskRow /\ None \notin Tasks!Signal /\ None \notin Evidence /\ None # "refused"

TaskTyped ==
    /\ task \in TaskRow \cup {None}
    /\ ticket \in [status : {"open", "resolved", "ignored"}, regressed : Nat]
    /\ signals \subseteq Tasks!Signal /\ config \in [version : Nat, enabled : BOOLEAN]
    /\ hours \in 1..MaxTime /\ command \in [User -> View \cup {None}]

\* A task is verified when it is done, by evidence that verifies; evidence is of the
\* integration's version or an earlier one.
EvidenceHolds ==
    task # None /\ task.verified =>
        /\ task.stage = "done" /\ task.evidence # None
        /\ Tasks!Verified(task.evidence.authority, task.evidence.checks, task.evidence.deployment)
EvidenceIsPast ==
    task # None /\ task.evidence # None => task.evidence.version <= config.version

\* Signals that may be selected are later than the barrier, which is no earlier than the
\* last regression unless the task was cancelled.
SignalsAreNew ==
    /\ task = None => signals = {}
    /\ task # None => task.barrier <= hours /\ \A s \in signals : s.at > task.barrier
BarrierHolds ==
    /\ ticket.regressed <= hours
    /\ task # None /\ task.stage # "cancelled" => task.barrier >= ticket.regressed
AskedOfTask == \A u \in User : command[u] # None => task # None

TaskIInv ==
    /\ TaskTyped /\ EvidenceHolds /\ EvidenceIsPast /\ SignalsAreNew /\ BarrierHolds
    /\ AskedOfTask /\ Tasks!VerifiedIsProved /\ Tasks!RegressedIsNotDone /\ Tasks!CurrentViewIsTrue
    /\ Tasks!RefusedChangesNothing

-----------------------------------------------------------------------------
\* A set of numbers up to n that is not empty has a greatest one: the set of those from
\* it on is minimal among such sets.
LEMMA Greatest ==
  ASSUME NEW n \in Nat, NEW S \in SUBSET (1..n), S # {}
  PROVE  \E x \in S : \A y \in S : x >= y
<1> DEFINE From(x) == {y \in S : y >= x}
           T == {From(x) : x \in S}
           R == StrictSubsetOrdering(S)
<1>0. IsFiniteSet(S)
  <2>1. IsFiniteSet(1..n)
    BY FS_Interval
  <2> QED
    BY <2>1, FS_Subset
<1>1. T \subseteq FiniteSubsetsOf(S)
  <2> SUFFICES ASSUME NEW x \in S PROVE From(x) \in FiniteSubsetsOf(S)
    OBVIOUS
  <2>1. From(x) \in SUBSET S
    OBVIOUS
  <2>2. IsFiniteSet(From(x))
    <3> HIDE DEF From
    <3> QED
      BY <1>0, <2>1, FS_Subset
  <2> QED
    <3> HIDE DEF From
    <3> QED
      BY <2>1, <2>2 DEF FiniteSubsetsOf
<1>2. IsWellFoundedOn(R, FiniteSubsetsOf(S))
  BY FS_StrictSubsetOrderingWellFounded
<1>3. T # {}
  OBVIOUS
<1>4. \E U \in T : \A V \in T : ~ (<<V, U>> \in R)
  <2> HIDE DEF T, R
  <2> QED
    BY <1>1, <1>2, <1>3, WFMin
<1>5. PICK x \in S : \A V \in T : ~ (<<V, From(x)>> \in R)
  BY <1>4
<1>6. ASSUME NEW y \in S, ~(x >= y) PROVE FALSE
  <2>1. x \in Nat /\ y \in Nat /\ y > x
    BY <1>6
  <2>2. From(y) \in SUBSET S /\ From(x) \in SUBSET S
    OBVIOUS
  <2>3. From(y) \subseteq From(x)
    <3> SUFFICES ASSUME NEW z \in S, z >= y PROVE z >= x
      OBVIOUS
    <3>1. z \in Nat
      OBVIOUS
    <3> QED
      BY <2>1, <3>1
  <2>4. x \in From(x) /\ x \notin From(y)
    BY <2>1
  <2>5. <<From(y), From(x)>> \in R
    <3> HIDE DEF From
    <3> QED
      BY <2>2, <2>3, <2>4 DEF StrictSubsetOrdering
  <2> QED
    BY <1>5, <2>5
<1> QED
  BY <1>6

\* The latest of some signals is one of them that none exceeds.
LEMMA LatestIs ==
  ASSUME TaskGiven, NEW S \in SUBSET Tasks!Signal, S # {}
  PROVE  Tasks!Latest(S) \in S /\ \A o \in S : o.at <= Tasks!Latest(S).at
<1> DEFINE T == {s.at : s \in S}
<1>1. T \in SUBSET (1..MaxTime) /\ T # {} /\ MaxTime \in Nat
  BY DEF Tasks!Signal, TaskGiven
<1>2. PICK t \in T : \A y \in T : t >= y
  <2> HIDE DEF T
  <2> QED
    BY <1>1, Greatest
<1>3. PICK s \in S : s.at = t
  BY <1>2
<1>4. \A o \in S : o.at <= s.at
  <2> SUFFICES ASSUME NEW o \in S PROVE o.at <= s.at
    OBVIOUS
  <2>1. o.at \in T /\ s.at \in T
    OBVIOUS
  <2>2. o.at \in Nat /\ s.at \in Nat /\ s.at >= o.at
    <3> HIDE DEF T
    <3>1. t >= o.at
      BY <1>2, <2>1
    <3>2. s.at >= o.at
      BY <1>3, <3>1
    <3>3. o.at \in 1..MaxTime /\ s.at \in 1..MaxTime
      BY <1>1, <2>1
    <3>4. o.at \in Nat /\ s.at \in Nat
      BY <1>1, <3>3
    <3> QED
      BY <3>2, <3>4
  <2> QED
    BY <2>2
<1> QED
  BY <1>4 DEF Tasks!Latest

\* The task screen starts with no task, no signal and no view.
LEMMA TaskInit == ASSUME TaskGiven, Tasks!Init PROVE TaskIInv
<1>1. TaskTyped
  BY DEF Tasks!Init, TaskTyped, TaskGiven, Tasks!Status
<1>2. EvidenceHolds /\ EvidenceIsPast /\ SignalsAreNew /\ Tasks!VerifiedIsProved
      /\ Tasks!RegressedIsNotDone
  BY DEF Tasks!Init, EvidenceHolds, EvidenceIsPast, SignalsAreNew, Tasks!VerifiedIsProved,
  Tasks!RegressedIsNotDone
<1>3. BarrierHolds
  BY DEF Tasks!Init, BarrierHolds, Tasks!Status
<1>4. AskedOfTask /\ Tasks!CurrentViewIsTrue /\ Tasks!RefusedChangesNothing
  BY DEF Tasks!Init, AskedOfTask, Tasks!CurrentViewIsTrue, Tasks!RefusedChangesNothing
<1> QED
  BY <1>1, <1>2, <1>3, <1>4 DEF TaskIInv

-----------------------------------------------------------------------------
\* What members hold once the version moved: nothing current, receipts and answers as
\* they were.
LEMMA BumpedViews ==
  ASSUME TaskGiven, TaskIInv, NEW u \in User
  PROVE  /\ Tasks!Bumped[u] \in View \cup {None}
         /\ command[u] = None => Tasks!Bumped[u] = None
         /\ Tasks!Bumped[u] # None => command[u] # None /\ ~Tasks!Bumped[u].current
                                /\ (Tasks!Bumped[u].answer = "refused" => ~Tasks!Bumped[u].receipt)
<1>1. command[u] \in View \cup {None}
  BY DEF TaskIInv, TaskTyped
<1>2. CASE command[u] = None
  BY <1>2 DEF Tasks!Bumped
<1>3. CASE command[u] # None
  <2>1. command[u].receipt \in BOOLEAN /\ command[u].answer \in AnswerOf
    BY <1>1, <1>3 DEF View
  <2>2. Tasks!Bumped[u] = [current |-> FALSE, receipt |-> command[u].receipt,
            answer |-> command[u].answer]
    BY <1>3 DEF Tasks!Bumped, Tasks!Past
  <2>3. Tasks!Bumped[u] \in View
    BY <2>1, <2>2 DEF View
  <2>4. command[u].answer = "refused" => ~command[u].receipt
    BY <1>3 DEF TaskIInv, Tasks!RefusedChangesNothing
  <2> QED
    BY <1>3, <2>2, <2>3, <2>4
<1> QED
  BY <1>2, <1>3

\* A step after which nobody's view is current leaves the views in order.
ViewsOK == Tasks!CurrentViewIsTrue /\ Tasks!RefusedChangesNothing /\ AskedOfTask

\* The task is written: every view that was read before is out of date.
LEMMA BumpStep ==
  ASSUME TaskGiven, TaskIInv, Tasks!Bump, task' # None
  PROVE  command' \in [User -> View \cup {None}] /\ ViewsOK'
<1>1. command' = Tasks!Bumped
  BY DEF Tasks!Bump
<1>2. \A u \in User : /\ command'[u] \in View \cup {None}
                      /\ command'[u] # None => ~command'[u].current
                            /\ (command'[u].answer = "refused" => ~command'[u].receipt)
  BY <1>1, BumpedViews
<1>3. command' \in [User -> View \cup {None}]
  BY <1>1, <1>2 DEF Tasks!Bumped
<1> QED
  BY <1>2, <1>3 DEF ViewsOK, Tasks!CurrentViewIsTrue, Tasks!RefusedChangesNothing, AskedOfTask

\* Nor does one that leaves the task and the views.
LEMMA SameViews ==
  ASSUME TaskIInv, UNCHANGED <<task, command>>
  PROVE  command' \in [User -> View \cup {None}] /\ ViewsOK'
  BY DEF TaskIInv, TaskTyped, ViewsOK, Tasks!CurrentViewIsTrue, Tasks!RefusedChangesNothing,
  AskedOfTask

\* A task that starts again from nothing.
Fresh == [stage : Tasks!Stage, verified : {FALSE}, barrier : Nat, evidence : {None}]

\* Signals and evidence go, and the barrier becomes now.
LEMMA RestartStep ==
  ASSUME TaskGiven, TaskIInv, task' \in Fresh, task'.barrier = hours, signals' = {},
         UNCHANGED <<config, hours>>,
         ticket' \in [status : {"open", "resolved", "ignored"}, regressed : Nat],
         ticket'.regressed <= hours, ticket'.regressed > 0 => task'.stage # "done",
         command' \in [User -> View \cup {None}], ViewsOK'
  PROVE  TaskIInv'
<1>1. task' \in TaskRow /\ ~task'.verified /\ task'.evidence = None
  BY DEF Fresh, TaskRow
<1>2. TaskTyped'
  BY <1>1 DEF TaskIInv, TaskTyped
<1>3. hours \in Nat
  BY DEF TaskIInv, TaskTyped
<1>4. EvidenceHolds' /\ EvidenceIsPast' /\ Tasks!VerifiedIsProved'
  BY <1>1 DEF EvidenceHolds, EvidenceIsPast, Tasks!VerifiedIsProved
<1>5. SignalsAreNew'
  BY <1>1, <1>3 DEF SignalsAreNew, TaskGiven
<1>6. BarrierHolds' /\ Tasks!RegressedIsNotDone'
  BY <1>1, <1>3 DEF BarrierHolds, Tasks!RegressedIsNotDone
<1> QED
  BY <1>2, <1>4, <1>5, <1>6 DEF TaskIInv, ViewsOK

\* The issue moves by itself, or time does.
LEMMA IssueStep ==
  ASSUME TaskGiven, TaskIInv, UNCHANGED <<task, signals, config>>,
         command' \in [User -> View \cup {None}], ViewsOK',
         hours' \in 1..MaxTime, hours' >= hours,
         ticket' \in [status : {"open", "resolved", "ignored"}, regressed : Nat],
         \/ ticket'.regressed \in {0, ticket.regressed}
         \/ /\ task = None \/ task.stage = "cancelled"
            /\ ticket'.regressed = hours
  PROVE  TaskIInv'
<1>1. TaskTyped'
  BY DEF TaskIInv, TaskTyped
<1>2. hours \in Nat /\ hours' \in Nat /\ ticket.regressed \in Nat
  BY DEF TaskIInv, TaskTyped
<1>3. task # None => task.barrier \in Nat
  BY DEF TaskIInv, TaskTyped, TaskRow
<1>4. EvidenceHolds' /\ EvidenceIsPast' /\ Tasks!VerifiedIsProved'
  BY DEF TaskIInv, EvidenceHolds, EvidenceIsPast, Tasks!VerifiedIsProved
<1>5. SignalsAreNew'
  BY <1>2, <1>3 DEF TaskIInv, SignalsAreNew
<1>6. BarrierHolds' /\ Tasks!RegressedIsNotDone'
  BY <1>2, <1>3 DEF TaskIInv, BarrierHolds, Tasks!RegressedIsNotDone
<1> QED
  BY <1>1, <1>4, <1>5, <1>6 DEF TaskIInv, ViewsOK

\* A new occurrence regresses a resolved issue, and with it the task that was done.
LEMMA OccurrenceStep == ASSUME TaskGiven, TaskIInv, Tasks!Occurrence PROVE TaskIInv'
<1>1. /\ ticket' = Tasks!Status("open", hours) /\ Tasks!RegressTask /\ UNCHANGED <<config, hours>>
  BY DEF Tasks!Occurrence
<1>2. hours \in 1..MaxTime /\ hours \in Nat /\ MaxTime \in Nat
  BY DEF TaskIInv, TaskTyped, TaskGiven
<1>3. /\ ticket' \in [status : {"open", "resolved", "ignored"}, regressed : Nat]
      /\ ticket'.regressed = hours
  BY <1>1, <1>2 DEF Tasks!Status
<1>4. CASE task = None \/ task.stage = "cancelled"
  <2>1. UNCHANGED <<task, signals, command>>
    BY <1>1, <1>4 DEF Tasks!RegressTask
  <2>2. hours' \in 1..MaxTime /\ hours' >= hours
    BY <1>1, <1>2
  <2>3. command' \in [User -> View \cup {None}] /\ ViewsOK'
    BY <2>1, SameViews
  <2> QED
    BY <1>1, <1>3, <1>4, <2>1, <2>2, <2>3, IssueStep
<1>5. CASE ~(task = None \/ task.stage = "cancelled")
  <2>1. task' = Tasks!Regressed(hours) /\ signals' = {} /\ Tasks!Bump
    BY <1>1, <1>5 DEF Tasks!RegressTask
  <2>2. task \in TaskRow
    BY <1>5 DEF TaskIInv, TaskTyped
  <2>3. task' \in Fresh /\ task'.barrier = hours /\ task'.stage = "inProgress"
    BY <1>2, <2>1, <2>2 DEF Tasks!Regressed, TaskRow, Fresh, Tasks!Stage
  <2>4. task' # None
    BY <2>3 DEF TaskGiven, Fresh, TaskRow
  <2>5. command' \in [User -> View \cup {None}] /\ ViewsOK'
    BY <2>1, <2>4, BumpStep
  <2> QED
    BY <1>1, <1>2, <1>3, <2>1, <2>3, <2>5, RestartStep
<1> QED
  BY <1>4, <1>5

\* Resolving the issue takes no evidence away and adds none.
LEMMA ResolveStep == ASSUME TaskGiven, TaskIInv, Tasks!Resolve PROVE TaskIInv'
<1>1. ticket' = Tasks!Status("resolved", 0) /\ UNCHANGED <<task, signals, config, hours, command>>
  BY DEF Tasks!Resolve
<1>2. hours \in 1..MaxTime /\ hours \in Nat
  BY DEF TaskIInv, TaskTyped
<1>3. /\ ticket' \in [status : {"open", "resolved", "ignored"}, regressed : Nat]
      /\ ticket'.regressed \in {0, ticket.regressed}
  BY <1>1 DEF Tasks!Status
<1>4. hours' \in 1..MaxTime /\ hours' >= hours
  BY <1>1, <1>2
<1>5. command' \in [User -> View \cup {None}] /\ ViewsOK'
  BY <1>1, SameViews
<1> QED
  BY <1>1, <1>3, <1>4, <1>5, IssueStep

\* Nor does ignoring or reopening it.
LEMMA SetStatusStep ==
  ASSUME TaskGiven, TaskIInv, NEW to, Tasks!SetStatus(to) PROVE TaskIInv'
<1>1. /\ to \in {"ignored", "open"} /\ ticket' = [ticket EXCEPT !.status = to]
      /\ UNCHANGED <<task, signals, config, hours, command>>
  BY DEF Tasks!SetStatus
<1>2. /\ hours \in 1..MaxTime /\ hours \in Nat
      /\ ticket \in [status : {"open", "resolved", "ignored"}, regressed : Nat]
  BY DEF TaskIInv, TaskTyped
<1>3. /\ ticket' \in [status : {"open", "resolved", "ignored"}, regressed : Nat]
      /\ ticket'.regressed \in {0, ticket.regressed}
  BY <1>1, <1>2
<1>4. hours' \in 1..MaxTime /\ hours' >= hours
  BY <1>1, <1>2
<1>5. command' \in [User -> View \cup {None}] /\ ViewsOK'
  BY <1>1, SameViews
<1> QED
  BY <1>1, <1>3, <1>4, <1>5, IssueStep

\* Time passes: no signal lies further ahead than before.
LEMMA TickStep == ASSUME TaskGiven, TaskIInv, Tasks!Tick PROVE TaskIInv'
<1>1. /\ hours < MaxTime /\ hours' = hours + 1
      /\ UNCHANGED <<task, ticket, signals, config, command>>
  BY DEF Tasks!Tick
<1>2. /\ hours \in 1..MaxTime /\ MaxTime \in Nat
      /\ ticket \in [status : {"open", "resolved", "ignored"}, regressed : Nat]
  BY DEF TaskIInv, TaskTyped, TaskGiven
<1>3. hours' \in 1..MaxTime /\ hours' >= hours
  BY <1>1, <1>2
<1>4. /\ ticket' \in [status : {"open", "resolved", "ignored"}, regressed : Nat]
      /\ ticket'.regressed \in {0, ticket.regressed}
  BY <1>1, <1>2
<1>5. command' \in [User -> View \cup {None}] /\ ViewsOK'
  BY <1>1, SameViews
<1> QED
  BY <1>1, <1>3, <1>4, <1>5, IssueStep

\* A task is created with no evidence, and from now on only newer signals count.
LEMMA CreateStep == ASSUME TaskGiven, TaskIInv, Tasks!Create PROVE TaskIInv'
<1>1. /\ task = None /\ UNCHANGED <<ticket, signals, config, hours, command>>
      /\ task' = [stage |-> "triage", verified |-> FALSE, barrier |-> hours, evidence |-> None]
  BY DEF Tasks!Create
<1>2. hours \in Nat /\ signals = {} /\ ticket.regressed <= hours
      /\ ticket \in [status : {"open", "resolved", "ignored"}, regressed : Nat]
  BY <1>1 DEF TaskIInv, TaskTyped, SignalsAreNew, BarrierHolds
<1>3. task' \in Fresh /\ task'.barrier = hours /\ task'.stage = "triage"
  BY <1>1, <1>2 DEF Fresh, Tasks!Stage
<1>4. command' \in [User -> View \cup {None}] /\ ViewsOK'
  <2>1. \A u \in User : command[u] = None
    BY <1>1 DEF TaskIInv, AskedOfTask
  <2> QED
    BY <1>1, <2>1 DEF TaskIInv, TaskTyped, ViewsOK, Tasks!CurrentViewIsTrue,
    Tasks!RefusedChangesNothing,
                      AskedOfTask
<1> QED
  BY <1>1, <1>2, <1>3, <1>4, RestartStep

\* A new version of the integration: what was proved is of an earlier one.
LEMMA ConfigureStep ==
  ASSUME TaskGiven, TaskIInv, NEW enabled \in BOOLEAN, Tasks!Configure(enabled) PROVE TaskIInv'
<1>1. /\ config' = [version |-> config.version + 1, enabled |-> enabled] /\ signals' = {}
      /\ UNCHANGED <<task, ticket, hours, command>>
  BY DEF Tasks!Configure
<1>2. config.version \in Nat
  BY DEF TaskIInv, TaskTyped
<1>3. config' \in [version : Nat, enabled : BOOLEAN] /\ config'.version = config.version + 1
  BY <1>1, <1>2
<1>4. TaskTyped'
  BY <1>1, <1>3 DEF TaskIInv, TaskTyped
<1>5. task # None /\ task.evidence # None =>
        task.evidence.version \in Nat /\ task.evidence.version <= config.version
  BY DEF TaskIInv, TaskTyped, TaskRow, Evidence, EvidenceIsPast
<1>6. EvidenceHolds'
  BY <1>1 DEF TaskIInv, EvidenceHolds
<1>7. EvidenceIsPast'
  BY <1>1, <1>2, <1>3, <1>5 DEF EvidenceIsPast
<1>8. Tasks!VerifiedIsProved'
  <2>1. ~(task # None /\ task.verified /\ task.evidence.version = config'.version)
    BY <1>2, <1>3, <1>5 DEF TaskIInv, EvidenceHolds
  <2> QED
    BY <1>1, <2>1 DEF Tasks!VerifiedIsProved
<1>9. SignalsAreNew' /\ BarrierHolds' /\ Tasks!RegressedIsNotDone'
  BY <1>1 DEF TaskIInv, SignalsAreNew, BarrierHolds, Tasks!RegressedIsNotDone
<1>10. ViewsOK'
  BY <1>1, SameViews
<1> QED
  BY <1>4, <1>6, <1>7, <1>8, <1>9, <1>10 DEF TaskIInv, ViewsOK

-----------------------------------------------------------------------------
\* The view of one member is replaced, of the task as it is or after it moved.
LEMMA OneView ==
  ASSUME TaskGiven, TaskIInv, NEW u \in User, NEW v \in View, task' # None,
         v.current => v.stage = task'.stage /\ v.verified = task'.verified,
         v.answer = "refused" => ~v.receipt,
         \/ UNCHANGED task /\ command' = [command EXCEPT ![u] = v]
         \/ command' = [Tasks!Bumped EXCEPT ![u] = v]
  PROVE  command' \in [User -> View \cup {None}] /\ ViewsOK'
<1>0. command \in [User -> View \cup {None}]
  BY DEF TaskIInv, TaskTyped
<1>1. CASE UNCHANGED task /\ command' = [command EXCEPT ![u] = v]
  <2>1. command' \in [User -> View \cup {None}]
    BY <1>0, <1>1
  <2>2. command'[u] = v /\ \A w \in User \ {u} : command'[w] = command[w]
    BY <1>0, <1>1
  <2>3. ViewsOK'
    BY <1>1, <2>2 DEF TaskIInv, ViewsOK, Tasks!CurrentViewIsTrue, Tasks!RefusedChangesNothing,
    AskedOfTask
  <2> QED
    BY <2>1, <2>3
<1>2. CASE command' = [Tasks!Bumped EXCEPT ![u] = v]
  <2>1. \A w \in User : /\ Tasks!Bumped[w] \in View \cup {None}
                        /\ Tasks!Bumped[w] # None => ~Tasks!Bumped[w].current
                              /\ (Tasks!Bumped[w].answer = "refused" => ~Tasks!Bumped[w].receipt)
    BY BumpedViews
  <2>2. Tasks!Bumped = [w \in User |-> Tasks!Bumped[w]]
    BY DEF Tasks!Bumped
  <2>3. Tasks!Bumped \in [User -> View \cup {None}]
    BY <2>1, <2>2
  <2>4. command'[u] = v /\ \A w \in User \ {u} : command'[w] = Tasks!Bumped[w]
    BY <1>2, <2>3
  <2>5. command' \in [User -> View \cup {None}]
    BY <1>2, <2>3
  <2>6. ViewsOK'
    BY <2>1, <2>4 DEF ViewsOK, Tasks!CurrentViewIsTrue, Tasks!RefusedChangesNothing, AskedOfTask
  <2> QED
    BY <2>5, <2>6
<1> QED
  BY <1>1, <1>2

\* Only what members hold changes.
LEMMA ViewStep ==
  ASSUME TaskGiven, TaskIInv, UNCHANGED <<task, ticket, signals, config, hours>>,
         command' \in [User -> View \cup {None}], ViewsOK'
  PROVE  TaskIInv'
<1>1. /\ hours \in 1..MaxTime /\ hours \in Nat
      /\ ticket \in [status : {"open", "resolved", "ignored"}, regressed : Nat]
  BY DEF TaskIInv, TaskTyped
<1>2. hours' \in 1..MaxTime /\ hours' >= hours
  BY <1>1
<1>3. /\ ticket' \in [status : {"open", "resolved", "ignored"}, regressed : Nat]
      /\ ticket'.regressed \in {0, ticket.regressed}
  BY <1>1
<1> QED
  BY <1>2, <1>3, IssueStep

\* A reader's view is the task at the moment of reading.
LEMMA AskStep ==
  ASSUME TaskGiven, TaskIInv, NEW u \in User, NEW to \in Tasks!Stage \cup {"touch"},
         Tasks!Ask(u, to)
  PROVE  TaskIInv'
<1> DEFINE v == [stage |-> task.stage, verified |-> task.verified, to |-> to, current |-> TRUE,
                 receipt |-> FALSE, answer |-> None]
<1>1. /\ task # None /\ command' = [command EXCEPT ![u] = v]
      /\ UNCHANGED <<task, ticket, signals, config, hours>>
  BY DEF Tasks!Ask
<1>2. task \in TaskRow
  BY <1>1 DEF TaskIInv, TaskTyped
<1>3. task.stage \in Tasks!Stage /\ task.verified \in BOOLEAN
  BY <1>2 DEF TaskRow
<1>4. v \in View /\ v.answer # "refused" /\ v.stage = task'.stage /\ v.verified = task'.verified
  BY <1>1, <1>3 DEF View, AnswerOf, TaskGiven
<1>5. command' \in [User -> View \cup {None}] /\ ViewsOK'
  <2> HIDE DEF v
  <2> QED
    BY <1>1, <1>4, OneView
<1> QED
  BY <1>1, <1>5, ViewStep

\* A command that is applied is a move to a stage the table allows, or a touch.
LEMMA ApplyStep ==
  ASSUME TaskGiven, TaskIInv, NEW u \in User, NEW answered \in BOOLEAN,
         command[u] # None, Tasks!Accepted(u), Tasks!Apply(u, answered), UNCHANGED <<config, hours>>
  PROVE  TaskIInv'
<1> DEFINE v == Tasks!Past(TRUE, IF answered THEN "ok" ELSE None)
<1>1. command[u] \in View /\ command[u].current
  BY DEF TaskIInv, TaskTyped, Tasks!Accepted
<1>2. PICK to \in Tasks!Stage \cup {"touch"} : to = command[u].to
  BY <1>1 DEF View
<1>3. /\ task' = IF to = "touch" THEN task ELSE Tasks!Moved(to)
      /\ signals' = IF to = "touch" THEN signals ELSE {}
      /\ Tasks!MoveIssue(to) /\ command' = [Tasks!Bumped EXCEPT ![u] = v]
  BY <1>2 DEF Tasks!Apply
<1>4. task \in TaskRow /\ task # None
  BY DEF TaskIInv, TaskTyped, AskedOfTask
<1>5. v \in View /\ ~v.current /\ v.answer # "refused"
  BY DEF Tasks!Past, View, AnswerOf, TaskGiven
<1>6. /\ hours \in Nat /\ ticket.regressed <= hours
      /\ ticket \in [status : {"open", "resolved", "ignored"}, regressed : Nat]
  BY DEF TaskIInv, TaskTyped, BarrierHolds
<1> HIDE DEF v
<1>7. CASE to = "touch"
  <2>1. ticket' = ticket /\ task' = task /\ signals' = signals
    BY <1>3, <1>7 DEF Tasks!MoveIssue
  <2>2. command' \in [User -> View \cup {None}] /\ ViewsOK'
    BY <1>3, <1>4, <1>5, <2>1, OneView
  <2> QED
    BY <2>1, <2>2, ViewStep
<1>8. CASE to # "touch"
  <2>1. to \in Tasks!Stage /\ task' = Tasks!Moved(to) /\ signals' = {}
    BY <1>2, <1>3, <1>8
  <2>2. task' \in Fresh /\ task'.barrier = hours /\ task'.stage = to
    BY <1>4, <1>6, <2>1 DEF Tasks!Moved, TaskRow, Fresh
  <2>3. task' # None
    BY <2>2 DEF TaskGiven, Fresh, TaskRow
  <2>4. command' \in [User -> View \cup {None}] /\ ViewsOK'
    BY <1>3, <1>5, <2>3, OneView
  <2>5. /\ ticket' \in [status : {"open", "resolved", "ignored"}, regressed : Nat]
        /\ ticket'.regressed <= hours /\ (ticket'.regressed > 0 => to # "done")
    BY <1>3, <1>6 DEF Tasks!MoveIssue, Tasks!Status
  <2> QED
    BY <2>1, <2>2, <2>4, <2>5, RestartStep
<1> QED
  BY <1>7, <1>8

\* A command is answered: it is refused and changes nothing, or its author saw the task
\* as it is.
LEMMA CommandStep ==
  ASSUME TaskGiven, TaskIInv, NEW u \in User, NEW answered \in BOOLEAN, Tasks!Command(u, answered)
  PROVE  TaskIInv'
<1>1. command[u] # None /\ UNCHANGED <<config, hours>>
  BY DEF Tasks!Command
<1>2. command[u] \in View /\ command[u].receipt \in BOOLEAN /\ task # None
  BY <1>1 DEF TaskIInv, TaskTyped, View, AskedOfTask
<1>3. CASE Tasks!Receipt(u)
  <2>1. command' = [command EXCEPT ![u] = Tasks!Past(TRUE, "ok")]
        /\ UNCHANGED <<task, ticket, signals>>
    BY <1>3 DEF Tasks!Command
  <2>2. Tasks!Past(TRUE, "ok") \in View /\ ~Tasks!Past(TRUE, "ok").current
          /\ Tasks!Past(TRUE, "ok").answer # "refused"
    BY DEF Tasks!Past, View, AnswerOf
  <2>3. command' \in [User -> View \cup {None}] /\ ViewsOK'
    BY <1>2, <2>1, <2>2, OneView
  <2> QED
    BY <1>1, <2>1, <2>3, ViewStep
<1>4. CASE ~Tasks!Receipt(u) /\ Tasks!Accepted(u)
  BY <1>1, <1>4, ApplyStep DEF Tasks!Command
<1>5. CASE ~Tasks!Receipt(u) /\ ~Tasks!Accepted(u)
  <2>1. Tasks!Refuse(u, answered) /\ UNCHANGED <<task, ticket, signals>> /\ ~command[u].receipt
    BY <1>5 DEF Tasks!Command, Tasks!Refuse, Tasks!Receipt
  <2>2. CASE answered
    <3>1. command' = [command EXCEPT ![u] = Tasks!Past(command[u].receipt, "refused")]
      BY <2>1, <2>2 DEF Tasks!Refuse
    <3>2. PICK v \in View : v = Tasks!Past(command[u].receipt, "refused")
      BY <1>2 DEF Tasks!Past, View, AnswerOf
    <3>3. ~v.current /\ ~v.receipt
      BY <2>1, <3>2 DEF Tasks!Past
    <3>4. command' \in [User -> View \cup {None}] /\ ViewsOK'
      BY <1>2, <2>1, <3>1, <3>2, <3>3, OneView
    <3> QED
      BY <1>1, <2>1, <3>4, ViewStep
  <2>3. CASE ~answered
    <3>1. command' = command
      BY <2>1, <2>3 DEF Tasks!Refuse
    <3>2. command' \in [User -> View \cup {None}] /\ ViewsOK'
      BY <2>1, <3>1, SameViews
    <3> QED
      BY <1>1, <2>1, <3>2, ViewStep
  <2> QED
    BY <2>2, <2>3
<1> QED
  BY <1>3, <1>4, <1>5

-----------------------------------------------------------------------------
\* What the signals S prove, in the words of VerifiedIsProved.
Proof(S) ==
    \E m \in S, c \in S, d \in S :
        /\ m.kind = "pr.merged" /\ c.kind = "ci.completed" /\ c.ok /\ d.kind = "release.deployed"
        /\ c.commit = m.commit /\ d.commit = m.commit /\ d.at >= m.at
        /\ \A s \in S : s.kind \in Tasks!Authority => s.at <= m.at
        /\ \A s \in S : s.kind = "ci.completed" /\ s.commit = c.commit => s.at <= c.at
Selected(S, a, c, d) ==
    /\ a = Tasks!Latest({o \in S : o.kind \in Tasks!Authority}) /\ a # None
    /\ c = Tasks!Of(S, "ci.completed", a) /\ d = Tasks!Of(S, "release.deployed", a)

\* What apply_evidence selects is among the signals.
LEMMA SelectedAreHere ==
  ASSUME TaskGiven, NEW S \in SUBSET Tasks!Signal, NEW a, NEW c, NEW d, Selected(S, a, c, d)
  PROVE  /\ a \in S /\ a.kind \in Tasks!Authority /\ \A o \in S : o.kind \in Tasks!Authority
              => o.at <= a.at
         /\ c # None => /\ c \in S /\ c.kind = "ci.completed" /\ c.commit = a.commit
                        /\ \A o \in S : o.kind = "ci.completed" /\ o.commit = a.commit =>
                                          o.at <= c.at
         /\ d # None => d \in S /\ d.kind = "release.deployed" /\ d.commit = a.commit
<1> DEFINE A == {o \in S : o.kind \in Tasks!Authority}
           C == {o \in S : o.kind = "ci.completed" /\ o.commit = a.commit}
           D == {o \in S : o.kind = "release.deployed" /\ o.commit = a.commit}
<1>1. a = Tasks!Latest(A) /\ a # None /\ c = Tasks!Latest(C) /\ d = Tasks!Latest(D)
  BY DEF Selected, Tasks!Of
<1>2. A \in SUBSET Tasks!Signal /\ C \in SUBSET Tasks!Signal /\ D \in SUBSET Tasks!Signal
  OBVIOUS
<1>3. a \in A /\ \A o \in A : o.at <= a.at
  <2> HIDE DEF A, C, D
  <2>1. A # {}
    BY <1>1 DEF Tasks!Latest
  <2> QED
    BY <1>1, <1>2, <2>1, LatestIs
<1>4. c # None => c \in C /\ \A o \in C : o.at <= c.at
  <2> HIDE DEF A, C, D
  <2>1. c # None => C # {}
    BY <1>1 DEF Tasks!Latest
  <2> QED
    BY <1>1, <1>2, <2>1, LatestIs
<1>5. d # None => d \in D
  <2> HIDE DEF A, C, D
  <2>1. d # None => D # {}
    BY <1>1 DEF Tasks!Latest
  <2> QED
    BY <1>1, <1>2, <2>1, LatestIs
<1> QED
  BY <1>3, <1>4, <1>5

\* Evidence that verifies is a proof.
LEMMA VerifiedProves ==
  ASSUME TaskGiven, NEW S \in SUBSET Tasks!Signal, NEW a, NEW c, NEW d, Selected(S, a, c, d),
         Tasks!Verified(a, c, d)
  PROVE  Proof(S)
<1>1. /\ a.kind = "pr.merged" /\ c # None /\ c.ok /\ d # None /\ d.at >= a.at
  BY DEF Tasks!Verified
<1>2. /\ a \in S /\ c \in S /\ d \in S /\ c.kind = "ci.completed" /\ c.commit = a.commit
      /\ d.kind = "release.deployed" /\ d.commit = a.commit
      /\ \A o \in S : o.kind \in Tasks!Authority => o.at <= a.at
      /\ \A o \in S : o.kind = "ci.completed" /\ o.commit = a.commit => o.at <= c.at
  BY <1>1, SelectedAreHere
<1>3. \A o \in S : o.kind = "ci.completed" /\ o.commit = c.commit => o.at <= c.at
  BY <1>2
<1>4. c.commit = a.commit
  BY <1>2
<1> QED
  BY <1>1, <1>2, <1>3, <1>4 DEF Proof

\* What a delivery leaves of the signals: it replaces one of its class and time.
Kept(s) == {o \in signals : ~Tasks!Superseded(o, s)} \cup {s}

\* Every signal is later than the barrier, before a delivery and after it.
LEMMA KeptAreNew ==
  ASSUME TaskGiven, TaskIInv, NEW s \in Tasks!Signal, Tasks!Receive(s)
  PROVE  /\ task \in TaskRow /\ task # None /\ task.stage # "cancelled" /\ config.version \in Nat
         /\ signals' = Kept(s) /\ UNCHANGED <<config, hours>>
         /\ Kept(s) \in SUBSET Tasks!Signal /\ \A o \in Kept(s) : o.at > task.barrier
         /\ task.barrier \in Nat /\ hours \in Nat /\ task.barrier <= hours
         /\ task.barrier >= ticket.regressed /\ ticket.regressed <= hours
<1>1. /\ task # None /\ ~Tasks!Ignored(s) /\ signals' = Kept(s) /\ UNCHANGED <<config, hours>>
  BY DEF Tasks!Receive, Kept
<1>2. task \in TaskRow /\ config.version \in Nat /\ hours \in Nat /\ signals \subseteq Tasks!Signal
  BY <1>1 DEF TaskIInv, TaskTyped
<1>3. task.barrier \in Nat /\ s.at \in Nat /\ task.stage # "cancelled"
  BY <1>1, <1>2 DEF TaskRow, Tasks!Signal, Tasks!Ignored
<1>4. s.at > task.barrier
  BY <1>1, <1>3 DEF Tasks!Ignored
<1>5. \A o \in signals : o.at > task.barrier
  BY <1>1 DEF TaskIInv, SignalsAreNew
<1>6. Kept(s) \in SUBSET Tasks!Signal /\ \A o \in Kept(s) : o.at > task.barrier
  BY <1>2, <1>4, <1>5 DEF Kept
<1>7. task.barrier <= hours /\ task.barrier >= ticket.regressed /\ ticket.regressed <= hours
  BY <1>1, <1>3 DEF TaskIInv, SignalsAreNew, BarrierHolds
<1> QED
  BY <1>1, <1>2, <1>3, <1>6, <1>7

\* The signal that a proof rests on is replaced only by one of the same class.
LEMMA AuthorityStays ==
  ASSUME NEW s, NEW m \in signals, m.kind \in Tasks!Authority
  PROVE  \E o \in Kept(s) : o.kind \in Tasks!Authority
<1>1. CASE Tasks!Superseded(m, s)
  <2>1. Tasks!Class(m) = <<"authority">> /\ Tasks!Class(m) = Tasks!Class(s)
    BY <1>1 DEF Tasks!Class, Tasks!Superseded
  <2>2. s.kind \in Tasks!Authority
    <3>1. <<"authority">> # <<s.kind, s.commit>>
      OBVIOUS
    <3> QED
      BY <2>1, <3>1 DEF Tasks!Class
  <2> QED
    BY <2>2 DEF Kept
<1>2. CASE ~Tasks!Superseded(m, s)
  BY <1>2 DEF Kept
<1> QED
  BY <1>1, <1>2

\* A delivery that leaves the task as it was, given that what it proves still holds.
LEMMA QuietStep ==
  ASSUME TaskGiven, TaskIInv, NEW s \in Tasks!Signal, Tasks!Receive(s),
         UNCHANGED <<task, ticket, command>>,
         task.verified /\ task.evidence.version = config.version => Proof(Kept(s))
  PROVE  TaskIInv'
<1>1. /\ task # None /\ signals' = Kept(s) /\ UNCHANGED <<config, hours>>
      /\ Kept(s) \in SUBSET Tasks!Signal /\ \A o \in Kept(s) : o.at > task.barrier
      /\ task.barrier <= hours
  BY KeptAreNew
<1>2. TaskTyped'
  BY <1>1 DEF TaskIInv, TaskTyped
<1>3. EvidenceHolds' /\ EvidenceIsPast' /\ BarrierHolds' /\ Tasks!RegressedIsNotDone'
  BY <1>1 DEF TaskIInv, EvidenceHolds, EvidenceIsPast, BarrierHolds, Tasks!RegressedIsNotDone
<1>4. SignalsAreNew'
  BY <1>1 DEF SignalsAreNew
<1>5. Tasks!VerifiedIsProved'
  BY <1>1 DEF Tasks!VerifiedIsProved, Proof
<1>6. ViewsOK'
  BY SameViews
<1> QED
  BY <1>2, <1>3, <1>4, <1>5, <1>6 DEF TaskIInv, ViewsOK

\* A delivery that changes what the task rests on.
LEMMA EvidenceStep ==
  ASSUME TaskGiven, TaskIInv, NEW s \in Tasks!Signal, Tasks!Receive(s), NEW a, NEW c, NEW d,
         Selected(Kept(s), a, c, d), Tasks!ApplyEvidence(a, c, d),
         ~UNCHANGED <<task, ticket, command>>
  PROVE  /\ TaskIInv'
         /\ task'.verified =>
              \A e \in {"authority", "checks", "deployment"} :
                 task'.evidence[e].at > ticket.regressed
<1> DEFINE verified == Tasks!Verified(a, c, d)
           stage == Tasks!NextStage(a, verified)
           evidence == [version |-> config.version, authority |-> a, checks |-> c,
                        deployment |-> d]
           S == Kept(s)
<1>1. /\ task \in TaskRow /\ task # None /\ task.stage # "cancelled" /\ config.version \in Nat
      /\ signals' = S /\ UNCHANGED <<config, hours>>
      /\ S \in SUBSET Tasks!Signal /\ \A o \in S : o.at > task.barrier
      /\ task.barrier \in Nat /\ hours \in Nat /\ task.barrier <= hours
      /\ task.barrier >= ticket.regressed /\ ticket.regressed <= hours
  BY KeptAreNew
<1>2. /\ task' = [task EXCEPT !.stage = stage, !.verified = verified, !.evidence = evidence]
      /\ ticket' = IF verified THEN Tasks!Status("resolved", 0)
                  ELSE IF task.stage = "done" /\ ticket.status = "resolved"
                       THEN [ticket EXCEPT !.status = "open"] ELSE ticket
      /\ Tasks!Bump
  BY DEF Tasks!ApplyEvidence
<1>3. /\ a \in S /\ a.kind \in Tasks!Authority /\ (c # None => c \in S) /\ (d # None => d \in S)
  BY <1>1, SelectedAreHere
<1>4. evidence \in Evidence
  BY <1>1, <1>3 DEF Evidence
<1>5. verified \in BOOLEAN
  BY DEF Tasks!Verified
<1>6. stage \in Tasks!Stage \ {"cancelled"} /\ (stage = "done" <=> verified)
  BY <1>3 DEF Tasks!NextStage, Tasks!Stage, Tasks!Authority
<1> HIDE DEF verified, stage, evidence, S
<1>7. /\ task' \in TaskRow /\ task'.stage = stage /\ task'.verified = verified
      /\ task'.evidence = evidence /\ task'.barrier = task.barrier
  BY <1>1, <1>2, <1>4, <1>5, <1>6 DEF TaskRow
<1>8. task' # None
  BY <1>7 DEF TaskGiven
<1>9. /\ ticket' \in [status : {"open", "resolved", "ignored"}, regressed : Nat]
      /\ ticket'.regressed \in {0, ticket.regressed} /\ (verified => ticket'.regressed = 0)
  <2>1. ticket \in [status : {"open", "resolved", "ignored"}, regressed : Nat]
    BY DEF TaskIInv, TaskTyped
  <2> QED
    BY <1>2, <2>1 DEF Tasks!Status
<1>10. command' \in [User -> View \cup {None}] /\ ViewsOK'
  BY <1>2, <1>8, BumpStep
<1>11. TaskTyped'
  BY <1>1, <1>7, <1>9, <1>10 DEF TaskIInv, TaskTyped
<1>12. EvidenceHolds' /\ EvidenceIsPast'
  <2>1. evidence # None /\ evidence.version = config.version
    BY <1>4 DEF evidence, TaskGiven
  <2>2. verified => Tasks!Verified(evidence.authority, evidence.checks, evidence.deployment)
    BY DEF verified, evidence
  <2>3. EvidenceHolds'
    BY <1>6, <1>7, <2>1, <2>2 DEF EvidenceHolds
  <2>4. EvidenceIsPast'
    BY <1>1, <1>7, <2>1 DEF EvidenceIsPast
  <2> QED
    BY <2>3, <2>4
<1>13. SignalsAreNew'
  BY <1>1, <1>7, <1>8 DEF SignalsAreNew
<1>14. BarrierHolds' /\ Tasks!RegressedIsNotDone'
  BY <1>1, <1>6, <1>7, <1>9 DEF BarrierHolds, Tasks!RegressedIsNotDone
<1>15. Tasks!VerifiedIsProved'
  <2>1. verified => Proof(S)
    BY <1>1, VerifiedProves DEF verified, S
  <2> QED
    BY <1>1, <1>7, <2>1 DEF Tasks!VerifiedIsProved, Proof
<1>16. ASSUME verified, NEW e \in {"authority", "checks", "deployment"}
       PROVE  task'.evidence[e].at > ticket.regressed
  <2>1. c # None /\ d # None
    BY <1>16 DEF verified, Tasks!Verified
  <2>2. evidence[e] \in S
    BY <1>3, <2>1 DEF evidence
  <2>3. evidence[e].at \in Nat /\ evidence[e].at > task.barrier
    BY <1>1, <2>2 DEF Tasks!Signal
  <2>4. ticket.regressed \in Nat
    BY DEF TaskIInv, TaskTyped
  <2> QED
    BY <1>1, <1>7, <2>3, <2>4
<1> QED
  BY <1>7, <1>10, <1>11, <1>12, <1>13, <1>14, <1>15, <1>16 DEF TaskIInv, ViewsOK

\* A task is not verified while its issue has regressed.
LEMMA VerifiedHasNotRegressed ==
  ASSUME TaskIInv, task # None, task.verified PROVE ~(ticket.regressed > 0)
  BY DEF TaskIInv, EvidenceHolds, Tasks!RegressedIsNotDone

\* A signal arrives, and the task is judged again by all that were kept.
LEMMA ReceiveStep ==
  ASSUME TaskGiven, TaskIInv, NEW s \in Tasks!Signal, Tasks!Receive(s)
  PROVE  TaskIInv' /\ Tasks!SinceStep
<1> DEFINE S == Kept(s)
           a == Tasks!Latest({o \in S : o.kind \in Tasks!Authority})
           c == Tasks!Of(S, "ci.completed", a)
           d == Tasks!Of(S, "release.deployed", a)
<1>1. /\ task \in TaskRow /\ task # None /\ S \in SUBSET Tasks!Signal
      /\ signals' = S /\ UNCHANGED <<config, hours>>
  BY KeptAreNew
<1>2. IF a = None THEN UNCHANGED <<task, ticket, command>> ELSE Tasks!ApplyEvidence(a, c, d)
  BY DEF Tasks!Receive, Kept
<1>3. ASSUME UNCHANGED <<task, ticket, command>>,
             task.verified /\ task.evidence.version = config.version => Proof(S)
      PROVE  TaskIInv' /\ Tasks!SinceStep
  <2>1. TaskIInv'
    BY <1>3, QuietStep
  <2>2. Tasks!SinceStep
    BY <1>1, <1>3, VerifiedHasNotRegressed DEF Tasks!SinceStep
  <2> QED
    BY <2>1, <2>2
<1>4. CASE a = None
  <2>1. \A o \in S : o.kind \notin Tasks!Authority
    <3> DEFINE A == {o \in S : o.kind \in Tasks!Authority}
    <3>1. A # {} => Tasks!Latest(A) \in A
      <4>1. A \in SUBSET Tasks!Signal
        BY <1>1
      <4> HIDE DEF A
      <4> QED
        BY <4>1, LatestIs
    <3>2. A = {}
      <4>1. \A o \in A : o \in Tasks!Signal
        BY <1>1
      <4> QED
        BY <1>4, <3>1, <4>1 DEF TaskGiven
    <3> QED
      BY <3>2
  <2>2. ~(task.verified /\ task.evidence.version = config.version)
    <3> SUFFICES ASSUME task.verified, task.evidence.version = config.version PROVE FALSE
      OBVIOUS
    <3>1. Tasks!VerifiedIsProved
      BY DEF TaskIInv
    <3>2. PICK m \in signals : m.kind = "pr.merged"
      BY <1>1, <3>1 DEF Tasks!VerifiedIsProved
    <3>3. m.kind \in Tasks!Authority
      BY <3>2 DEF Tasks!Authority
    <3> QED
      BY <2>1, <3>3, AuthorityStays
  <2> QED
    BY <1>2, <1>3, <1>4, <2>2
<1>5. CASE a # None
  <2>1. Selected(S, a, c, d)
    BY <1>5 DEF Selected
  <2>2. Tasks!ApplyEvidence(a, c, d)
    BY <1>2, <1>5
  <2>3. CASE UNCHANGED <<task, ticket, command>>
    <3>1. task.verified => Tasks!Verified(a, c, d)
      <4> HIDE DEF a, c, d
      <4> SUFFICES ASSUME task.verified PROVE Tasks!Verified(a, c, d)
        OBVIOUS
      <4>1. /\ task.evidence # None
            /\ Tasks!Verified(task.evidence.authority, task.evidence.checks, task.evidence.deployment)
        BY <1>1 DEF TaskIInv, EvidenceHolds
      <4>2. CASE task.evidence = [version |-> config.version, authority |-> a, checks |-> c,
                                  deployment |-> d]
        BY <4>1, <4>2
      <4>3. CASE task' = [task EXCEPT !.stage = Tasks!NextStage(a, Tasks!Verified(a, c, d)),
                                      !.verified = Tasks!Verified(a, c, d),
                                      !.evidence = [version |-> config.version, authority |-> a,
                                                    checks |-> c, deployment |-> d]]
        <5>1. task'.verified = Tasks!Verified(a, c, d)
          BY <1>1, <4>3 DEF TaskRow
        <5> QED
          BY <2>3, <5>1
      <4> QED
        BY <2>2, <4>2, <4>3 DEF Tasks!ApplyEvidence
    <3>2. task.verified => Proof(S)
      <4> HIDE DEF a, c, d, S
      <4> QED
        BY <1>1, <2>1, <3>1, VerifiedProves
    <3> QED
      BY <1>3, <2>3, <3>2
  <2>4. CASE ~UNCHANGED <<task, ticket, command>>
    <3> HIDE DEF a, c, d
    <3> QED
      BY <2>1, <2>2, <2>4, EvidenceStep DEF Tasks!SinceStep
  <2> QED
    BY <2>3, <2>4
<1> QED
  BY <1>4, <1>5

\* The steps that are not a delivery leave a task that is not verified as it was.
LEMMA SinceOtherStep ==
  ASSUME TaskGiven, TaskIInv, [Tasks!Next]_(Tasks!vars), \A s \in Tasks!Signal : ~Tasks!Receive(s)
  PROVE  Tasks!SinceStep
<1> SUFFICES ASSUME task # None, ticket.regressed > 0, task'.verified PROVE FALSE
  BY DEF Tasks!SinceStep
<1>1. ~task.verified
  BY VerifiedHasNotRegressed
<1>2. task \in TaskRow
  BY DEF TaskIInv, TaskTyped
<1>3. UNCHANGED task \/ task' = Tasks!Regressed(hours) \/ \E to : task' = Tasks!Moved(to)
  <2>1. CASE Tasks!Occurrence
    BY <2>1 DEF Tasks!Occurrence, Tasks!RegressTask
  <2>2. CASE Tasks!Resolve \/ Tasks!Tick \/ UNCHANGED Tasks!vars
    BY <2>2 DEF Tasks!Resolve, Tasks!Tick, Tasks!vars
  <2>3. CASE Tasks!Create
    BY <2>3 DEF Tasks!Create
  <2>4. ASSUME NEW to, Tasks!SetStatus(to) PROVE UNCHANGED task
    BY <2>4 DEF Tasks!SetStatus
  <2>5. ASSUME NEW u \in User, NEW to, Tasks!Ask(u, to) PROVE UNCHANGED task
    BY <2>5 DEF Tasks!Ask
  <2>6. ASSUME NEW u \in User, NEW answered \in BOOLEAN, Tasks!Command(u, answered)
        PROVE  UNCHANGED task \/ \E to : task' = Tasks!Moved(to)
    BY <2>6 DEF Tasks!Command, Tasks!Apply, Tasks!Refuse
  <2>7. ASSUME NEW enabled \in BOOLEAN, Tasks!Configure(enabled) PROVE UNCHANGED task
    BY <2>7 DEF Tasks!Configure
  <2> QED
    BY <2>1, <2>2, <2>3, <2>4, <2>5, <2>6, <2>7 DEF Tasks!Next
<1>4. task'.verified = task.verified \/ ~task'.verified
  BY <1>2, <1>3 DEF Tasks!Regressed, Tasks!Moved, TaskRow
<1> QED
  BY <1>1, <1>4

\* Every step keeps the invariant, and verifies no task but by newer signals.
LEMMA TaskStep ==
  ASSUME TaskGiven, TaskIInv, [Tasks!Next]_(Tasks!vars)
  PROVE TaskIInv' /\ Tasks!SinceStep
<1>1. ASSUME Tasks!Occurrence \/ Tasks!Resolve \/ Tasks!Create \/ Tasks!Tick PROVE TaskIInv'
  BY <1>1, OccurrenceStep, ResolveStep, CreateStep, TickStep
<1>2. ASSUME NEW to, Tasks!SetStatus(to) PROVE TaskIInv'
  BY <1>2, SetStatusStep
<1>3. ASSUME NEW u \in User, NEW to \in Tasks!Stage \cup {"touch"}, Tasks!Ask(u, to) PROVE TaskIInv'
  BY <1>3, AskStep
<1>4. ASSUME NEW u \in User, NEW answered \in BOOLEAN, Tasks!Command(u, answered) PROVE TaskIInv'
  BY <1>4, CommandStep
<1>5. ASSUME NEW enabled \in BOOLEAN, Tasks!Configure(enabled) PROVE TaskIInv'
  BY <1>5, ConfigureStep
<1>6. ASSUME NEW s \in Tasks!Signal, Tasks!Receive(s) PROVE TaskIInv' /\ Tasks!SinceStep
  BY <1>6, ReceiveStep
<1>7. ASSUME UNCHANGED Tasks!vars PROVE TaskIInv'
  <2>1. UNCHANGED <<task, ticket, signals, config, hours, command>>
    BY <1>7 DEF Tasks!vars
  <2>2. command' \in [User -> View \cup {None}] /\ ViewsOK'
    BY <2>1, SameViews
  <2> QED
    BY <2>1, <2>2, ViewStep
<1>8. TaskIInv'
  BY <1>1, <1>2, <1>3, <1>4, <1>5, <1>6, <1>7 DEF Tasks!Next
<1>9. Tasks!SinceStep
  BY <1>6, SinceOtherStep
<1> QED
  BY <1>8, <1>9

\* The invariant holds from the first state on.
LEMMA TaskInvariance == ASSUME TaskGiven PROVE Tasks!Spec => []TaskIInv
<1>1. Tasks!Init => TaskIInv
  BY TaskInit
<1>2. TaskIInv /\ [Tasks!Next]_(Tasks!vars) => TaskIInv'
  BY TaskStep
<1> QED
  BY <1>1, <1>2, PTL DEF Tasks!Spec

\* A task is verified only by a merge, passed checks and a deployment of one commit that are
\* here and not outdated (docs/self-hosting.md), in whatever order they came; and the task of
\* an issue that has regressed is not done.
THEOREM VerifiedTasks ==
  ASSUME TaskGiven
  PROVE  Tasks!Spec => [](Tasks!VerifiedIsProved /\ Tasks!RegressedIsNotDone)
<1>1. TaskIInv => Tasks!VerifiedIsProved /\ Tasks!RegressedIsNotDone
  BY DEF TaskIInv
<1> QED
  BY <1>1, TaskInvariance, PTL

\* A command that may still be accepted was sent about the task as it is, and one that was
\* refused, also when its first answer was lost, has changed nothing.
THEOREM Commands ==
  ASSUME TaskGiven
  PROVE  Tasks!Spec => [](Tasks!CurrentViewIsTrue /\ Tasks!RefusedChangesNothing)
<1>1. TaskIInv => Tasks!CurrentViewIsTrue /\ Tasks!RefusedChangesNothing
  BY DEF TaskIInv
<1> QED
  BY <1>1, TaskInvariance, PTL

\* After a regression a task is verified by signals received since, and never by those of
\* the time before.
THEOREM VerifiedAgain == ASSUME TaskGiven PROVE Tasks!Spec => Tasks!VerifiedSinceRegression
<1>1. TaskIInv /\ [Tasks!Next]_(Tasks!vars) => [Tasks!SinceStep]_(Tasks!vars)
  BY TaskStep
<1> QED
  BY <1>1, TaskInvariance, PTL DEF Tasks!Spec, Tasks!VerifiedSinceRegression

(***************************************************************************)
(* CloudIdentity.  A session row is of the epoch last reconciled, and one  *)
(* that is present has kept the epoch under which a request read it.       *)
(***************************************************************************)
Asked == [step : {"login", "found", "known"}, epoch : Nat, id : Session \cup {None}]

\* An epoch, a session and a request under way are neither None nor Gone.
CloudGiven ==
    /\ MaxEpoch \in Nat \ {0} /\ None # Gone /\ None \notin Nat /\ Gone \notin Nat
    /\ None \notin Session /\ Gone \notin Session
    /\ None \notin Asked /\ Gone \notin Asked

CloudTyped ==
    /\ remote \in Nat /\ local \in Nat \cup {None} /\ placed \in Nat \cup {None}
    /\ cookie \in [Session -> Nat \cup {None, Gone}]
    /\ ask \in [Request -> Asked \cup {None, Gone}]

\* The sessions that are left, and the assignment, are of the epoch last reconciled.
RowsAreOfEpoch ==
    /\ \A s \in Session : Cloud!Present(s) => cookie[s] = local
    /\ placed \in {None, local}

\* A request has the epoch of the session that it read: the session keeps it, or goes.
AsksHold ==
    \A r \in Request : (Cloud!At(r, "found") \/ Cloud!At(r, "known")) =>
        /\ ask[r].id \in Session /\ cookie[ask[r].id] # None
        /\ Cloud!Present(ask[r].id) => cookie[ask[r].id] = ask[r].epoch

CloudIInv == CloudTyped /\ RowsAreOfEpoch /\ AsksHold /\ Cloud!AdmittedIsCurrent

\* Nobody is signed in and nobody asks.
LEMMA CloudInit == ASSUME CloudGiven, Cloud!Init PROVE CloudIInv
  BY DEF CloudGiven, Cloud!Init, CloudIInv, CloudTyped, RowsAreOfEpoch, AsksHold,
  Cloud!AdmittedIsCurrent,
         Cloud!Present, Cloud!At

\* One session is opened, or sessions go: what a request read is still so.
LEMMA ReadsStand ==
  ASSUME CloudGiven, CloudIInv, UNCHANGED ask,
         \A s \in Session : cookie[s] # None => cookie'[s] \in {cookie[s], Gone}
  PROVE  AsksHold'
  BY DEF CloudGiven, CloudIInv, CloudTyped, AsksHold, Cloud!Present, Cloud!At

\* A request that is new, or that ends, leaves those of others.
LEMMA OneAsk ==
  ASSUME CloudGiven, CloudIInv, NEW r \in Request, NEW a \in Asked \cup {Gone},
         ask' = [ask EXCEPT ![r] = a],
         \A s \in Session : cookie[s] # None => cookie'[s] \in {cookie[s], Gone},
         a # Gone /\ a.step # "login" =>
            /\ a.id \in Session /\ cookie'[a.id] # None
            /\ cookie'[a.id] # Gone => cookie'[a.id] = a.epoch
  PROVE  ask' \in [Request -> Asked \cup {None, Gone}] /\ AsksHold'
<1>1. ask' \in [Request -> Asked \cup {None, Gone}]
  BY DEF CloudIInv, CloudTyped
<1>2. ask'[r] = a /\ \A q \in Request \ {r} : ask'[q] = ask[q]
  BY DEF CloudIInv, CloudTyped
<1>3. ASSUME NEW q \in Request, (Cloud!At(q, "found") \/ Cloud!At(q, "known"))'
      PROVE  /\ ask'[q].id \in Session /\ cookie'[ask'[q].id] # None
             /\ cookie'[ask'[q].id] # Gone => cookie'[ask'[q].id] = ask'[q].epoch
  <2>1. CASE q = r
    BY <1>2, <1>3, <2>1 DEF Cloud!At
  <2>2. CASE q # r
    <3>1. ask'[q] = ask[q]
      BY <1>2, <2>2
    <3>2. Cloud!At(q, "found") \/ Cloud!At(q, "known")
      BY <1>3, <3>1 DEF Cloud!At
    <3>3. /\ ask[q].id \in Session /\ cookie[ask[q].id] # None
          /\ Cloud!Present(ask[q].id) => cookie[ask[q].id] = ask[q].epoch
      BY <3>2 DEF CloudIInv, AsksHold
    <3>4. cookie'[ask[q].id] \in {cookie[ask[q].id], Gone}
      BY <3>3
    <3> QED
      BY <3>1, <3>3, <3>4 DEF Cloud!Present, CloudGiven
  <2> QED
    BY <2>1, <2>2
<1> QED
  BY <1>1, <1>3 DEF AsksHold, Cloud!Present

\* A login reconciles the user: sessions and assignments of another epoch go.
LEMMA ReconcileStep ==
  ASSUME CloudGiven, CloudIInv, NEW r \in Request, NEW s \in Session, Cloud!Reconcile(r, s)
  PROVE  CloudIInv'
<1>1. PICK epoch : epoch = ask[r].epoch
  OBVIOUS
<1>2. /\ Cloud!At(r, "login") /\ cookie[s] = None
      /\ cookie' = [x \in Session |-> IF x = s THEN epoch
                      ELSE IF Cloud!Changed(epoch) /\ Cloud!Present(x) THEN Gone ELSE cookie[x]]
      /\ placed' = IF Cloud!Changed(epoch) THEN None ELSE placed
      /\ local' = epoch /\ ask' = [ask EXCEPT ![r] = Gone]
      /\ UNCHANGED <<remote, admitted>>
  BY <1>1 DEF Cloud!Reconcile
<1>3. epoch \in Nat
  BY <1>1, <1>2 DEF Cloud!At, CloudIInv, CloudTyped, Asked
<1>4. \A x \in Session : cookie[x] # None => cookie'[x] \in {cookie[x], Gone}
  BY <1>2
<1>5. ask' \in [Request -> Asked \cup {None, Gone}] /\ AsksHold'
  BY <1>2, <1>4, OneAsk DEF CloudGiven
<1>6. CloudTyped'
  BY <1>2, <1>3, <1>5 DEF CloudIInv, CloudTyped
<1>7. \A x \in Session : Cloud!Present(x)' => cookie'[x] = local'
  <2> SUFFICES ASSUME NEW x \in Session, cookie'[x] \notin {None, Gone}
               PROVE  cookie'[x] = epoch
    BY <1>2 DEF Cloud!Present
  <2>1. CASE x = s
    BY <1>2, <2>1
  <2>2. CASE x # s
    <3>1. cookie'[x] = cookie[x] /\ Cloud!Present(x) /\ ~Cloud!Changed(epoch)
      BY <1>2, <2>2 DEF Cloud!Present
    <3>2. cookie[x] = local
      BY <3>1 DEF CloudIInv, RowsAreOfEpoch
    <3> QED
      BY <3>1, <3>2 DEF Cloud!Changed, Cloud!Present
  <2> QED
    BY <2>1, <2>2
<1>8. placed' \in {None, local'}
  <2>1. placed \in {None, local}
    BY DEF CloudIInv, RowsAreOfEpoch
  <2> QED
    BY <1>2, <2>1 DEF Cloud!Changed
<1>9. Cloud!AdmittedIsCurrent'
  BY <1>2 DEF CloudIInv, Cloud!AdmittedIsCurrent
<1> QED
  BY <1>5, <1>6, <1>7, <1>8, <1>9 DEF CloudIInv, RowsAreOfEpoch

\* A request reads a row, with the epoch it has at that moment.
LEMMA LookupStep ==
  ASSUME CloudGiven, CloudIInv, NEW r \in Request, NEW s \in Session, Cloud!Lookup(r, s)
  PROVE  CloudIInv'
<1> DEFINE a == [step |-> "found", epoch |-> local, id |-> s]
<1>1. /\ Cloud!Present(s) /\ ask' = [ask EXCEPT ![r] = a]
      /\ UNCHANGED <<remote, local, cookie, placed, admitted>>
  BY DEF Cloud!Lookup
<1>2. cookie[s] = local /\ local \in Nat
  BY <1>1 DEF CloudIInv, RowsAreOfEpoch, CloudTyped, Cloud!Present
<1>3. a \in Asked
  BY <1>2 DEF Asked
<1>4. ask' \in [Request -> Asked \cup {None, Gone}] /\ AsksHold'
  BY <1>1, <1>2, <1>3, OneAsk DEF CloudGiven, Cloud!Present
<1> QED
  BY <1>1, <1>4 DEF CloudIInv, CloudTyped, RowsAreOfEpoch, Cloud!AdmittedIsCurrent, Cloud!Present

\* The identity service knows the session, and the request goes on, or it does not.
LEMMA IntrospectStep ==
  ASSUME CloudGiven, CloudIInv, NEW r \in Request, Cloud!Introspect(r) PROVE CloudIInv'
<1>1. /\ Cloud!At(r, "found")
      /\ ask' = [ask EXCEPT ![r] = IF Cloud!Agrees(r) THEN [ask[r] EXCEPT !.step = "known"] ELSE Gone]
      /\ UNCHANGED <<remote, local, cookie, placed, admitted>>
  BY DEF Cloud!Introspect
<1>2. PICK a : a = IF Cloud!Agrees(r) THEN [ask[r] EXCEPT !.step = "known"] ELSE Gone
  OBVIOUS
<1>3. ask[r] \in Asked
  BY <1>1 DEF CloudIInv, CloudTyped, Cloud!At
<1>4. a \in Asked \cup {Gone} /\ (a # Gone => a.id = ask[r].id /\ a.epoch = ask[r].epoch)
  BY <1>2, <1>3 DEF Asked
<1>5. /\ ask[r].id \in Session /\ cookie[ask[r].id] # None
      /\ Cloud!Present(ask[r].id) => cookie[ask[r].id] = ask[r].epoch
  BY <1>1 DEF CloudIInv, AsksHold
<1>6. ask' \in [Request -> Asked \cup {None, Gone}] /\ AsksHold'
  BY <1>1, <1>2, <1>4, <1>5, OneAsk DEF Cloud!Present
<1> QED
  BY <1>1, <1>6 DEF CloudIInv, CloudTyped, RowsAreOfEpoch, Cloud!AdmittedIsCurrent, Cloud!Present

\* The session that is there is of the epoch that was confirmed, and so is the project.
LEMMA AdmitStep ==
  ASSUME CloudGiven, CloudIInv, NEW r \in Request, Cloud!Admit(r) PROVE CloudIInv'
<1>1. /\ Cloud!At(r, "known") /\ ask' = [ask EXCEPT ![r] = Gone]
      /\ admitted' = IF Cloud!StillPresent(r)
                     THEN admitted \cup {[epoch |-> ask[r].epoch,
                                          session |-> cookie[ask[r].id], project |-> placed]}
                     ELSE admitted
      /\ UNCHANGED <<remote, local, cookie, placed>>
  BY DEF Cloud!Admit
<1>2. Cloud!StillPresent(r) => cookie[ask[r].id] = ask[r].epoch /\ placed \in {None, ask[r].epoch}
  BY <1>1 DEF CloudIInv, AsksHold, RowsAreOfEpoch, Cloud!StillPresent
<1>3. Cloud!AdmittedIsCurrent'
  BY <1>1, <1>2 DEF CloudIInv, Cloud!AdmittedIsCurrent
<1>4. ask' \in [Request -> Asked \cup {None, Gone}] /\ AsksHold'
  BY <1>1, OneAsk DEF CloudGiven
<1> QED
  BY <1>1, <1>3, <1>4 DEF CloudIInv, CloudTyped, RowsAreOfEpoch, Cloud!Present

\* Every step of the edition keeps the invariant.
LEMMA CloudStep == ASSUME CloudGiven, CloudIInv, [Cloud!Next]_(Cloud!vars) PROVE CloudIInv'
<1>1. CASE Cloud!Revoke
  <2>1. AsksHold'
    BY <1>1, ReadsStand DEF Cloud!Revoke
  <2> QED
    BY <1>1, <2>1 DEF Cloud!Revoke, CloudIInv, CloudTyped, RowsAreOfEpoch, Cloud!AdmittedIsCurrent,
    Cloud!Present
<1>2. CASE Cloud!Assign \/ Cloud!Unassign
  <2>1. AsksHold'
    BY <1>2, ReadsStand DEF Cloud!Assign, Cloud!Unassign
  <2> QED
    BY <1>2, <2>1 DEF Cloud!Assign, Cloud!Unassign, CloudIInv, CloudTyped, RowsAreOfEpoch,
                      Cloud!AdmittedIsCurrent, Cloud!Present
<1>3. ASSUME NEW r \in Request, Cloud!Exchange(r) PROVE CloudIInv'
  <2> DEFINE a == [step |-> "login", epoch |-> remote, id |-> None]
  <2>1. ask' = [ask EXCEPT ![r] = a] /\ UNCHANGED <<remote, local, cookie, placed, admitted>>
    BY <1>3 DEF Cloud!Exchange
  <2>2. a \in Asked
    BY DEF CloudIInv, CloudTyped, Asked
  <2>3. ask' \in [Request -> Asked \cup {None, Gone}] /\ AsksHold'
    BY <2>1, <2>2, OneAsk
  <2> QED
    BY <2>1, <2>3 DEF CloudIInv, CloudTyped, RowsAreOfEpoch, Cloud!AdmittedIsCurrent, Cloud!Present
<1>4. ASSUME NEW r \in Request, Cloud!Fail(r) PROVE CloudIInv'
  <2>1. ask' = [ask EXCEPT ![r] = Gone] /\ UNCHANGED <<remote, local, cookie, placed, admitted>>
    BY <1>4 DEF Cloud!Fail
  <2>2. ask' \in [Request -> Asked \cup {None, Gone}] /\ AsksHold'
    BY <2>1, OneAsk DEF CloudGiven
  <2> QED
    BY <2>1, <2>2 DEF CloudIInv, CloudTyped, RowsAreOfEpoch, Cloud!AdmittedIsCurrent, Cloud!Present
<1>5. ASSUME NEW s \in Session, Cloud!Logout(s) PROVE CloudIInv'
  <2>1. cookie' = [cookie EXCEPT ![s] = Gone] /\ UNCHANGED <<remote, local, placed, ask, admitted>>
    BY <1>5 DEF Cloud!Logout
  <2>2. cookie \in [Session -> Nat \cup {None, Gone}]
    BY DEF CloudIInv, CloudTyped
  <2>3. \A x \in Session : cookie'[x] \in {cookie[x], Gone}
    BY <2>1, <2>2
  <2>4. AsksHold'
    BY <2>1, <2>3, ReadsStand
  <2>5. CloudTyped'
    BY <2>1, <2>2 DEF CloudIInv, CloudTyped
  <2>6. RowsAreOfEpoch'
    BY <2>1, <2>3 DEF CloudIInv, RowsAreOfEpoch, Cloud!Present
  <2> QED
    BY <2>1, <2>4, <2>5, <2>6 DEF CloudIInv, Cloud!AdmittedIsCurrent
<1>6. CASE UNCHANGED Cloud!vars
  BY <1>6 DEF Cloud!vars, CloudIInv, CloudTyped, RowsAreOfEpoch, AsksHold, Cloud!AdmittedIsCurrent,
              Cloud!Present, Cloud!At
<1> QED
  BY <1>1, <1>2, <1>3, <1>4, <1>5, <1>6, ReconcileStep, LookupStep, IntrospectStep, AdmitStep
     DEF Cloud!Next

\* Who is let in has a session of the epoch that the service has just confirmed.
THEOREM CloudAdmits == ASSUME CloudGiven PROVE Cloud!Spec => []Cloud!AdmittedIsCurrent
<1>1. Cloud!Init => CloudIInv
  BY CloudInit
<1>2. CloudIInv /\ [Cloud!Next]_(Cloud!vars) => CloudIInv'
  BY CloudStep
<1>3. CloudIInv => Cloud!AdmittedIsCurrent
  BY DEF CloudIInv
<1> QED
  BY <1>1, <1>2, <1>3, PTL DEF Cloud!Spec

(***************************************************************************)
(* EventRing.  An item is in one place, and a push moves it from one to    *)
(* the next; of one producer the numbers rise along what was drained and   *)
(* then along the queue.                                                   *)
(***************************************************************************)
Items == Producer \X Nat

RingTyped ==
    /\ queue \in Seq(Items) /\ drained \in Seq(Items) /\ counted \in SUBSET Items
    /\ dropped \in Nat /\ made \in [Producer -> Nat]
    /\ stand \in [Producer -> {"idle", "evict", "retry", "count"}]
    /\ evicted \in [Producer -> SUBSET Items] /\ missing \in [Producer -> SUBSET Items]
    /\ DOMAIN outcome = Producer

\* A push has taken something out only until it tries again, and lost something only
\* until it has counted it.
HandOK(p) ==
    /\ stand[p] # "retry" => evicted[p] = {}
    /\ stand[p] # "count" => missing[p] = {}
    /\ stand[p] = "retry" => Ring!Item(p) \notin evicted[p]
    /\ stand[p] \in {"evict", "retry"} => made[p] > 0
    /\ IsFiniteSet(evicted[p]) /\ IsFiniteSet(missing[p])
HandsOK == IsFiniteSet(counted) /\ \A p \in Producer : HandOK(p)

\* Of one producer the numbers rise along what was drained, and then along the queue.
Rising(s) ==
    \A i, j \in DOMAIN s : i < j /\ s[i][1] = s[j][1] => s[i][2] < s[j][2]
Before(s, t) ==
    \A i \in DOMAIN s, j \in DOMAIN t : s[i][1] = t[j][1] => s[i][2] < t[j][2]
LineRises == Rising(drained) /\ Rising(queue) /\ Before(drained, queue)

\* Every item is in one place: Q and D and C, or the hands H of one producer.
RingPlaces(Q, D, C, H, M) ==
    /\ \A x \in Items : x \in M <=> x \in Q \/ x \in D \/ x \in C \/ \E p \in Producer : x \in H[p]
    /\ \A p, q \in Producer : p # q => H[p] \cap H[q] = {}
    /\ \A p \in Producer : H[p] \cap (Q \cup D \cup C) = {}
    /\ Q \cap (D \cup C) = {} /\ D \cap C = {}
Hands == [p \in Producer |-> Ring!InHand(p)]

InPlaces == RingPlaces(Ring!InQueue, Ring!Drained, counted, Hands, Ring!Made)
RingIInv ==
    RingTyped /\ HandsOK /\ LineRises /\ InPlaces /\ dropped = Cardinality(counted)

-----------------------------------------------------------------------------
\* What is made, and where it may be, are items.
LEMMA RingSets ==
  ASSUME RingTyped
  PROVE  /\ Ring!InQueue \in SUBSET Items /\ Ring!Drained \in SUBSET Items
            /\ counted \in SUBSET Items
         /\ \A x \in Items : x \in Ring!Made <=> x[2] \in 1..made[x[1]]
         /\ Ring!Made \in SUBSET Items
         /\ \A p \in Producer : Ring!InHand(p) \in SUBSET Items /\ Hands[p] = Ring!InHand(p)
<1>1. Ring!InQueue \in SUBSET Items /\ Ring!Drained \in SUBSET Items
  BY DEF RingTyped, Ring!InQueue, Ring!Drained
<1>2. \A p \in Producer : made[p] \in Nat
  BY DEF RingTyped
<1>3. Ring!Made \in SUBSET Items
  BY <1>2 DEF Ring!Made, Items
<1>4. \A x \in Items : x \in Ring!Made <=> x[2] \in 1..made[x[1]]
  BY <1>2 DEF Ring!Made, Items
<1>5. \A p \in Producer : Ring!InHand(p) \in SUBSET Items
  BY <1>2 DEF RingTyped, Ring!InHand, Ring!Item, Items
<1> QED
  BY <1>1, <1>3, <1>4, <1>5 DEF RingTyped, Hands

\* The ring starts empty, and nothing has been made.
LEMMA RingInit == ASSUME Ring!Init PROVE RingIInv
<1>1. RingTyped
  BY DEF Ring!Init, RingTyped, Items
<1>2. IsFiniteSet({}) /\ Cardinality({}) = 0
  BY FS_EmptySet
<1>3. HandsOK
  BY <1>2 DEF Ring!Init, HandsOK, HandOK
<1>4. LineRises
  BY DEF Ring!Init, LineRises, Rising, Before
<1>5. InPlaces
  <2>1. Ring!InQueue = {} /\ Ring!Drained = {} /\ counted = {}
        /\ \A p \in Producer : Ring!InHand(p) = {}
    BY DEF Ring!Init, Ring!InQueue, Ring!Drained, Ring!InHand
  <2>2. \A x \in Items : x \notin Ring!Made
    <3>1. \A x \in Items : made[x[1]] = 0
      BY DEF Ring!Init, Items
    <3> QED
      BY <1>1, <3>1, RingSets
  <2> QED
    BY <2>1, <2>2 DEF InPlaces, RingPlaces, Hands
<1> QED
  BY <1>1, <1>2, <1>3, <1>4, <1>5 DEF RingIInv, Ring!Init

-----------------------------------------------------------------------------
\* A sequence that loses its head, or gains a last item.
LEMMA HeadGoes ==
  ASSUME NEW s \in Seq(Items), s # <<>>
  PROVE  /\ Head(s) \in Items /\ Tail(s) \in Seq(Items) /\ 1 \in DOMAIN s /\ Head(s) = s[1]
         /\ \A i \in DOMAIN Tail(s) : i + 1 \in DOMAIN s /\ Tail(s)[i] = s[i + 1] /\ i \in Nat
         /\ \A j \in DOMAIN s : j = 1 \/ (j - 1 \in DOMAIN Tail(s) /\ s[j] = Tail(s)[j - 1])
         /\ \A j \in DOMAIN s : j \in Nat \ {0} /\ s[j] \in Items
<1>1. /\ Len(s) \in Nat \ {0} /\ DOMAIN s = 1..Len(s)
      /\ Len(Tail(s)) = Len(s) - 1 /\ DOMAIN Tail(s) = 1..(Len(s) - 1)
  OBVIOUS
<1>2. \A i \in 1..(Len(s) - 1) : Tail(s)[i] = s[i + 1]
  OBVIOUS
<1>3. Head(s) = s[1] /\ \A j \in DOMAIN s : s[j] \in Items
  OBVIOUS
<1> QED
  BY <1>1, <1>2, <1>3

\* A sequence with one more item has the old ones where they were.
LEMMA LastComes ==
  ASSUME NEW s \in Seq(Items), NEW x \in Items
  PROVE  /\ Append(s, x) \in Seq(Items)
         /\ \A j \in DOMAIN s : j \in Nat \ {0} /\ j \in DOMAIN Append(s, x)
                                /\ Append(s, x)[j] = s[j] /\ s[j] \in Items
         /\ \A j \in DOMAIN Append(s, x) :
              \/ j \in DOMAIN s
              \/ /\ j = Len(s) + 1 /\ Append(s, x)[j] = x
                 /\ \A i \in DOMAIN s : i < j
         /\ Len(s) + 1 \in DOMAIN Append(s, x) /\ Append(s, x)[Len(s) + 1] = x
  OBVIOUS

\* The items of a rising sequence are different.
LEMMA RisingTail ==
  ASSUME NEW s \in Seq(Items), s # <<>>, Rising(s)
  PROVE  /\ Rising(Tail(s))
         /\ \A i \in DOMAIN Tail(s) : /\ Tail(s)[i] # Head(s)
                                      /\ Head(s)[1] = Tail(s)[i][1] => Head(s)[2] < Tail(s)[i][2]
         /\ {Tail(s)[i] : i \in DOMAIN Tail(s)} = {s[i] : i \in DOMAIN s} \ {Head(s)}
<1>1. PICK t \in Seq(Items) : t = Tail(s)
  BY HeadGoes
<1>2. PICK h \in Items : h = Head(s)
  BY HeadGoes
<1>3. /\ 1 \in DOMAIN s /\ h = s[1]
      /\ \A i \in DOMAIN t : i + 1 \in DOMAIN s /\ t[i] = s[i + 1] /\ i \in Nat
      /\ \A j \in DOMAIN s : j = 1 \/ (j - 1 \in DOMAIN t /\ s[j] = t[j - 1])
      /\ \A j \in DOMAIN s : j \in Nat \ {0} /\ s[j] \in Items
  BY <1>1, <1>2, HeadGoes
<1>4. Rising(t)
  <2> SUFFICES ASSUME NEW i \in DOMAIN t, NEW j \in DOMAIN t, i < j, t[i][1] = t[j][1]
               PROVE  t[i][2] < t[j][2]
    BY DEF Rising
  <2>1. /\ i + 1 \in DOMAIN s /\ j + 1 \in DOMAIN s /\ i + 1 < j + 1
        /\ t[i] = s[i + 1] /\ t[j] = s[j + 1]
    BY <1>3
  <2> QED
    BY <2>1 DEF Rising
<1>5. \A i \in DOMAIN t : h[1] = t[i][1] => h[2] < t[i][2]
  <2> SUFFICES ASSUME NEW i \in DOMAIN t, h[1] = t[i][1] PROVE h[2] < t[i][2]
    OBVIOUS
  <2>1. 1 \in DOMAIN s /\ i + 1 \in DOMAIN s /\ 1 < i + 1 /\ s[i + 1] = t[i]
    BY <1>3
  <2> QED
    BY <1>3, <2>1 DEF Rising
<1>6. \A i \in DOMAIN t : t[i] # h
  <2> SUFFICES ASSUME NEW i \in DOMAIN t, t[i] = h PROVE FALSE
    OBVIOUS
  <2>1. h[2] < h[2] /\ h[2] \in Nat
    BY <1>5 DEF Items
  <2> QED
    BY <2>1
<1>7. {t[i] : i \in DOMAIN t} = {s[i] : i \in DOMAIN s} \ {h}
  <2>1. ASSUME NEW i \in DOMAIN t PROVE t[i] \in {s[j] : j \in DOMAIN s} \ {h}
    BY <1>3, <1>6
  <2>2. ASSUME NEW j \in DOMAIN s, s[j] # h PROVE s[j] \in {t[i] : i \in DOMAIN t}
    BY <1>3, <2>2
  <2> QED
    BY <2>1, <2>2
<1> QED
  BY <1>1, <1>2, <1>4, <1>5, <1>6, <1>7

\* The numbers go on rising when what comes last is above its producer's.
LEMMA RisingAppend ==
  ASSUME NEW s \in Seq(Items), Rising(s), NEW x \in Items,
         \A i \in DOMAIN s : s[i][1] = x[1] => s[i][2] < x[2]
  PROVE  /\ Rising(Append(s, x))
         /\ {Append(s, x)[i] : i \in DOMAIN Append(s, x)} = {s[i] : i \in DOMAIN s} \cup {x}
<1>1. PICK t \in Seq(Items) : t = Append(s, x)
  BY LastComes
<1>2. /\ \A j \in DOMAIN s : j \in Nat \ {0} /\ j \in DOMAIN t /\ t[j] = s[j] /\ s[j] \in Items
      /\ \A j \in DOMAIN t : \/ j \in DOMAIN s
                             \/ j = Len(s) + 1 /\ t[j] = x /\ (\A i \in DOMAIN s : i < j)
      /\ Len(s) + 1 \in DOMAIN t /\ t[Len(s) + 1] = x
  BY <1>1, LastComes
<1>3. Rising(t)
  <2> SUFFICES ASSUME NEW i \in DOMAIN t, NEW j \in DOMAIN t, i < j, t[i][1] = t[j][1]
               PROVE  t[i][2] < t[j][2]
    BY DEF Rising
  <2>1. CASE i \in DOMAIN s /\ j \in DOMAIN s
    BY <1>2, <2>1 DEF Rising
  <2>2. CASE i \in DOMAIN s /\ j \notin DOMAIN s
    BY <1>2, <2>2
  <2>3. CASE i \notin DOMAIN s
    <3>1. i = Len(s) + 1 /\ Len(s) \in Nat
      BY <1>2, <2>3
    <3>2. j \in DOMAIN s => j < i /\ j \in Nat
      BY <1>2, <2>3
    <3> QED
      BY <1>2, <3>1, <3>2
  <2> QED
    BY <2>1, <2>2, <2>3
<1>4. {t[i] : i \in DOMAIN t} = {s[i] : i \in DOMAIN s} \cup {x}
  BY <1>2
<1> QED
  BY <1>1, <1>3, <1>4

\* An item moves from one place to another, or comes in.
LEMMA QueueToDrained ==
  ASSUME NEW Q, NEW D, NEW C, NEW H, NEW M, RingPlaces(Q, D, C, H, M), NEW x \in Q
  PROVE  RingPlaces(Q \ {x}, D \cup {x}, C, H, M)
<1>1. x \notin D \cup C /\ \A p \in Producer : x \notin H[p]
  BY DEF RingPlaces
<1> QED
  BY <1>1 DEF RingPlaces

\* An item that moves is afterwards where it went and nowhere else: out of the queue into
\* a hand,
LEMMA QueueToHand ==
  ASSUME NEW Q, NEW D, NEW C, NEW H, NEW M, RingPlaces(Q, D, C, H, M), NEW x \in Q,
         NEW p \in Producer, NEW G, G[p] = H[p] \cup {x}, \A q \in Producer \ {p} : G[q] = H[q]
  PROVE  RingPlaces(Q \ {x}, D, C, G, M)
<1>1. x \notin D \cup C /\ \A q \in Producer : x \notin H[q]
  BY DEF RingPlaces
<1>2. \A y : (\E q \in Producer : y \in G[q]) <=> y = x \/ \E q \in Producer : y \in H[q]
  OBVIOUS
<1>3. \A q, r \in Producer : q # r => G[q] \cap G[r] = {}
  BY <1>1 DEF RingPlaces
<1>4. \A q \in Producer : G[q] \cap ((Q \ {x}) \cup D \cup C) = {}
  BY <1>1 DEF RingPlaces
<1> QED
  BY <1>1, <1>2, <1>3, <1>4 DEF RingPlaces

\* out of a hand into the queue,
LEMMA HandToQueue ==
  ASSUME NEW Q, NEW D, NEW C, NEW H, NEW M, RingPlaces(Q, D, C, H, M),
         NEW p \in Producer, NEW x \in H[p],
         NEW G, G[p] = H[p] \ {x}, \A q \in Producer \ {p} : G[q] = H[q]
  PROVE  RingPlaces(Q \cup {x}, D, C, G, M)
<1>1. x \notin Q \cup D \cup C /\ \A q \in Producer \ {p} : x \notin H[q]
  BY DEF RingPlaces
<1>2. \A y : (\E q \in Producer : y \in H[q]) <=> y = x \/ \E q \in Producer : y \in G[q]
  OBVIOUS
<1>3. \A q \in Producer : G[q] \subseteq H[q] /\ x \notin G[q]
  BY <1>1
<1>4. \A q, r \in Producer : q # r => G[q] \cap G[r] = {}
  BY <1>3 DEF RingPlaces
<1>5. \A q \in Producer : G[q] \cap (Q \cup {x} \cup D \cup C) = {}
  BY <1>3 DEF RingPlaces
<1> QED
  BY <1>1, <1>2, <1>4, <1>5 DEF RingPlaces

\* out of a hand into the count of the dropped,
LEMMA HandToCount ==
  ASSUME NEW Q, NEW D, NEW C, NEW H, NEW M, RingPlaces(Q, D, C, H, M),
         NEW p \in Producer, NEW G, G[p] = {}, \A q \in Producer \ {p} : G[q] = H[q]
  PROVE  RingPlaces(Q, D, C \cup H[p], G, M)
<1>1. \A y : (\E q \in Producer : y \in H[q]) <=> y \in H[p] \/ \E q \in Producer : y \in G[q]
  OBVIOUS
<1>2. \A q, r \in Producer : q # r => G[q] \cap G[r] = {}
  BY DEF RingPlaces
<1>3. \A q \in Producer : G[q] \cap (Q \cup D \cup (C \cup H[p])) = {}
  BY DEF RingPlaces
<1>4. H[p] \cap (Q \cup D) = {}
  BY DEF RingPlaces
<1> QED
  BY <1>1, <1>2, <1>3, <1>4 DEF RingPlaces

\* made and in the queue,
LEMMA NewToQueue ==
  ASSUME NEW Q, NEW D, NEW C, NEW H, NEW M, RingPlaces(Q, D, C, H, M), NEW x \in Items \ M
  PROVE  RingPlaces(Q \cup {x}, D, C, H, M \cup {x})
<1>1. x \notin Q \cup D \cup C /\ \A q \in Producer : x \notin H[q]
  BY DEF RingPlaces
<1> QED
  BY <1>1 DEF RingPlaces

\* or made and in a hand.
LEMMA NewToHand ==
  ASSUME NEW Q, NEW D, NEW C, NEW H, NEW M, RingPlaces(Q, D, C, H, M), NEW x \in Items \ M,
         NEW p \in Producer, NEW G, G[p] = H[p] \cup {x}, \A q \in Producer \ {p} : G[q] = H[q]
  PROVE  RingPlaces(Q, D, C, G, M \cup {x})
<1>1. x \notin Q \cup D \cup C /\ \A q \in Producer : x \notin H[q]
  BY DEF RingPlaces
<1>2. \A y : (\E q \in Producer : y \in G[q]) <=> y = x \/ \E q \in Producer : y \in H[q]
  OBVIOUS
<1>3. \A q, r \in Producer : q # r => G[q] \cap G[r] = {}
  BY <1>1 DEF RingPlaces
<1>4. \A q \in Producer : G[q] \cap (Q \cup D \cup C) = {}
  BY <1>1 DEF RingPlaces
<1> QED
  BY <1>1, <1>2, <1>3, <1>4 DEF RingPlaces

\* Hands that hold the same items are as good.
LEMMA SamePlaces ==
  ASSUME NEW Q, NEW D, NEW C, NEW H, NEW M, RingPlaces(Q, D, C, H, M),
         NEW G, \A q \in Producer : G[q] = H[q]
  PROVE  RingPlaces(Q, D, C, G, M)
<1>1. \A y : (\E q \in Producer : y \in H[q]) <=> \E q \in Producer : y \in G[q]
  OBVIOUS
<1> QED
  BY <1>1 DEF RingPlaces

-----------------------------------------------------------------------------
\* The drain takes the head of the queue.
LEMMA PopStep == ASSUME RingIInv, Ring!Pop PROVE RingIInv'
<1>1. /\ queue # <<>> /\ drained' = Append(drained, Head(queue)) /\ queue' = Tail(queue)
      /\ UNCHANGED <<dropped, stand, made, evicted, missing, outcome, counted>>
  BY DEF Ring!Pop
<1>2. queue \in Seq(Items) /\ drained \in Seq(Items)
  BY DEF RingIInv, RingTyped
<1>3. PICK h \in Items : h = Head(queue)
  BY <1>1, <1>2, HeadGoes
<1>4. queue' \in Seq(Items) /\ drained' \in Seq(Items)
  BY <1>1, <1>2, <1>3, HeadGoes, LastComes
<1>5. Rising(queue) /\ Rising(drained) /\ Before(drained, queue)
  BY DEF RingIInv, LineRises
<1>6. 1 \in DOMAIN queue /\ h = queue[1]
  BY <1>1, <1>2, <1>3, HeadGoes
<1>7. \A i \in DOMAIN drained : drained[i][1] = h[1] => drained[i][2] < h[2]
  BY <1>5, <1>6 DEF Before
<1>8. /\ Rising(queue') /\ Ring!InQueue' = Ring!InQueue \ {h}
      /\ \A i \in DOMAIN queue' : h[1] = queue'[i][1] => h[2] < queue'[i][2]
  BY <1>1, <1>2, <1>3, <1>5, RisingTail DEF Ring!InQueue
<1>9. Rising(drained') /\ Ring!Drained' = Ring!Drained \cup {h}
  <2>1. drained' = Append(drained, h)
    BY <1>1, <1>3
  <2>2. /\ Rising(Append(drained, h))
        /\ {Append(drained, h)[i] : i \in DOMAIN Append(drained, h)}
             = {drained[i] : i \in DOMAIN drained} \cup {h}
    BY <1>2, <1>5, <1>7, RisingAppend
  <2>3. Ring!Drained' = {Append(drained, h)[i] : i \in DOMAIN Append(drained, h)}
    BY <2>1 DEF Ring!Drained
  <2> QED
    BY <2>1, <2>2, <2>3 DEF Ring!Drained
<1>10. Before(drained', queue')
  <2> SUFFICES ASSUME NEW i \in DOMAIN drained', NEW j \in DOMAIN queue',
                      drained'[i][1] = queue'[j][1]
               PROVE  drained'[i][2] < queue'[j][2]
    BY DEF Before
  <2>1. j + 1 \in DOMAIN queue /\ queue'[j] = queue[j + 1]
    BY <1>1, <1>2, HeadGoes
  <2>2. (i \in DOMAIN drained /\ drained'[i] = drained[i]) \/ drained'[i] = h
    BY <1>1, <1>2, <1>3, LastComes
  <2> QED
    BY <1>5, <1>8, <2>1, <2>2 DEF Before
<1>11. RingTyped' /\ HandsOK'
  BY <1>1, <1>4 DEF RingIInv, RingTyped, HandsOK, HandOK, Ring!Item
<1>12. InPlaces'
  <2>1. h \in Ring!InQueue
    BY <1>6 DEF Ring!InQueue
  <2>2. RingPlaces(Ring!InQueue \ {h}, Ring!Drained \cup {h}, counted, Hands, Ring!Made)
    BY <2>1, QueueToDrained DEF RingIInv, InPlaces
  <2>3. Hands' = Hands /\ Ring!Made' = Ring!Made
    BY <1>1 DEF Hands, Ring!InHand, Ring!Item, Ring!Made
  <2> QED
    BY <1>1, <1>8, <1>9, <2>2, <2>3 DEF InPlaces
<1> QED
  BY <1>1, <1>8, <1>9, <1>10, <1>11, <1>12 DEF RingIInv, LineRises

\* The numbers of a producer's items in the line are numbers that it has given.
LEMMA LineIsMade ==
  ASSUME RingIInv
  PROVE  /\ \A i \in DOMAIN queue : queue[i] \in Items /\ queue[i] \in Ring!InQueue
                                    /\ queue[i][2] \in 1..made[queue[i][1]]
         /\ \A i \in DOMAIN drained : drained[i] \in Items /\ drained[i] \in Ring!Drained
                                      /\ drained[i][2] \in 1..made[drained[i][1]]
<1>1. RingTyped /\ InPlaces
  BY DEF RingIInv
<1>2. /\ \A i \in DOMAIN queue : queue[i] \in Items /\ queue[i] \in Ring!InQueue
      /\ \A i \in DOMAIN drained : drained[i] \in Items /\ drained[i] \in Ring!Drained
  BY <1>1 DEF RingTyped, Ring!InQueue, Ring!Drained
<1>3. \A x \in Items : x \in Ring!InQueue \/ x \in Ring!Drained => x \in Ring!Made
  BY <1>1 DEF InPlaces, RingPlaces
<1> QED
  BY <1>1, <1>2, <1>3, RingSets

\* An item that none of its producer's in the line reaches goes to the end of the queue.
LEMMA LineGrows ==
  ASSUME RingIInv, NEW x \in Items, queue' = Append(queue, x), UNCHANGED drained,
         \A i \in DOMAIN queue : queue[i][1] = x[1] => queue[i][2] < x[2],
         \A i \in DOMAIN drained : drained[i][1] = x[1] => drained[i][2] < x[2]
  PROVE  LineRises' /\ Ring!InQueue' = Ring!InQueue \cup {x} /\ queue' \in Seq(Items)
<1>1. queue \in Seq(Items) /\ drained \in Seq(Items)
  BY DEF RingIInv, RingTyped
<1>2. Rising(queue) /\ Rising(drained) /\ Before(drained, queue)
  BY DEF RingIInv, LineRises
<1>3. Rising(queue') /\ Ring!InQueue' = Ring!InQueue \cup {x}
  <2>1. /\ Rising(Append(queue, x))
        /\ {Append(queue, x)[i] : i \in DOMAIN Append(queue, x)}
             = {queue[i] : i \in DOMAIN queue} \cup {x}
    BY <1>1, <1>2, RisingAppend
  <2>2. Ring!InQueue' = {Append(queue, x)[i] : i \in DOMAIN Append(queue, x)}
    BY DEF Ring!InQueue
  <2> QED
    BY <2>1, <2>2 DEF Ring!InQueue
<1>4. Before(drained', queue')
  <2> SUFFICES ASSUME NEW i \in DOMAIN drained, NEW j \in DOMAIN queue',
                      drained[i][1] = queue'[j][1]
               PROVE  drained[i][2] < queue'[j][2]
    BY DEF Before
  <2>1. (j \in DOMAIN queue /\ queue'[j] = queue[j]) \/ queue'[j] = x
    BY <1>1, LastComes
  <2> QED
    BY <1>2, <2>1 DEF Before
<1>5. queue' \in Seq(Items)
  BY <1>1, LastComes
<1> QED
  BY <1>2, <1>3, <1>4, <1>5 DEF LineRises

\* A producer's next number is a new item.
LEMMA MadeGrows ==
  ASSUME RingIInv, NEW p \in Producer, made' = [made EXCEPT ![p] = @ + 1]
  PROVE  /\ <<p, made[p] + 1>> \in Items \ Ring!Made
            /\ Ring!Made' = Ring!Made \cup {<<p, made[p] + 1>>}
         /\ made'[p] = made[p] + 1 /\ made[p] \in Nat
         /\ \A q \in Producer \ {p} : made'[q] = made[q]
<1>1. made \in [Producer -> Nat] /\ RingTyped
  BY DEF RingIInv, RingTyped
<1>2. made'[p] = made[p] + 1 /\ made[p] \in Nat /\ \A q \in Producer \ {p} : made'[q] = made[q]
  BY <1>1
<1>3. <<p, made[p] + 1>> \in Items
  BY <1>2 DEF Items
<1>4. <<p, made[p] + 1>> \notin Ring!Made
  BY <1>1, <1>2, <1>3, RingSets
<1>5. \A q \in Producer \ {p} : {q} \X (1..made'[q]) = {q} \X (1..made[q])
  BY <1>2
<1>6. {p} \X (1..made'[p]) = ({p} \X (1..made[p])) \cup {<<p, made[p] + 1>>}
  <2>1. 1..made'[p] = (1..made[p]) \cup {made[p] + 1}
    BY <1>2
  <2> QED
    BY <2>1
<1>7. Ring!Made' = Ring!Made \cup {<<p, made[p] + 1>>}
  BY <1>5, <1>6 DEF Ring!Made
<1> QED
  BY <1>2, <1>3, <1>4, <1>7

\* A producer makes an item, and has it queued or in its hand.
LEMMA PushStep == ASSUME RingIInv, NEW p \in Producer, Ring!Push(p) PROVE RingIInv'
<1>1. PICK x : x = <<p, made[p] + 1>>
  OBVIOUS
<1>2. /\ stand[p] = "idle" /\ made' = [made EXCEPT ![p] = @ + 1]
      /\ UNCHANGED <<dropped, evicted, missing, drained, counted>>
  BY DEF Ring!Push
<1>3. /\ x \in Items \ Ring!Made /\ Ring!Made' = Ring!Made \cup {x} /\ made'[p] = made[p] + 1
      /\ made[p] \in Nat /\ \A q \in Producer \ {p} : made'[q] = made[q]
  BY <1>1, <1>2, MadeGrows
<1>4. RingTyped /\ HandsOK /\ InPlaces
  BY DEF RingIInv
<1>5. evicted[p] = {} /\ missing[p] = {} /\ Ring!InHand(p) = {}
  BY <1>2, <1>4 DEF HandsOK, HandOK, Ring!InHand
<1>6. made' \in [Producer -> Nat]
  BY <1>2, <1>3, <1>4 DEF RingTyped
<1>7. CASE Ring!Full
  <2>1. stand' = [stand EXCEPT ![p] = "evict"] /\ UNCHANGED <<queue, outcome>>
    BY <1>7 DEF Ring!Push
  <2>2. stand'[p] = "evict" /\ \A q \in Producer \ {p} : stand'[q] = stand[q]
    BY <1>4, <2>1 DEF RingTyped
  <2>3. RingTyped'
    BY <1>2, <1>4, <1>6, <2>1 DEF RingTyped
  <2>4. HandsOK'
    <3>1. made'[p] > 0
      BY <1>3
    <3> SUFFICES ASSUME NEW q \in Producer PROVE HandOK(q)'
      BY <1>2, <1>4 DEF HandsOK
    <3>2. CASE q = p
      BY <1>2, <1>4, <1>5, <2>2, <3>1, <3>2 DEF HandsOK, HandOK
    <3>3. CASE q # p
      BY <1>2, <1>3, <1>4, <2>2, <3>3 DEF HandsOK, HandOK, Ring!Item
    <3> QED
      BY <3>2, <3>3
  <2>5. LineRises'
    BY <1>2, <2>1 DEF RingIInv, LineRises
  <2>6. InPlaces'
    <3>1. Ring!InHand(p)' = {x}
      BY <1>1, <1>2, <1>3, <1>5, <2>2 DEF Ring!InHand, Ring!Item
    <3>2. \A q \in Producer \ {p} : Ring!InHand(q)' = Ring!InHand(q)
      BY <1>2, <1>3, <2>2 DEF Ring!InHand, Ring!Item
    <3>3. PICK G : G = Hands'
      OBVIOUS
    <3>4. G[p] = Hands[p] \cup {x} /\ \A q \in Producer \ {p} : G[q] = Hands[q]
      BY <1>5, <3>1, <3>2, <3>3 DEF Hands
    <3>5. RingPlaces(Ring!InQueue, Ring!Drained, counted, G, Ring!Made \cup {x})
      BY <1>3, <1>4, <3>4, NewToHand DEF InPlaces
    <3>6. Ring!InQueue' = Ring!InQueue /\ Ring!Drained' = Ring!Drained
      BY <1>2, <2>1 DEF Ring!InQueue, Ring!Drained
    <3> QED
      BY <1>2, <1>3, <3>3, <3>5, <3>6 DEF InPlaces
  <2> QED
    BY <1>2, <2>3, <2>4, <2>5, <2>6 DEF RingIInv
<1>8. CASE ~Ring!Full
  <2>1. /\ queue' = Append(queue, x) /\ outcome' = [outcome EXCEPT ![p] = "inserted"]
        /\ UNCHANGED stand
    BY <1>1, <1>8 DEF Ring!Push
  <2>2. /\ \A i \in DOMAIN queue : queue[i][1] = x[1] => queue[i][2] < x[2]
        /\ \A i \in DOMAIN drained : drained[i][1] = x[1] => drained[i][2] < x[2]
    BY <1>1, <1>3, LineIsMade
  <2>3. LineRises' /\ Ring!InQueue' = Ring!InQueue \cup {x} /\ queue' \in Seq(Items)
    BY <1>2, <1>3, <2>1, <2>2, LineGrows
  <2>4. RingTyped'
    BY <1>2, <1>4, <1>6, <2>1, <2>3 DEF RingTyped
  <2>5. HandsOK'
    BY <1>2, <1>3, <1>4, <1>5, <2>1 DEF HandsOK, HandOK, Ring!Item
  <2>6. InPlaces'
    <3>1. \A q \in Producer : Ring!InHand(q)' = Ring!InHand(q)
      BY <1>2, <1>3, <1>5, <2>1 DEF Ring!InHand, Ring!Item
    <3>2. Hands' = Hands
      BY <3>1 DEF Hands
    <3>3. RingPlaces(Ring!InQueue \cup {x}, Ring!Drained, counted, Hands, Ring!Made \cup {x})
      BY <1>3, <1>4, NewToQueue DEF InPlaces
    <3>4. Ring!Drained' = Ring!Drained
      BY <1>2 DEF Ring!Drained
    <3> QED
      BY <1>2, <1>3, <2>3, <3>2, <3>3, <3>4 DEF InPlaces
  <2> QED
    BY <1>2, <2>3, <2>4, <2>5, <2>6 DEF RingIInv
<1> QED
  BY <1>7, <1>8

\* What a push holds is not in the line, nor lost.
LEMMA HeldIsElsewhere ==
  ASSUME RingIInv, NEW p \in Producer, stand[p] \in {"evict", "retry"}
  PROVE  Ring!Item(p) \in Ring!InHand(p) /\ Ring!Item(p) \in Items
         /\ Ring!Item(p) \notin Ring!InQueue \cup Ring!Drained
<1>1. Ring!Item(p) \in Ring!InHand(p)
  BY DEF Ring!InHand
<1>2. Ring!InHand(p) \cap (Ring!InQueue \cup Ring!Drained \cup counted) = {}
  BY DEF RingIInv, InPlaces, RingPlaces, Hands
<1>3. Ring!Item(p) \in Items
  BY DEF RingIInv, RingTyped, Ring!Item, Items
<1> QED
  BY <1>1, <1>2, <1>3

\* A producer takes the oldest item out to make room.
LEMMA EvictStep == ASSUME RingIInv, NEW p \in Producer, Ring!Evict(p) PROVE RingIInv'
<1>1. /\ stand[p] = "evict" /\ stand' = [stand EXCEPT ![p] = "retry"]
      /\ UNCHANGED <<dropped, made, missing, outcome, drained, counted>>
  BY DEF Ring!Evict
<1>2. RingTyped /\ HandsOK /\ InPlaces /\ LineRises
  BY DEF RingIInv
<1>3. stand'[p] = "retry" /\ \A q \in Producer \ {p} : stand'[q] = stand[q]
  BY <1>1, <1>2 DEF RingTyped
<1>4. evicted[p] = {} /\ missing[p] = {}
  BY <1>1, <1>2 DEF HandsOK, HandOK
<1>5. CASE queue = <<>>
  <2>1. UNCHANGED <<queue, evicted>>
    BY <1>5 DEF Ring!Evict
  <2>2. RingTyped' /\ LineRises'
    BY <1>1, <1>2, <2>1 DEF RingTyped, LineRises
  <2>3. HandsOK'
    BY <1>1, <1>2, <1>3, <1>4, <2>1 DEF HandsOK, HandOK, Ring!Item
  <2>4. InPlaces'
    <3>1. \A q \in Producer : Ring!InHand(q)' = Ring!InHand(q)
      BY <1>1, <1>3, <2>1 DEF Ring!InHand, Ring!Item
    <3>2. Hands' = Hands /\ Ring!InQueue' = Ring!InQueue /\ Ring!Drained' = Ring!Drained
          /\ Ring!Made' = Ring!Made
      BY <1>1, <2>1, <3>1 DEF Hands, Ring!InQueue, Ring!Drained, Ring!Made
    <3> QED
      BY <1>1, <1>2, <3>2 DEF InPlaces
  <2> QED
    BY <1>1, <2>2, <2>3, <2>4 DEF RingIInv
<1>6. CASE queue # <<>>
  <2>1. queue \in Seq(Items)
    BY <1>2 DEF RingTyped
  <2>2. PICK h \in Items : h = Head(queue)
    BY <1>6, <2>1, HeadGoes
  <2>3. evicted' = [evicted EXCEPT ![p] = {h}] /\ queue' = Tail(queue)
    BY <1>6, <2>2 DEF Ring!Evict
  <2>4. evicted'[p] = {h} /\ \A q \in Producer \ {p} : evicted'[q] = evicted[q]
    BY <1>2, <2>3 DEF RingTyped
  <2>5. 1 \in DOMAIN queue /\ h = queue[1] /\ queue' \in Seq(Items)
    BY <1>6, <2>1, <2>2, <2>3, HeadGoes
  <2>6. h \in Ring!InQueue
    BY <2>5 DEF Ring!InQueue
  <2>7. Rising(queue') /\ Ring!InQueue' = Ring!InQueue \ {h}
    BY <1>2, <1>6, <2>1, <2>2, <2>3, RisingTail DEF LineRises, Ring!InQueue
  <2>8. Before(drained', queue')
    <3>1. \A j \in DOMAIN queue' : j + 1 \in DOMAIN queue /\ queue'[j] = queue[j + 1]
      BY <1>6, <2>1, <2>3, HeadGoes
    <3> QED
      BY <1>1, <1>2, <3>1 DEF LineRises, Before
  <2>9. Ring!Item(p) # h
    BY <1>1, <2>6, HeldIsElsewhere
  <2>10. RingTyped'
    BY <1>1, <1>2, <2>2, <2>3, <2>5 DEF RingTyped
  <2>11. HandsOK'
    <3>1. IsFiniteSet({h})
      BY FS_Singleton
    <3> QED
      BY <1>1, <1>2, <1>3, <1>4, <2>4, <2>9, <3>1 DEF HandsOK, HandOK, Ring!Item
  <2>12. InPlaces'
    <3>1. Ring!InHand(p)' = Ring!InHand(p) \cup {h}
      BY <1>1, <1>3, <1>4, <2>4 DEF Ring!InHand, Ring!Item
    <3>2. \A q \in Producer \ {p} : Ring!InHand(q)' = Ring!InHand(q)
      BY <1>1, <1>3, <2>4 DEF Ring!InHand, Ring!Item
    <3>3. PICK G : G = Hands'
      OBVIOUS
    <3>4. G[p] = Hands[p] \cup {h} /\ \A q \in Producer \ {p} : G[q] = Hands[q]
      BY <3>1, <3>2, <3>3 DEF Hands
    <3>5. RingPlaces(Ring!InQueue \ {h}, Ring!Drained, counted, G, Ring!Made)
      BY <1>2, <2>6, <3>4, QueueToHand DEF InPlaces
    <3>6. Ring!Drained' = Ring!Drained /\ Ring!Made' = Ring!Made
      BY <1>1 DEF Ring!Drained, Ring!Made
    <3> QED
      BY <1>1, <2>7, <3>3, <3>5, <3>6 DEF InPlaces
  <2> QED
    BY <1>1, <1>2, <2>7, <2>8, <2>10, <2>11, <2>12 DEF RingIInv, LineRises
<1> QED
  BY <1>5, <1>6

\* It tries once more, and what finds no room is to be counted.
LEMMA RetryStep == ASSUME RingIInv, NEW p \in Producer, Ring!Retry(p) PROVE RingIInv'
<1>1. PICK x : x = Ring!Item(p)
  OBVIOUS
<1>2. PICK L : L = Ring!Losses(p, ~Ring!Full)
  OBVIOUS
<1>3. /\ stand[p] = "retry" /\ queue' = (IF Ring!Full THEN queue ELSE Append(queue, x))
      /\ missing' = [missing EXCEPT ![p] = L] /\ evicted' = [evicted EXCEPT ![p] = {}]
      /\ stand' = [stand EXCEPT ![p] = "count"] /\ UNCHANGED <<dropped, made, drained, counted>>
      /\ DOMAIN outcome' = DOMAIN outcome
  BY <1>1, <1>2 DEF Ring!Retry
<1>4. RingTyped /\ HandsOK /\ InPlaces /\ LineRises
  BY DEF RingIInv
<1>5. x \in Ring!InHand(p) /\ x \in Items /\ x \notin Ring!InQueue \cup Ring!Drained
  BY <1>1, <1>3, HeldIsElsewhere
<1>6. /\ stand'[p] = "count" /\ evicted'[p] = {} /\ missing'[p] = L
      /\ \A q \in Producer \ {p} :
           stand'[q] = stand[q] /\ evicted'[q] = evicted[q] /\ missing'[q] = missing[q]
  BY <1>3, <1>4 DEF RingTyped
<1>7. /\ missing[p] = {} /\ x \notin evicted[p] /\ IsFiniteSet(evicted[p])
      /\ evicted[p] \in SUBSET Items
  BY <1>1, <1>3, <1>4 DEF HandsOK, HandOK, RingTyped
<1>8. L = (IF Ring!Full THEN evicted[p] \cup {x} ELSE evicted[p])
  BY <1>1, <1>2 DEF Ring!Losses
<1>9. L \in SUBSET Items /\ IsFiniteSet(L)
  <2>1. IsFiniteSet(evicted[p] \cup {x})
    BY <1>7, FS_AddElement
  <2> QED
    BY <1>5, <1>7, <1>8, <2>1
<1>10. HandsOK'
  <2>1. IsFiniteSet({})
    BY FS_EmptySet
  <2> QED
    BY <1>3, <1>4, <1>6, <1>9, <2>1 DEF HandsOK, HandOK, Ring!Item
<1>11. Ring!InHand(p) = evicted[p] \cup {x} /\ Ring!InHand(p)' = L
  BY <1>1, <1>3, <1>6, <1>7 DEF Ring!InHand
<1>12. \A q \in Producer \ {p} : Ring!InHand(q)' = Ring!InHand(q)
  BY <1>3, <1>6 DEF Ring!InHand, Ring!Item
<1>13. PICK G : G = Hands'
  OBVIOUS
<1>14. /\ G[p] = L /\ Hands[p] = evicted[p] \cup {x}
       /\ \A q \in Producer \ {p} : G[q] = Hands[q]
  BY <1>11, <1>12, <1>13 DEF Hands
<1>15. Ring!Drained' = Ring!Drained /\ Ring!Made' = Ring!Made
  BY <1>3 DEF Ring!Drained, Ring!Made
<1>16. CASE Ring!Full
  <2>1. queue' = queue /\ Ring!InQueue' = Ring!InQueue
    BY <1>3, <1>16 DEF Ring!InQueue
  <2>2. RingTyped' /\ LineRises'
    BY <1>3, <1>4, <1>9, <2>1 DEF RingTyped, LineRises
  <2>3. \A q \in Producer : G[q] = Hands[q]
    BY <1>8, <1>14, <1>16
  <2>4. RingPlaces(Ring!InQueue, Ring!Drained, counted, G, Ring!Made)
    BY <1>4, <2>3, SamePlaces DEF InPlaces
  <2>5. InPlaces'
    BY <1>3, <1>13, <1>15, <2>1, <2>4 DEF InPlaces
  <2> QED
    BY <1>3, <1>10, <2>2, <2>5 DEF RingIInv
<1>17. CASE ~Ring!Full
  <2>1. queue' = Append(queue, x) /\ UNCHANGED drained
    BY <1>3, <1>17
  <2>2. x = <<p, made[p]>> /\ made[p] \in Nat
    BY <1>1, <1>4 DEF Ring!Item, RingTyped
  <2>3. \A y \in Items : y[1] = p /\ y[2] = made[p] => y = x
    BY <2>2 DEF Items
  <2>4. \A i \in DOMAIN queue : queue[i][1] = x[1] => queue[i][2] < x[2]
    <3> SUFFICES ASSUME NEW i \in DOMAIN queue, queue[i][1] = x[1] PROVE queue[i][2] < x[2]
      OBVIOUS
    <3>1. queue[i] \in Items /\ queue[i] \in Ring!InQueue /\ queue[i][2] \in 1..made[queue[i][1]]
      BY LineIsMade
    <3>2. queue[i][2] # made[p]
      BY <1>5, <2>2, <2>3, <3>1
    <3> QED
      BY <2>2, <3>1, <3>2
  <2>5. \A i \in DOMAIN drained : drained[i][1] = x[1] => drained[i][2] < x[2]
    <3> SUFFICES ASSUME NEW i \in DOMAIN drained, drained[i][1] = x[1] PROVE drained[i][2] < x[2]
      OBVIOUS
    <3>1. drained[i] \in Items /\ drained[i] \in Ring!Drained
          /\ drained[i][2] \in 1..made[drained[i][1]]
      BY LineIsMade
    <3>2. drained[i][2] # made[p]
      BY <1>5, <2>2, <2>3, <3>1
    <3> QED
      BY <2>2, <3>1, <3>2
  <2>6. LineRises' /\ Ring!InQueue' = Ring!InQueue \cup {x} /\ queue' \in Seq(Items)
    BY <1>5, <2>1, <2>4, <2>5, LineGrows
  <2>7. RingTyped'
    BY <1>3, <1>4, <1>9, <2>6 DEF RingTyped
  <2>8. G[p] = Hands[p] \ {x} /\ x \in Hands[p]
    BY <1>7, <1>8, <1>14, <1>17
  <2>9. RingPlaces(Ring!InQueue \cup {x}, Ring!Drained, counted, G, Ring!Made)
    BY <1>4, <1>14, <2>8, HandToQueue DEF InPlaces
  <2>10. InPlaces'
    BY <1>3, <1>13, <1>15, <2>6, <2>9 DEF InPlaces
  <2> QED
    BY <1>3, <1>10, <2>6, <2>7, <2>10 DEF RingIInv
<1> QED
  BY <1>16, <1>17

\* The counter grows by what this push lost, none of which was counted before.
LEMMA CountStep == ASSUME RingIInv, NEW p \in Producer, Ring!Count(p) PROVE RingIInv'
<1>1. /\ stand[p] = "count" /\ stand' = [stand EXCEPT ![p] = "idle"]
      /\ dropped' = dropped + Cardinality(missing[p]) /\ counted' = counted \cup missing[p]
      /\ missing' = [missing EXCEPT ![p] = {}]
      /\ UNCHANGED <<queue, made, evicted, outcome, drained>>
  BY RingCounts DEF Ring!Count
<1>2. /\ RingTyped /\ HandsOK /\ InPlaces /\ LineRises /\ dropped = Cardinality(counted)
  BY DEF RingIInv
<1>3. /\ stand'[p] = "idle" /\ missing'[p] = {}
      /\ \A q \in Producer \ {p} : stand'[q] = stand[q] /\ missing'[q] = missing[q]
  BY <1>1, <1>2 DEF RingTyped
<1>4. /\ evicted[p] = {} /\ IsFiniteSet(missing[p]) /\ IsFiniteSet(counted) /\ IsFiniteSet({})
      /\ missing[p] \in SUBSET Items /\ Cardinality({}) = 0
  BY <1>1, <1>2, FS_EmptySet DEF HandsOK, HandOK, RingTyped
<1>5. Ring!InHand(p) = missing[p] /\ Ring!InHand(p)' = {}
  BY <1>1, <1>3, <1>4 DEF Ring!InHand
<1>6. \A q \in Producer \ {p} : Ring!InHand(q)' = Ring!InHand(q)
  BY <1>1, <1>3 DEF Ring!InHand, Ring!Item
<1>7. missing[p] \cap counted = {}
  BY <1>2, <1>5 DEF InPlaces, RingPlaces, Hands
<1>8. /\ IsFiniteSet(counted \cup missing[p])
      /\ Cardinality(counted \cup missing[p]) = Cardinality(counted) + Cardinality(missing[p])
      /\ Cardinality(counted) \in Nat /\ Cardinality(missing[p]) \in Nat
  <2>1. Cardinality(counted) \in Nat /\ Cardinality(missing[p]) \in Nat
    BY <1>4, FS_CardinalityType
  <2>2. /\ IsFiniteSet(counted \cup missing[p])
        /\ Cardinality(counted \cup missing[p]) =
             Cardinality(counted) + Cardinality(missing[p]) - Cardinality(counted \cap missing[p])
    BY <1>4, FS_Union
  <2>3. counted \cap missing[p] = {}
    BY <1>7
  <2>4. Cardinality(counted \cap missing[p]) = 0
    BY <1>4, <2>3
  <2>5. PICK a, b : a = Cardinality(counted) /\ b = Cardinality(missing[p])
    OBVIOUS
  <2>6. a \in Nat /\ b \in Nat /\ a + b - 0 = a + b
    BY <2>1, <2>5
  <2> QED
    BY <2>2, <2>4, <2>5, <2>6
<1>9. RingTyped'
  BY <1>1, <1>2, <1>4, <1>8 DEF RingTyped
<1>10. HandsOK'
  BY <1>1, <1>2, <1>3, <1>4, <1>8 DEF HandsOK, HandOK, Ring!Item
<1>11. InPlaces'
  <2>1. PICK G : G = Hands'
    OBVIOUS
  <2>2. /\ G[p] = {} /\ Hands[p] = missing[p] /\ \A q \in Producer \ {p} : G[q] = Hands[q]
    BY <1>5, <1>6, <2>1 DEF Hands
  <2>3. RingPlaces(Ring!InQueue, Ring!Drained, counted \cup missing[p], G, Ring!Made)
    BY <1>2, <2>2, HandToCount DEF InPlaces
  <2>4. Ring!InQueue' = Ring!InQueue /\ Ring!Drained' = Ring!Drained /\ Ring!Made' = Ring!Made
    BY <1>1 DEF Ring!InQueue, Ring!Drained, Ring!Made
  <2> QED
    BY <1>1, <2>1, <2>3, <2>4 DEF InPlaces
<1>12. LineRises'
  BY <1>1, <1>2 DEF LineRises
<1> QED
  BY <1>1, <1>2, <1>8, <1>9, <1>10, <1>11, <1>12 DEF RingIInv

\* Every step of the ring keeps the invariant.
LEMMA RingStep == ASSUME RingIInv, [Ring!Next]_(Ring!vars) PROVE RingIInv'
<1>1. CASE UNCHANGED Ring!vars
  <2>1. \A p \in Producer : Ring!InHand(p)' = Ring!InHand(p)
    BY <1>1 DEF Ring!vars, Ring!InHand, Ring!Item
  <2>2. Hands' = Hands
    BY <2>1 DEF Hands
  <2>3. Ring!InQueue' = Ring!InQueue /\ Ring!Drained' = Ring!Drained /\ Ring!Made' = Ring!Made
    BY <1>1 DEF Ring!vars, Ring!InQueue, Ring!Drained, Ring!Made
  <2>4. InPlaces'
    BY <1>1, <2>2, <2>3 DEF Ring!vars, RingIInv, InPlaces
  <2> QED
    BY <1>1, <2>4 DEF Ring!vars, RingIInv, RingTyped, HandsOK, HandOK, LineRises, Ring!Item
<1> QED
  BY <1>1, PopStep, PushStep, EvictStep, RetryStep, CountStep DEF Ring!Next

\* The line is what was drained and then the queue, and so are the positions in it.
LEMMA RingShows == ASSUME RingIInv PROVE Ring!NothingUncounted /\ Ring!InOrder
<1>1. Ring!InOrder
  <2>8. drained \in Seq(Items) /\ queue \in Seq(Items)
    BY DEF RingIInv, RingTyped
  <2>9. drained \o queue \in Seq(Items)
    BY <2>8
  <2>1. PICK line \in Seq(Items) : line = drained \o queue
    BY <2>9
  <2>2. queue \in Seq(Items) /\ drained \in Seq(Items) /\ LineRises
    BY DEF RingIInv, RingTyped
  <2>3. \A i \in DOMAIN line :
          /\ i \in Nat
          /\ \/ i \in DOMAIN drained /\ line[i] = drained[i]
             \/ /\ i - Len(drained) \in DOMAIN queue /\ line[i] = queue[i - Len(drained)]
                /\ \A j \in DOMAIN drained : j < i
    BY <2>1, <2>2
  <2> SUFFICES ASSUME NEW i \in DOMAIN line, NEW j \in DOMAIN line, i < j,
                      line[i][1] = line[j][1]
               PROVE  line[i][2] < line[j][2]
    BY <2>1 DEF Ring!InOrder
  <2>4. CASE i \in DOMAIN drained /\ line[i] = drained[i]
    <3>1. CASE j \in DOMAIN drained /\ line[j] = drained[j]
      BY <2>2, <2>4, <3>1 DEF LineRises, Rising
    <3>2. CASE j - Len(drained) \in DOMAIN queue /\ line[j] = queue[j - Len(drained)]
      BY <2>2, <2>4, <3>2 DEF LineRises, Before
    <3> QED
      BY <2>3, <3>1, <3>2
  <2>5. CASE /\ i - Len(drained) \in DOMAIN queue /\ line[i] = queue[i - Len(drained)]
             /\ \A k \in DOMAIN drained : k < i
    <3>1. i \in Nat /\ j \in Nat /\ Len(drained) \in Nat
      BY <2>2, <2>3
    <3>2. j \notin DOMAIN drained
      BY <2>5, <3>1
    <3>3. j - Len(drained) \in DOMAIN queue /\ line[j] = queue[j - Len(drained)]
      BY <2>3, <3>2
    <3>4. i - Len(drained) < j - Len(drained)
      BY <3>1
    <3> QED
      BY <2>2, <2>5, <3>3, <3>4 DEF LineRises, Rising
  <2> QED
    BY <2>3, <2>4, <2>5
<1>2. Ring!NothingUncounted
  <2>1. RingTyped /\ InPlaces /\ dropped = Cardinality(counted)
    BY DEF RingIInv
  <2>2. /\ Ring!InQueue \in SUBSET Items /\ Ring!Drained \in SUBSET Items
           /\ counted \in SUBSET Items
        /\ Ring!Made \in SUBSET Items
        /\ \A p \in Producer : Ring!InHand(p) \in SUBSET Items /\ Hands[p] = Ring!InHand(p)
    BY <2>1, RingSets
  <2>3. Ring!Made = Ring!InQueue \cup Ring!Drained \cup counted
            \cup UNION {Ring!InHand(p) : p \in Producer}
    <3>1. \A x \in Items : x \in Ring!Made <=> \/ x \in Ring!InQueue \/ x \in Ring!Drained
                                               \/ x \in counted
                                               \/ \E p \in Producer : x \in Ring!InHand(p)
      BY <2>1, <2>2 DEF InPlaces, RingPlaces
    <3>2. PICK U : U = UNION {Ring!InHand(p) : p \in Producer}
      OBVIOUS
    <3>3. \A x : x \in U <=> \E p \in Producer : x \in Ring!InHand(p)
      BY <3>2
    <3>4. U \in SUBSET Items
      BY <2>2, <3>3
    <3>5. Ring!Made = Ring!InQueue \cup Ring!Drained \cup counted \cup U
      BY <2>2, <3>1, <3>3, <3>4
    <3> QED
      BY <3>2, <3>5
  <2>4. /\ \A p, q \in Producer : p # q => Ring!InHand(p) \cap Ring!InHand(q) = {}
        /\ \A p \in Producer : Ring!InHand(p) \cap (Ring!InQueue \cup Ring!Drained \cup counted) = {}
        /\ Ring!InQueue \cap (Ring!Drained \cup counted) = {} /\ Ring!Drained \cap counted = {}
    BY <2>1, <2>2 DEF InPlaces, RingPlaces
  <2> QED
    BY <2>1, <2>3, <2>4, RingCounts DEF Ring!NothingUncounted
<1> QED
  BY <1>1, <1>2

\* Every item is in one place, the counter says how many are lost, and those of one
\* producer come out in their order.
THEOREM RingKeepsAll == Ring!Spec => [](Ring!NothingUncounted /\ Ring!InOrder)
<1>1. Ring!Init => RingIInv
  BY RingInit
<1>2. RingIInv /\ [Ring!Next]_(Ring!vars) => RingIInv'
  BY RingStep
<1>3. RingIInv => Ring!NothingUncounted /\ Ring!InOrder
  BY RingShows
<1> QED
  BY <1>1, <1>2, <1>3, PTL DEF Ring!Spec

(***************************************************************************)
(* InstanceReset.  The argument follows one attempt.  Who holds the        *)
(* exclusive lock is alone (OneHolder); an attempt belongs to the tool     *)
(* that began it and is of the current generation while that tool holds    *)
(* the lock (AttemptsAreCurrent), so that the archive it captured after    *)
(* the last writer went is still all of the rows when they are cleared     *)
(* (CapturedIsAll).  A server that outlived its lock belongs to an earlier *)
(* generation as soon as there is a fence (ServersAreOlder), so that       *)
(* nothing is acknowledged behind it.                                      *)
(***************************************************************************)
\* The bounds of the model, and a null value that is none of its data.
ResetSizes == MaxAttempts \in Nat \ {0} /\ MaxPassword \in Nat \ {0}
ResetNoneIsApart ==
  /\ None \notin Reset!Attempt /\ None \notin Item /\ None \notin SUBSET Item
  /\ None \notin [generation : Nat, password : Nat]

\* Types, finer than TypeOK where the proof needs it.
ResetPlace == {"off", "begun", "locked", "captured", "journaled", "pending", "remove", "receipt"}
ResetDataOK ==
  /\ reign \in Nat \ {0} /\ pending \in Reset!Attempt \cup {None}
  /\ rows \subseteq Item /\ blobs \subseteq Item /\ torn \subseteq Item
  /\ secret \in 1..MaxPassword /\ signed \in BOOLEAN
  /\ permit \in [generation : Nat, password : Nat] \cup {None}
  /\ journal \subseteq Reset!Attempt /\ receipt \subseteq Reset!Attempt
     /\ completed \subseteq Reset!Attempt
  /\ archive \in [Reset!Attempt -> (SUBSET Item) \cup {None}]
  /\ attempts \in [Reset!Attempt -> Nat]
  /\ \A w \in acked : w[1] \in Nat /\ w[2] \in Item
ResetServersOK ==
  server \in [Server -> [state : {"off", "guarded", "running", "lost"},
                        generation : Nat, item : Item \cup {None}]]
ResetToolsOK ==
  /\ tool \in [Tool -> [at : ResetPlace, attempt : Reset!Attempt \cup {0}, holds : BOOLEAN,
                        left : SUBSET Item]]
  /\ \A t \in Tool : tool[t].at # "off" => tool[t].attempt \in Reset!Attempt
  /\ \A t \in Tool : tool[t].at = "off" => ~tool[t].holds
ResetTyped == ResetDataOK /\ ResetServersOK /\ ResetToolsOK

\* The lock is exclusive or shared, and is held exclusively by one tool.
OneHolder ==
  /\ \A t, u \in Tool : tool[t].holds /\ tool[u].holds => t = u
  /\ Reset!Shared => ~Reset!Exclusive

\* A server that still serves beside a fence was started for a generation that is gone;
\* what it is writing it would write for that generation.
ServersAreOlder == \A s \in Server :
  /\ server[s].generation <= reign
  /\ server[s].state = "running" => pending = None
  /\ Reset!Serving(s) /\ pending # None => server[s].generation < reign
  /\ server[s].item # None => Reset!Serving(s)

\* A blob that is written waits for its row where it was put, unless a tool without its
\* lock removes it.
WrittenIsThere == \A s \in Server :
  server[s].item # None /\ server[s].generation = reign =>
    server[s].item \in blobs \cup torn
\* A reset has its tables locked only when nobody is between a blob and its row.
ResetIsAlone == \A t \in Tool : Reset!InReset(t) => ~Reset!Writing

\* Before the fence: an attempt has one tool, is journaled by it only, and is an attempt
\* at the present generation as long as the tool holds its lock.
Early == {"begun", "locked", "captured", "journaled"}
AttemptsAreOwn == \A t, u \in Tool :
  tool[t].at \in Early /\ tool[u].at \in Early /\ tool[t].attempt = tool[u].attempt => t = u
AttemptsAreCurrent == \A t \in Tool : tool[t].at \in Early =>
  /\ attempts[tool[t].attempt] # 0
  /\ tool[t].attempt \in journal <=> tool[t].at = "journaled"
  /\ tool[t].holds => attempts[tool[t].attempt] = reign /\ pending = None
AttemptsArePast ==
  /\ \A a \in Reset!Attempt : attempts[a] <= reign
  /\ \A a \in journal : attempts[a] # 0 /\ archive[a] # None

\* The archive of a reset under way holds every row that it is going to clear.
CapturedIsAll == \A t \in Tool : tool[t].at \in {"captured", "journaled"} =>
  /\ archive[tool[t].attempt] # None
  /\ tool[t].holds => archive[tool[t].attempt] = rows

\* Blobs are removed with the lock only behind the fence of the same attempt.
RemovalIsFenced ==
  \A t \in Tool : tool[t].at \in {"remove", "receipt"} =>
    /\ archive[tool[t].attempt] # None
    /\ tool[t].at = "receipt" => tool[t].attempt \in receipt
    /\ tool[t].holds => pending = tool[t].attempt

\* Attempts that ended, or wait behind the fence, were at earlier generations.
CompletedIsPast ==
  /\ pending # None =>
       pending \notin completed /\ attempts[pending] # 0 /\ attempts[pending] < reign
  /\ \A a \in completed :
       attempts[a] # 0 /\ attempts[a] < reign /\ a \in receipt /\ archive[a] # None
\* Each generation was cleared once: by an attempt that ended, or by the one that waits.
Balanced ==
  /\ cleared = 1..(reign - 1)
  /\ Cardinality(cleared) = Cardinality(completed) + IF pending = None THEN 0 ELSE 1

\* Nothing is acknowledged for the generation that a fence has just begun.
AckedIsPast == \A w \in acked :
  w[1] <= reign /\ (pending # None => w[1] < reign)
\* The inductive invariant.
ResetIInv ==
  /\ ResetTyped /\ OneHolder /\ ServersAreOlder /\ WrittenIsThere /\ ResetIsAlone
  /\ AttemptsAreOwn /\ AttemptsAreCurrent /\ AttemptsArePast /\ CapturedIsAll
  /\ RemovalIsFenced /\ CompletedIsPast /\ Balanced
  /\ AckedIsPast /\ Reset!NothingLost

-----------------------------------------------------------------------------
USE DEF Reset!Attempt

\* Init is typed.
LEMMA ResetTypeInit == ASSUME ResetSizes PROVE Reset!Init => ResetTyped
<1> SUFFICES ASSUME Reset!Init PROVE ResetTyped
  OBVIOUS
<1> USE DEF Reset!Init
<1>1. ResetServersOK
  BY DEF ResetServersOK, Reset!Off
<1>2. ResetToolsOK
  BY DEF ResetToolsOK, Reset!Idle, ResetPlace
<1>3. ResetDataOK
  <2>1. 1 \in 1..MaxPassword
    BY DEF ResetSizes
  <2>2. archive \in [Reset!Attempt -> (SUBSET Item) \cup {None}]
        /\ attempts \in [Reset!Attempt -> Nat]
    OBVIOUS
  <2>3. \A w \in acked : w[1] \in Nat /\ w[2] \in Item
    OBVIOUS
  <2>4. permit \in [generation : Nat, password : Nat] \cup {None} /\ signed \in BOOLEAN
    OBVIOUS
  <2>5. /\ reign = 1 /\ pending = None /\ secret = 1
        /\ rows = {} /\ blobs = {} /\ torn = {} /\ journal = {} /\ receipt = {} /\ completed = {}
    OBVIOUS
  <2> HIDE DEF Reset!Init
  <2> QED
    BY <2>1, <2>2, <2>3, <2>4, <2>5 DEF ResetDataOK
<1> QED
  BY <1>1, <1>2, <1>3 DEF ResetTyped

\* What each step does to its server.
ServerBecomes(s, state, g, i) ==
  /\ server'[s].state = state /\ server'[s].generation = g /\ server'[s].item = i
  /\ \A o \in Server : o # s => server'[o] = server[o]
LEMMA ResetServerSteps ==
  ASSUME ResetServersOK, ResetDataOK, NEW s \in Server
  PROVE  /\ Reset!Guard(s) => ServerBecomes(s, "guarded", server[s].generation, server[s].item)
         /\ Reset!Boot(s) /\ Reset!Available => ServerBecomes(s, "running", reign, server[s].item)
         /\ Reset!Boot(s) /\ ~Reset!Available => ServerBecomes(s, "off", 0, None)
         /\ Reset!LoseGuard(s) => ServerBecomes(s, "lost", server[s].generation, server[s].item)
         /\ Reset!StopServer(s) => ServerBecomes(s, "off", 0, None)
         /\ \A i \in Item :
              Reset!WriteBlob(s, i) => ServerBecomes(s, server[s].state, server[s].generation, i)
         /\ Reset!CommitRow(s) \/ Reset!NoProject(s) =>
              ServerBecomes(s, server[s].state, server[s].generation, None)
<1> USE DEF ResetServersOK, ServerBecomes
<1>1. Reset!Guard(s) => ServerBecomes(s, "guarded", server[s].generation, server[s].item)
  BY DEF Reset!Guard
<1>2. Reset!Boot(s) /\ Reset!Available => ServerBecomes(s, "running", reign, server[s].item)
  BY DEF Reset!Boot
<1>3. Reset!Boot(s) /\ ~Reset!Available => ServerBecomes(s, "off", 0, None)
  BY DEF Reset!Boot, Reset!Off
<1>4. Reset!LoseGuard(s) => ServerBecomes(s, "lost", server[s].generation, server[s].item)
  BY DEF Reset!LoseGuard
<1>5. Reset!StopServer(s) => ServerBecomes(s, "off", 0, None)
  BY DEF Reset!StopServer, Reset!Off
<1>6. ASSUME NEW i \in Item, Reset!WriteBlob(s, i)
      PROVE  ServerBecomes(s, server[s].state, server[s].generation, i)
  BY <1>6 DEF Reset!WriteBlob
<1>7. Reset!CommitRow(s) \/ Reset!NoProject(s) =>
        ServerBecomes(s, server[s].state, server[s].generation, None)
  BY DEF Reset!CommitRow, Reset!NoProject
<1> QED
  BY <1>1, <1>2, <1>3, <1>4, <1>5, <1>6, <1>7

\* What each step does to its tool.
ToolBecomes(t, at, a, holds) ==
  /\ tool'[t].at = at /\ tool'[t].attempt = a /\ tool'[t].holds = holds
  /\ \A u \in Tool : u # t => tool'[u] = tool[u]
ResetReaches(t, at) == ToolBecomes(t, at, tool[t].attempt, tool[t].holds)
Ends(t) == ToolBecomes(t, "off", 0, FALSE)
LEMMA ResetToolSteps ==
  ASSUME ResetToolsOK, NEW t \in Tool
  PROVE  /\ Reset!BeginReset(t) => \E a \in Reset!Attempt :
              /\ attempts[a] = 0 /\ attempts' = [attempts EXCEPT ![a] = reign]
              /\ ToolBecomes(t, "begun", a, TRUE)
         /\ Reset!LockTables(t) => ResetReaches(t, "locked")
         /\ Reset!Capture(t) => ResetReaches(t, "captured")
         /\ Reset!PersistJournal(t) => ResetReaches(t, "journaled")
         /\ Reset!Clear(t) => ResetReaches(t, "pending") \/ Ends(t)
         /\ \A a \in Reset!Attempt : Reset!Finish(t, a) => ToolBecomes(t, "pending", a, TRUE)
         /\ Reset!ListBlobs(t) => ResetReaches(t, "remove")
         /\ \A i \in Item : Reset!RemoveBlob(t, i) => ResetReaches(t, "remove") \/ Ends(t)
         /\ Reset!PersistReceipt(t) => ResetReaches(t, "receipt")
         /\ Reset!LiftFence(t) \/ Reset!Fail(t) => Ends(t)
         /\ Reset!LoseConnection(t) => ToolBecomes(t, tool[t].at, tool[t].attempt, FALSE)
<1> USE DEF ResetToolsOK, ToolBecomes, ResetReaches, Ends, Reset!At, Reset!Go, Reset!Idle
<1>1. Reset!BeginReset(t) => \E a \in Reset!Attempt :
        /\ attempts[a] = 0 /\ attempts' = [attempts EXCEPT ![a] = reign]
        /\ ToolBecomes(t, "begun", a, TRUE)
  <2> SUFFICES ASSUME Reset!BeginReset(t)
               PROVE  \E a \in Reset!Attempt :
                        /\ attempts[a] = 0 /\ attempts' = [attempts EXCEPT ![a] = reign]
                        /\ ToolBecomes(t, "begun", a, TRUE)
    OBVIOUS
  <2>1. PICK a \in Reset!Attempt :
          /\ attempts[a] = 0 /\ attempts' = [attempts EXCEPT ![a] = reign]
          /\ tool' = [tool EXCEPT ![t] = [at |-> "begun", attempt |-> a, holds |-> TRUE, left |-> {}]]
    BY DEF Reset!BeginReset
  <2>2. ToolBecomes(t, "begun", a, TRUE)
    BY <2>1
  <2> QED
    BY <2>1, <2>2
<1>2. Reset!LockTables(t) => ResetReaches(t, "locked")
  BY DEF Reset!LockTables
<1>3. Reset!Capture(t) => ResetReaches(t, "captured")
  BY DEF Reset!Capture
<1>4. Reset!PersistJournal(t) => ResetReaches(t, "journaled")
  BY DEF Reset!PersistJournal
<1>5. Reset!Clear(t) => ResetReaches(t, "pending") \/ Ends(t)
  <2>1. Reset!Clear(t) => Reset!Go(t, "pending") \/ tool' = [tool EXCEPT ![t] = Reset!Idle]
    BY DEF Reset!Clear
  <2>2. Reset!Go(t, "pending") => ResetReaches(t, "pending")
    OBVIOUS
  <2>3. tool' = [tool EXCEPT ![t] = Reset!Idle] => Ends(t)
    OBVIOUS
  <2> QED
    BY <2>1, <2>2, <2>3
<1>6. \A a \in Reset!Attempt : Reset!Finish(t, a) => ToolBecomes(t, "pending", a, TRUE)
  BY DEF Reset!Finish
<1>7. Reset!ListBlobs(t) => ResetReaches(t, "remove")
  <2>1. Reset!ListBlobs(t) => tool' = [tool EXCEPT ![t].at = "remove", ![t].left = blobs]
    BY DEF Reset!ListBlobs
  <2> QED
    BY <2>1
<1>8. ASSUME NEW i \in Item, Reset!RemoveBlob(t, i) PROVE ResetReaches(t, "remove") \/ Ends(t)
  <2>1. CASE i \in blobs
    BY <1>8, <2>1 DEF Reset!RemoveBlob
  <2>2. CASE i \notin blobs
    BY <1>8, <2>2 DEF Reset!RemoveBlob
  <2> QED
    BY <2>1, <2>2
<1>9. Reset!PersistReceipt(t) => ResetReaches(t, "receipt")
  BY DEF Reset!PersistReceipt, Reset!Removed
<1>10. Reset!LiftFence(t) \/ Reset!Fail(t) => Ends(t)
  BY DEF Reset!LiftFence, Reset!Fail
<1>11. Reset!LoseConnection(t) => ToolBecomes(t, tool[t].at, tool[t].attempt, FALSE)
  BY DEF Reset!LoseConnection
<1> QED
  BY <1>1, <1>2, <1>3, <1>4, <1>5, <1>6, <1>7, <1>8, <1>9, <1>10, <1>11

\* Records stay in their domains.
LEMMA ResetServerType ==
  ASSUME ResetServersOK, ResetDataOK, NEW s \in Server,
         \/ Reset!Guard(s) \/ Reset!Boot(s) \/ Reset!LoseGuard(s) \/ Reset!StopServer(s)
         \/ (\E i \in Item : Reset!WriteBlob(s, i)) \/ Reset!CommitRow(s) \/ Reset!NoProject(s)
  PROVE  ResetServersOK'
<1> USE DEF ResetServersOK
<1>1. CASE Reset!Guard(s)
  BY <1>1 DEF Reset!Guard
<1>2. CASE Reset!Boot(s)
  <2>1. reign \in Nat
    BY DEF ResetDataOK
  <2>2. CASE Reset!Available
    <3>1. server' = [server EXCEPT ![s].state = "running", ![s].generation = reign]
      BY <1>2, <2>2 DEF Reset!Boot
    <3> QED
      BY <2>1, <3>1
  <2>3. CASE ~Reset!Available
    BY <1>2, <2>3 DEF Reset!Boot, Reset!Off
  <2> QED
    BY <2>2, <2>3
<1>3. CASE Reset!LoseGuard(s)
  BY <1>3 DEF Reset!LoseGuard
<1>4. CASE Reset!StopServer(s)
  BY <1>4 DEF Reset!StopServer, Reset!Off
<1>5. ASSUME NEW i \in Item, Reset!WriteBlob(s, i) PROVE ResetServersOK'
  <2>1. server' = [server EXCEPT ![s].item = i]
    BY <1>5 DEF Reset!WriteBlob
  <2> QED
    BY <2>1
<1>6. CASE Reset!CommitRow(s) \/ Reset!NoProject(s)
  <2>1. server' = [server EXCEPT ![s].item = None]
    BY <1>6 DEF Reset!CommitRow, Reset!NoProject
  <2> QED
    BY <2>1
<1> QED
  BY <1>1, <1>2, <1>3, <1>4, <1>5, <1>6

LEMMA ResetToolType ==
  ASSUME ResetToolsOK, ResetDataOK, NEW t \in Tool,
    \/ Reset!BeginReset(t) \/ Reset!LockTables(t) \/ Reset!Capture(t) \/ Reset!PersistJournal(t)
         \/ Reset!Clear(t)
    \/ (\E a \in Reset!Attempt : Reset!Finish(t, a)) \/ Reset!ListBlobs(t)
         \/ (\E i \in Item : Reset!RemoveBlob(t, i))
    \/ Reset!PersistReceipt(t) \/ Reset!LiftFence(t) \/ Reset!Fail(t) \/ Reset!LoseConnection(t)
  PROVE  ResetToolsOK'
<1> USE DEF ResetToolsOK, ResetPlace
<1>1. ASSUME NEW at \in ResetPlace \ {"off"}, ~Reset!At(t, "off"), Reset!Go(t, at)
      PROVE  ResetToolsOK'
  BY <1>1 DEF Reset!At, Reset!Go
<1>2. ASSUME tool' = [tool EXCEPT ![t] = Reset!Idle] PROVE ResetToolsOK'
  BY <1>2 DEF Reset!Idle
<1>3. ASSUME NEW a \in Reset!Attempt, NEW at \in ResetPlace \ {"off"},
             tool' = [tool EXCEPT ![t] = [at |-> at, attempt |-> a, holds |-> TRUE, left |-> {}]]
      PROVE  ResetToolsOK'
  BY <1>3
<1>4. CASE Reset!BeginReset(t)
  BY <1>3, <1>4 DEF Reset!BeginReset
<1>5. CASE Reset!LockTables(t) \/ Reset!Capture(t) \/ Reset!PersistJournal(t)
             \/ Reset!PersistReceipt(t)
  <2>1. ~Reset!At(t, "off") /\ \E at \in ResetPlace \ {"off"} : Reset!Go(t, at)
    BY <1>5 DEF Reset!LockTables, Reset!Capture, Reset!PersistJournal, Reset!PersistReceipt,
    Reset!Removed, Reset!At
  <2> QED
    BY <1>1, <2>1
<1>6. CASE Reset!Clear(t)
  <2>1. ~Reset!At(t, "off") /\ (Reset!Go(t, "pending") \/ tool' = [tool EXCEPT ![t] = Reset!Idle])
    BY <1>6 DEF Reset!Clear, Reset!At
  <2> QED
    BY <1>1, <1>2, <2>1
<1>7. ASSUME NEW a \in Reset!Attempt, Reset!Finish(t, a) PROVE ResetToolsOK'
  BY <1>3, <1>7 DEF Reset!Finish
<1>8. CASE Reset!ListBlobs(t)
  <2>1. tool' = [tool EXCEPT ![t].at = "remove", ![t].left = blobs] /\ tool[t].at = "pending"
    BY <1>8 DEF Reset!ListBlobs, Reset!At
  <2>2. blobs \subseteq Item
    BY DEF ResetDataOK
  <2> QED
    BY <2>1, <2>2
<1>9. ASSUME NEW i \in Item, Reset!RemoveBlob(t, i) PROVE ResetToolsOK'
  <2>1. tool[t].at = "remove"
        /\ (tool' = [tool EXCEPT ![t].left = @ \ {i}] \/ tool' = [tool EXCEPT ![t] = Reset!Idle])
    BY <1>9 DEF Reset!RemoveBlob, Reset!At
  <2>2. CASE tool' = [tool EXCEPT ![t].left = @ \ {i}]
    BY <2>1, <2>2
  <2> QED
    BY <1>2, <2>1, <2>2
<1>10. CASE Reset!LiftFence(t) \/ Reset!Fail(t)
  BY <1>2, <1>10 DEF Reset!LiftFence, Reset!Fail
<1>11. CASE Reset!LoseConnection(t)
  BY <1>11 DEF Reset!LoseConnection
<1> QED
  BY <1>4, <1>5, <1>6, <1>7, <1>8, <1>9, <1>10, <1>11

\* The steps, gathered by what they leave alone.
ServerOnly(s) == Reset!Guard(s) \/ Reset!Boot(s) \/ Reset!LoseGuard(s) \/ Reset!StopServer(s)
  \/ Reset!NoProject(s)
OwnerStep == Reset!SignIn \/ Reset!SetPassword \/ Reset!Prepare \/ Reset!PermitExpires
ToolOnly(t) ==
  Reset!LockTables(t) \/ (\E a \in Reset!Attempt : Reset!Finish(t, a)) \/ Reset!ListBlobs(t)
    \/ Reset!Fail(t) \/ Reset!LoseConnection(t)
LEMMA ResetFrames ==
  /\ \A s \in Server : ServerOnly(s)
       => UNCHANGED <<Reset!database, Reset!files, tool, Reset!ghosts>>
  /\ OwnerStep => UNCHANGED <<reign, pending, rows, cleared, completed, Reset!files, server,
                              tool, Reset!ghosts>>
  /\ \A t \in Tool : ToolOnly(t) => UNCHANGED <<Reset!database, Reset!files, server, Reset!ghosts>>
  BY DEF ServerOnly, Reset!Guard, Reset!Boot, Reset!LoseGuard, Reset!StopServer, Reset!NoProject,
  OwnerStep, Reset!SignIn,
         Reset!SetPassword, Reset!Prepare, Reset!PermitExpires, ToolOnly, Reset!LockTables,
         Reset!Finish, Reset!ListBlobs, Reset!Fail,
         Reset!LoseConnection

\* The rows, the settings and the files stay in their domains.
LEMMA ResetDataType ==
  ASSUME ResetSizes, ResetDataOK, ResetToolsOK, ResetServersOK, [Reset!Next]_(Reset!vars)
  PROVE  ResetDataOK'
<1> USE DEF ResetDataOK
<1>1. ASSUME UNCHANGED <<Reset!database, blobs, archive, journal, receipt, Reset!ghosts>>
      PROVE  ResetDataOK'
  BY <1>1 DEF Reset!database, Reset!ghosts
<1>2. ASSUME NEW s \in Server, ServerOnly(s) PROVE ResetDataOK'
  BY <1>1, <1>2, ResetFrames DEF Reset!files
<1>3. ASSUME NEW s \in Server, NEW i \in Item, Reset!WriteBlob(s, i) PROVE ResetDataOK'
  BY <1>3 DEF Reset!WriteBlob, Reset!database, Reset!ghosts
<1>4. ASSUME NEW s \in Server, Reset!CommitRow(s) PROVE ResetDataOK'
  <2>1. server[s].item \in Item
    BY <1>4 DEF Reset!CommitRow, ResetServersOK
  <2>2. rows' \subseteq Item
    BY <1>4, <2>1 DEF Reset!CommitRow
  <2>3. \A w \in acked' : w[1] \in Nat /\ w[2] \in Item
    BY <1>4, <2>1 DEF Reset!CommitRow
  <2> QED
    BY <1>4, <2>2, <2>3 DEF Reset!CommitRow, Reset!files
<1>5. CASE OwnerStep
  <2>1. secret' \in 1..MaxPassword /\ signed' \in BOOLEAN
    <3>1. Reset!SetPassword => secret + 1 \in 1..MaxPassword
      BY DEF Reset!SetPassword, ResetSizes
    <3> HIDE DEF ResetDataOK
    <3>2. secret \in 1..MaxPassword /\ signed \in BOOLEAN
      BY DEF ResetDataOK
    <3> QED
      BY <1>5, <3>1, <3>2 DEF OwnerStep, Reset!SignIn, Reset!SetPassword, Reset!Prepare,
      Reset!PermitExpires
  <2>2. permit' \in [generation : Nat, password : Nat] \cup {None}
    <3>1. reign \in Nat /\ secret \in Nat
      BY DEF ResetSizes
    <3> QED
      BY <1>5, <3>1 DEF OwnerStep, Reset!SignIn, Reset!SetPassword, Reset!Prepare,
      Reset!PermitExpires
  <2> QED
    BY <1>5, <2>1, <2>2, ResetFrames DEF Reset!files, Reset!ghosts
<1>6. ASSUME NEW t \in Tool, ToolOnly(t) PROVE ResetDataOK'
  BY <1>1, <1>6, ResetFrames DEF Reset!files
<1>7. ASSUME NEW t \in Tool, Reset!BeginReset(t) PROVE ResetDataOK'
  <2>1. attempts' \in [Reset!Attempt -> Nat]
    BY <1>7 DEF Reset!BeginReset
  <2> QED
    BY <1>7, <2>1 DEF Reset!BeginReset, Reset!database, Reset!files
<1>8. ASSUME NEW t \in Tool, Reset!Capture(t) PROVE ResetDataOK'
  <2>1. archive' \in [Reset!Attempt -> (SUBSET Item) \cup {None}]
    BY <1>8 DEF Reset!Capture
  <2> QED
    BY <1>8, <2>1 DEF Reset!Capture, Reset!database, Reset!ghosts
<1>9. ASSUME NEW t \in Tool, Reset!PersistJournal(t) \/ Reset!PersistReceipt(t) PROVE ResetDataOK'
  <2>1. tool[t].attempt \in Reset!Attempt
    BY <1>9 DEF Reset!PersistJournal, Reset!PersistReceipt, Reset!Removed, Reset!At, ResetToolsOK
  <2> QED
    BY <1>9, <2>1 DEF Reset!PersistJournal, Reset!PersistReceipt, Reset!database, Reset!ghosts
<1>10. ASSUME NEW t \in Tool, Reset!Clear(t) PROVE ResetDataOK'
  <2>1. tool[t].attempt \in Reset!Attempt /\ reign + 1 \in Nat \ {0} /\ 1 \in 1..MaxPassword
    BY <1>10 DEF Reset!Clear, Reset!At, ResetToolsOK, ResetSizes
  <2> QED
    BY <1>10, <2>1 DEF Reset!Clear, Reset!files, Reset!ghosts
<1>11. ASSUME NEW t \in Tool, NEW i \in Item, Reset!RemoveBlob(t, i) PROVE ResetDataOK'
  <2>1. blobs' \subseteq Item /\ torn' \subseteq Item
    BY <1>11 DEF Reset!RemoveBlob
  <2> QED
    BY <1>11, <2>1 DEF Reset!RemoveBlob, Reset!database
<1>12. ASSUME NEW t \in Tool, Reset!LiftFence(t) PROVE ResetDataOK'
  <2>1. tool[t].attempt \in Reset!Attempt
    BY <1>12 DEF Reset!LiftFence, Reset!At, ResetToolsOK
  <2> QED
    BY <1>12, <2>1 DEF Reset!LiftFence, Reset!files, Reset!ghosts
<1>13. CASE UNCHANGED Reset!vars
  BY <1>1, <1>13 DEF Reset!vars, Reset!database, Reset!ghosts
<1> HIDE DEF ResetDataOK
<1> QED
  BY <1>2, <1>3, <1>4, <1>5, <1>6, <1>7, <1>8, <1>9, <1>10, <1>11, <1>12, <1>13
     DEF Reset!Next, ServerOnly, OwnerStep, ToolOnly

\* Types are kept.
LEMMA ResetTypeStep == ASSUME ResetSizes, ResetTyped, [Reset!Next]_(Reset!vars) PROVE ResetTyped'
<1> USE DEF ResetTyped
<1>1. ResetDataOK'
  BY ResetDataType
<1>2. ResetServersOK'
  <2>1. ASSUME UNCHANGED server PROVE ResetServersOK'
    BY <2>1 DEF ResetServersOK
  <2>2. ASSUME NEW t \in Tool,
          \/ ToolOnly(t) \/ Reset!BeginReset(t) \/ Reset!Capture(t) \/ Reset!PersistJournal(t)
               \/ Reset!Clear(t)
          \/ (\E i \in Item : Reset!RemoveBlob(t, i)) \/ Reset!PersistReceipt(t)
               \/ Reset!LiftFence(t)
        PROVE  UNCHANGED server
    BY <2>2, ResetFrames DEF Reset!BeginReset, Reset!Capture, Reset!PersistJournal, Reset!Clear,
    Reset!RemoveBlob, Reset!PersistReceipt,
                        Reset!LiftFence
  <2>3. OwnerStep \/ UNCHANGED Reset!vars => UNCHANGED server
    BY ResetFrames DEF Reset!vars
  <2> QED
    BY <2>1, <2>2, <2>3, ResetServerType DEF Reset!Next, OwnerStep, ToolOnly
<1>3. ResetToolsOK'
  <2>1. ASSUME UNCHANGED tool PROVE ResetToolsOK'
    BY <2>1 DEF ResetToolsOK
  <2>2. ASSUME NEW s \in Server, ServerOnly(s) \/ (\E i \in Item : Reset!WriteBlob(s, i))
                 \/ Reset!CommitRow(s)
        PROVE  UNCHANGED tool
    BY <2>2, ResetFrames DEF Reset!WriteBlob, Reset!CommitRow
  <2>3. OwnerStep \/ UNCHANGED Reset!vars => UNCHANGED tool
    BY ResetFrames DEF Reset!vars
  <2> QED
    BY <2>1, <2>2, <2>3, ResetToolType DEF Reset!Next, OwnerStep, ServerOnly
<1> QED
  BY <1>1, <1>2, <1>3

-----------------------------------------------------------------------------
\* Everything that a step may be, for the lemmas below.
LEMMA ResetStepCases ==
  ASSUME [Reset!Next]_(Reset!vars)
  PROVE  \/ UNCHANGED Reset!vars
         \/ \E s \in Server : ServerOnly(s) \/ (\E i \in Item : Reset!WriteBlob(s, i))
              \/ Reset!CommitRow(s)
         \/ OwnerStep
         \/ \E t \in Tool :
              \/ ToolOnly(t) \/ Reset!BeginReset(t) \/ Reset!Capture(t) \/ Reset!PersistJournal(t)
                   \/ Reset!Clear(t)
              \/ (\E i \in Item : Reset!RemoveBlob(t, i)) \/ Reset!PersistReceipt(t)
                   \/ Reset!LiftFence(t)
  BY DEF Reset!Next, ServerOnly, OwnerStep, ToolOnly

\* Locks are taken by who finds nobody in the way, and kept by nobody else.
LEMMA HolderSteps ==
  ASSUME ResetTyped, [Reset!Next]_(Reset!vars)
  PROVE  \/ \A t \in Tool : tool'[t].holds => tool[t].holds
         \/ /\ ~Reset!Shared /\ ~Reset!Exclusive /\ UNCHANGED server
            /\ \E t \in Tool : \A u \in Tool : u # t => tool'[u] = tool[u]
<1> USE DEF ResetTyped
<1>1. ASSUME UNCHANGED tool PROVE \A t \in Tool : tool'[t].holds => tool[t].holds
  BY <1>1
<1>2. ASSUME NEW s \in Server, ServerOnly(s) \/ (\E i \in Item : Reset!WriteBlob(s, i))
               \/ Reset!CommitRow(s)
      PROVE  UNCHANGED tool
  BY <1>2, ResetFrames DEF Reset!WriteBlob, Reset!CommitRow
<1>3. OwnerStep \/ UNCHANGED Reset!vars => UNCHANGED tool
  BY ResetFrames DEF Reset!vars
<1>4. ASSUME NEW t \in Tool,
             \/ Reset!LockTables(t) \/ Reset!ListBlobs(t) \/ Reset!Fail(t)
                  \/ Reset!LoseConnection(t)
             \/ Reset!Capture(t) \/ Reset!PersistJournal(t) \/ Reset!Clear(t)
             \/ (\E i \in Item : Reset!RemoveBlob(t, i)) \/ Reset!PersistReceipt(t)
                  \/ Reset!LiftFence(t)
      PROVE  \A u \in Tool : tool'[u].holds => tool[u].holds
  BY <1>4, ResetToolSteps DEF ResetReaches, Ends, ToolBecomes
<1>5. ASSUME NEW t \in Tool, Reset!BeginReset(t) \/ (\E a \in Reset!Attempt : Reset!Finish(t, a))
      PROVE  /\ ~Reset!Shared /\ ~Reset!Exclusive /\ UNCHANGED server
             /\ \A u \in Tool : u # t => tool'[u] = tool[u]
  BY <1>5, ResetToolSteps DEF Reset!BeginReset, Reset!Finish, Reset!OfflineGuard, ToolBecomes
<1> QED
  BY <1>1, <1>2, <1>3, <1>4, <1>5, ResetStepCases DEF ToolOnly

\* The lock stays exclusive.
LEMMA HolderStep == ASSUME ResetTyped, OneHolder, [Reset!Next]_(Reset!vars) PROVE OneHolder'
<1> USE DEF ResetTyped
<1>1. CASE \A t \in Tool : tool'[t].holds => tool[t].holds
  <2>1. \A t, u \in Tool : tool'[t].holds /\ tool'[u].holds => t = u
    BY <1>1 DEF OneHolder
  <2>2. Reset!Exclusive' => Reset!Exclusive
    BY <1>1 DEF Reset!Exclusive
  <2>3. ASSUME NEW s \in Server, server'[s].state \in {"guarded", "running"},
               server[s].state \notin {"guarded", "running"}
        PROVE  ~Reset!Exclusive'
    <3>1. Reset!Guard(s)
      <4>1. server' # server
        BY <2>3
      <4>2. ~OwnerStep /\ ~UNCHANGED Reset!vars
        BY <4>1, ResetFrames DEF Reset!vars
      <4>3. ASSUME NEW t \in Tool,
                   \/ ToolOnly(t) \/ Reset!BeginReset(t) \/ Reset!Capture(t)
                        \/ Reset!PersistJournal(t) \/ Reset!Clear(t)
                   \/ (\E i \in Item : Reset!RemoveBlob(t, i)) \/ Reset!PersistReceipt(t)
                        \/ Reset!LiftFence(t)
            PROVE  FALSE
        BY <4>1, <4>3, ResetFrames DEF Reset!BeginReset, Reset!Capture, Reset!PersistJournal,
        Reset!Clear, Reset!RemoveBlob,
                                  Reset!PersistReceipt, Reset!LiftFence, Reset!files
      <4>4. PICK r \in Server :
              ServerOnly(r) \/ (\E i \in Item : Reset!WriteBlob(r, i)) \/ Reset!CommitRow(r)
        BY <4>2, <4>3, ResetStepCases
      <4>5. r = s
        BY <2>3, <4>4, ResetServerSteps DEF ServerOnly, ServerBecomes
      <4> QED
        BY <2>3, <4>4, <4>5, ResetServerSteps
           DEF ServerOnly, ServerBecomes, Reset!Boot, Reset!WriteBlob, Reset!CommitRow,
           Reset!NoProject, Reset!Serving
    <3> QED
      BY <2>2, <3>1 DEF Reset!Guard
  <2> QED
    BY <2>1, <2>2, <2>3 DEF OneHolder, Reset!Shared
<1>2. CASE /\ ~Reset!Shared /\ ~Reset!Exclusive /\ UNCHANGED server
           /\ \E t \in Tool : \A u \in Tool : u # t => tool'[u] = tool[u]
  BY <1>2 DEF OneHolder, Reset!Shared, Reset!Exclusive
<1> QED
  BY <1>1, <1>2, HolderSteps

\* Only a step of a server changes its record, and only Clear and LiftFence the fence.
LEMMA FenceSteps ==
  ASSUME [Reset!Next]_(Reset!vars)
  PROVE  \/ UNCHANGED <<server, reign, pending>>
         \/ /\ UNCHANGED <<reign, pending>>
            /\ \E s \in Server :
                 ServerOnly(s) \/ (\E i \in Item : Reset!WriteBlob(s, i)) \/ Reset!CommitRow(s)
         \/ \E t \in Tool : Reset!Clear(t) \/ Reset!LiftFence(t)
<1>1. ASSUME NEW t \in Tool, \/ ToolOnly(t) \/ Reset!BeginReset(t) \/ Reset!Capture(t)
               \/ Reset!PersistJournal(t)
                             \/ (\E i \in Item : Reset!RemoveBlob(t, i)) \/ Reset!PersistReceipt(t)
      PROVE  UNCHANGED <<server, reign, pending>>
  BY <1>1, ResetFrames DEF Reset!BeginReset, Reset!Capture, Reset!PersistJournal, Reset!RemoveBlob,
  Reset!PersistReceipt, Reset!database
<1>2. ASSUME NEW s \in Server, ServerOnly(s) \/ (\E i \in Item : Reset!WriteBlob(s, i))
               \/ Reset!CommitRow(s)
      PROVE  UNCHANGED <<reign, pending>>
  BY <1>2, ResetFrames DEF Reset!WriteBlob, Reset!CommitRow, Reset!database
<1>3. OwnerStep \/ UNCHANGED Reset!vars => UNCHANGED <<server, reign, pending>>
  BY ResetFrames DEF Reset!vars
<1> QED
  BY <1>1, <1>2, <1>3, ResetStepCases

\* A new fence makes every server an old one: none of them holds the lock.
LEMMA OlderStep ==
  ASSUME ResetTyped, OneHolder, ServersAreOlder, [Reset!Next]_(Reset!vars) PROVE ServersAreOlder'
<1> USE DEF ResetTyped
<1>1. CASE UNCHANGED <<server, reign, pending>>
  BY <1>1 DEF ServersAreOlder, Reset!Serving
<1>2. ASSUME UNCHANGED <<reign, pending>>, NEW s \in Server,
             ServerOnly(s) \/ (\E i \in Item : Reset!WriteBlob(s, i)) \/ Reset!CommitRow(s)
      PROVE  ServersAreOlder'
  <2>1. \A o \in Server : o # s => server'[o] = server[o]
    BY <1>2, ResetServerSteps DEF ServerOnly, ServerBecomes
  <2>2. reign \in Nat
    BY DEF ResetDataOK
  <2>3. server[s].generation \in Nat
    BY DEF ResetServersOK
  <2>4. /\ server'[s].generation <= reign
        /\ server'[s].state = "running" => pending = None
        /\ server'[s].state \in {"running", "lost"} /\ pending # None =>
             server'[s].generation < reign
        /\ server'[s].item # None => server'[s].state \in {"running", "lost"}
    <3> USE DEF ServersAreOlder, Reset!Serving
    <3>1. CASE Reset!Guard(s) \/ Reset!LoseGuard(s) \/ Reset!StopServer(s)
      BY <2>2, <2>3, <3>1, ResetServerSteps DEF ServerBecomes, Reset!Guard, Reset!LoseGuard
    <3>2. CASE Reset!Boot(s)
      BY <2>2, <2>3, <3>2, ResetServerSteps DEF ServerBecomes, Reset!Boot, Reset!Available
    <3>3. CASE Reset!NoProject(s) \/ Reset!CommitRow(s)
      BY <2>2, <2>3, <3>3, ResetServerSteps DEF ServerBecomes
    <3>4. CASE \E i \in Item : Reset!WriteBlob(s, i)
      BY <2>2, <2>3, <3>4, ResetServerSteps DEF ServerBecomes, Reset!WriteBlob
    <3> QED
      BY <1>2, <3>1, <3>2, <3>3, <3>4 DEF ServerOnly
  <2> QED
    BY <1>2, <2>1, <2>4 DEF ServersAreOlder, Reset!Serving
<1>3. ASSUME NEW t \in Tool, Reset!Clear(t) PROVE ServersAreOlder'
  <2>1. ~Reset!Shared
    BY <1>3 DEF Reset!Clear, OneHolder, Reset!Exclusive
  <2>2. reign' = reign + 1 /\ UNCHANGED server /\ reign \in Nat
    BY <1>3 DEF Reset!Clear, ResetDataOK
  <2>3. \A s \in Server : server[s].generation \in Nat
    BY DEF ResetServersOK
  <2> QED
    BY <2>1, <2>2, <2>3 DEF ServersAreOlder, Reset!Shared, Reset!Serving
<1>4. ASSUME NEW t \in Tool, Reset!LiftFence(t) PROVE ServersAreOlder'
  BY <1>4 DEF Reset!LiftFence, ServersAreOlder, Reset!Serving
<1> QED
  BY <1>1, <1>2, <1>3, <1>4, FenceSteps

\* The instance is written by servers, cleared by one tool and emptied by another.
LEMMA StoreSteps ==
  ASSUME [Reset!Next]_(Reset!vars)
  PROVE  \/ UNCHANGED <<rows, blobs, torn, acked>>
         \/ \E s \in Server : (\E i \in Item : Reset!WriteBlob(s, i)) \/ Reset!CommitRow(s)
         \/ \E t \in Tool : Reset!Clear(t) \/ \E i \in Item : Reset!RemoveBlob(t, i)
<1>1. ASSUME NEW t \in Tool, \/ ToolOnly(t) \/ Reset!BeginReset(t) \/ Reset!Capture(t)
               \/ Reset!PersistJournal(t)
                             \/ Reset!PersistReceipt(t) \/ Reset!LiftFence(t)
      PROVE  UNCHANGED <<rows, blobs, torn, acked>>
  BY <1>1, ResetFrames DEF Reset!BeginReset, Reset!Capture, Reset!PersistJournal,
  Reset!PersistReceipt, Reset!LiftFence,
                      Reset!database, Reset!files, Reset!ghosts
<1>2. ASSUME NEW s \in Server, ServerOnly(s) PROVE UNCHANGED <<rows, blobs, torn, acked>>
  BY <1>2, ResetFrames DEF Reset!database, Reset!files, Reset!ghosts
<1>3. OwnerStep \/ UNCHANGED Reset!vars => UNCHANGED <<rows, blobs, torn, acked>>
  BY ResetFrames DEF Reset!vars, Reset!files, Reset!ghosts
<1> QED
  BY <1>1, <1>2, <1>3, ResetStepCases

\* Without a fence no blob goes unnoticed.
LEMMA BlobsStay ==
  ASSUME ResetTyped, RemovalIsFenced, pending = None, ResetNoneIsApart, [Reset!Next]_(Reset!vars)
  PROVE  blobs \cup torn \subseteq blobs' \cup torn'
<1>1. ASSUME NEW t \in Tool, NEW i \in Item, Reset!RemoveBlob(t, i)
      PROVE  blobs \cup torn \subseteq blobs' \cup torn'
  <2>1. tool[t].at = "remove" /\ tool[t].attempt \in Reset!Attempt
    BY <1>1 DEF Reset!RemoveBlob, Reset!At, ResetTyped, ResetToolsOK
  <2>2. None \notin Reset!Attempt
    BY DEF ResetNoneIsApart
  <2>3. ~tool[t].holds
    BY <2>1, <2>2 DEF RemovalIsFenced
  <2>4. blobs' = blobs \ {i} /\ torn' = torn \cup {i}
    BY <1>1, <2>3 DEF Reset!RemoveBlob
  <2> QED
    BY <2>4
<1>2. ASSUME NEW s \in Server, (\E i \in Item : Reset!WriteBlob(s, i)) \/ Reset!CommitRow(s)
      PROVE  blobs \cup torn \subseteq blobs' \cup torn'
  BY <1>2 DEF Reset!WriteBlob, Reset!CommitRow, Reset!files, Reset!ghosts
<1>3. ASSUME NEW t \in Tool, Reset!Clear(t) PROVE blobs \cup torn \subseteq blobs' \cup torn'
  BY <1>3 DEF Reset!Clear, Reset!files, Reset!ghosts
<1> QED
  BY <1>1, <1>2, <1>3, StoreSteps

\* Only a removal takes a blob away, and those have no fence to wait behind.
LEMMA WrittenStep ==
  ASSUME ResetTyped, ServersAreOlder, RemovalIsFenced, WrittenIsThere, ResetNoneIsApart,
         [Reset!Next]_(Reset!vars)
  PROVE  WrittenIsThere'
<1> USE DEF ResetTyped
<1>1. ASSUME NEW s \in Server, server'[s] = server[s], reign' = reign,
             server[s].item # None, server[s].generation = reign
      PROVE  server[s].item \in blobs' \cup torn'
  <2>1. pending = None
    BY <1>1 DEF ServersAreOlder, ResetDataOK
  <2> QED
    BY <1>1, <2>1, BlobsStay DEF WrittenIsThere
<1>2. CASE UNCHANGED <<server, reign, pending>>
  BY <1>1, <1>2 DEF WrittenIsThere
<1>3. ASSUME UNCHANGED <<reign, pending>>, NEW s \in Server,
             ServerOnly(s) \/ (\E i \in Item : Reset!WriteBlob(s, i)) \/ Reset!CommitRow(s)
      PROVE  WrittenIsThere'
  <2>1. \A o \in Server : o # s => server'[o] = server[o]
    BY <1>3, ResetServerSteps DEF ServerOnly, ServerBecomes
  <2>2. ASSUME server'[s].item # None, server'[s].generation = reign
        PROVE  server'[s].item \in blobs' \cup torn'
    <3>1. CASE \E i \in Item : Reset!WriteBlob(s, i)
      BY <3>1, ResetServerSteps DEF ServerBecomes, Reset!WriteBlob
    <3>2. CASE Reset!NoProject(s) \/ Reset!CommitRow(s) \/ Reset!StopServer(s)
      BY <2>2, <3>2, ResetServerSteps DEF ServerBecomes
    <3>3. CASE Reset!Guard(s) \/ Reset!Boot(s)
      <4>1. server[s].item = None
        BY <3>3 DEF Reset!Guard, Reset!Boot, ServersAreOlder, Reset!Serving
      <4> QED
        BY <2>2, <3>3, <4>1, ResetServerSteps DEF ServerBecomes
    <3>4. CASE Reset!LoseGuard(s)
      <4>1. /\ server'[s].item = server[s].item
            /\ server'[s].generation = server[s].generation
        BY <3>4, ResetServerSteps DEF ServerBecomes
      <4>2. pending = None
        BY <3>4 DEF Reset!LoseGuard, ServersAreOlder
      <4> QED
        BY <2>2, <4>1, <4>2, BlobsStay DEF WrittenIsThere
    <3> QED
      BY <1>3, <3>1, <3>2, <3>3, <3>4 DEF ServerOnly
  <2> QED
    BY <1>1, <1>3, <2>1, <2>2 DEF WrittenIsThere
<1>4. ASSUME NEW t \in Tool, Reset!Clear(t) PROVE WrittenIsThere'
  <2>1. reign' = reign + 1 /\ UNCHANGED server /\ reign \in Nat
    BY <1>4 DEF Reset!Clear, ResetDataOK
  <2>2. \A s \in Server : server[s].generation \in Nat /\ server[s].generation <= reign
    BY DEF ResetServersOK, ServersAreOlder
  <2> QED
    BY <2>1, <2>2 DEF WrittenIsThere
<1>5. ASSUME NEW t \in Tool, Reset!LiftFence(t) PROVE WrittenIsThere'
  BY <1>1, <1>5 DEF Reset!LiftFence, WrittenIsThere
<1> QED
  BY <1>2, <1>3, <1>4, <1>5, FenceSteps

\* A reset that holds its locks has waited for who was writing, and nobody begins.
LEMMA AloneStep ==
  ASSUME ResetTyped, ResetIsAlone, [Reset!Next]_(Reset!vars) PROVE ResetIsAlone'
<1> USE DEF ResetTyped
<1>1. ASSUME Reset!Writing', ~Reset!Writing
      PROVE  ~Reset!TablesLocked /\ UNCHANGED tool
  <2>1. server' # server
    BY <1>1 DEF Reset!Writing
  <2>2. ~\E t \in Tool : Reset!Clear(t) \/ Reset!LiftFence(t)
    BY <2>1 DEF Reset!Clear, Reset!LiftFence
  <2>3. PICK s \in Server : ServerOnly(s) \/ (\E i \in Item : Reset!WriteBlob(s, i))
          \/ Reset!CommitRow(s)
    BY <2>1, <2>2, FenceSteps
  <2>4. \A o \in Server : o # s => server'[o] = server[o]
    BY <2>3, ResetServerSteps DEF ServerOnly, ServerBecomes
  <2>5. server'[s].item # None /\ server[s].item = None
    BY <1>1, <2>4 DEF Reset!Writing
  <2>6. \E i \in Item : Reset!WriteBlob(s, i)
    BY <2>3, <2>5, ResetServerSteps DEF ServerOnly, ServerBecomes
  <2> QED
    BY <2>6 DEF Reset!WriteBlob
<1>2. ASSUME NEW t \in Tool, Reset!InReset(t)', ~Reset!InReset(t)
      PROVE  ~Reset!Writing /\ UNCHANGED server
  <2>1. Reset!LockTables(t)
    <3>1. tool' # tool
      BY <1>2 DEF Reset!InReset
    <3>2. ~OwnerStep /\ ~UNCHANGED Reset!vars
      BY <3>1, ResetFrames DEF Reset!vars
    <3>3. ASSUME NEW s \in Server,
                 ServerOnly(s) \/ (\E i \in Item : Reset!WriteBlob(s, i)) \/ Reset!CommitRow(s)
          PROVE  FALSE
      BY <3>1, <3>3, ResetFrames DEF Reset!WriteBlob, Reset!CommitRow
    <3>4. PICK u \in Tool :
            \/ ToolOnly(u) \/ Reset!BeginReset(u) \/ Reset!Capture(u) \/ Reset!PersistJournal(u)
                 \/ Reset!Clear(u)
            \/ (\E i \in Item : Reset!RemoveBlob(u, i)) \/ Reset!PersistReceipt(u)
                 \/ Reset!LiftFence(u)
      BY <3>2, <3>3, ResetStepCases
    <3>5. u = t
      BY <1>2, <3>4, ResetToolSteps DEF ToolOnly, ResetReaches, Ends, ToolBecomes, Reset!InReset
    <3>6. CASE Reset!Capture(t) \/ Reset!PersistJournal(t)
      BY <1>2, <3>6, ResetToolSteps DEF ResetReaches, ToolBecomes, Reset!InReset, Reset!Capture,
      Reset!PersistJournal, Reset!At
    <3>7. CASE \/ (\E a \in Reset!Attempt : Reset!Finish(t, a)) \/ Reset!ListBlobs(t)
                    \/ Reset!Fail(t) \/ Reset!LoseConnection(t)
               \/ Reset!BeginReset(t) \/ Reset!Clear(t) \/ (\E i \in Item : Reset!RemoveBlob(t, i))
               \/ Reset!PersistReceipt(t) \/ Reset!LiftFence(t)
      BY <1>2, <3>7, ResetToolSteps DEF ResetReaches, Ends, ToolBecomes, Reset!InReset
    <3> QED
      BY <3>4, <3>5, <3>6, <3>7 DEF ToolOnly
  <2> QED
    BY <2>1 DEF Reset!LockTables, Reset!NobodyWrites
<1> QED
  BY <1>1, <1>2 DEF ResetIsAlone, Reset!TablesLocked, Reset!Writing, Reset!InReset

\* Who is early after a step was early before it, for the same attempt, or has begun
\* an attempt that nobody had used.
LEMMA EarlySteps ==
  ASSUME ResetTyped, NEW t \in Tool, [Reset!Next]_(Reset!vars), tool'[t].at \in Early
  PROVE  \/ /\ tool[t].at \in Early /\ tool'[t].attempt = tool[t].attempt
            /\ tool'[t].holds => tool[t].holds
            /\ tool'[t].at = tool[t].at \/ Reset!LockTables(t) \/ Reset!Capture(t)
                 \/ Reset!PersistJournal(t)
         \/ /\ Reset!BeginReset(t) /\ tool'[t].at = "begun"
            /\ tool'[t].attempt \in Reset!Attempt /\ attempts[tool'[t].attempt] = 0
            /\ attempts' = [attempts EXCEPT ![tool'[t].attempt] = reign]
<1> USE DEF ResetTyped, Early
<1>1. CASE tool'[t] = tool[t]
  BY <1>1
<1>2. CASE tool'[t] # tool[t]
  <2>1. tool' # tool /\ ~OwnerStep /\ ~UNCHANGED Reset!vars
    BY <1>2, ResetFrames DEF Reset!vars
  <2>2. ASSUME NEW s \in Server, ServerOnly(s) \/ (\E i \in Item : Reset!WriteBlob(s, i))
                 \/ Reset!CommitRow(s)
        PROVE  FALSE
    BY <2>1, <2>2, ResetFrames DEF Reset!WriteBlob, Reset!CommitRow
  <2>3. PICK u \in Tool :
          \/ ToolOnly(u) \/ Reset!BeginReset(u) \/ Reset!Capture(u) \/ Reset!PersistJournal(u)
               \/ Reset!Clear(u)
          \/ (\E i \in Item : Reset!RemoveBlob(u, i)) \/ Reset!PersistReceipt(u)
               \/ Reset!LiftFence(u)
    BY <2>1, <2>2, ResetStepCases
  <2>4. u = t
    BY <1>2, <2>3, ResetToolSteps DEF ToolOnly, ResetReaches, Ends, ToolBecomes
  <2>5. CASE Reset!LockTables(t) \/ Reset!Capture(t) \/ Reset!PersistJournal(t)
    BY <2>5, ResetToolSteps DEF ResetReaches, ToolBecomes, Reset!LockTables, Reset!Capture,
    Reset!PersistJournal, Reset!At
  <2>6. CASE Reset!LoseConnection(t)
    BY <2>6, ResetToolSteps DEF ToolBecomes
  <2>7. CASE Reset!BeginReset(t)
    BY <2>7, ResetToolSteps DEF ToolBecomes
  <2>8. CASE \/ (\E a \in Reset!Attempt : Reset!Finish(t, a)) \/ Reset!ListBlobs(t) \/ Reset!Fail(t)
             \/ Reset!Clear(t) \/ (\E i \in Item : Reset!RemoveBlob(t, i))
                  \/ Reset!PersistReceipt(t) \/ Reset!LiftFence(t)
    BY <2>8, ResetToolSteps DEF ResetReaches, Ends, ToolBecomes
  <2> QED
    BY <2>3, <2>4, <2>5, <2>6, <2>7, <2>8 DEF ToolOnly
<1> QED
  BY <1>1, <1>2

\* The files of the operator and the attempts, step by step.
LEMMA FileSteps ==
  ASSUME [Reset!Next]_(Reset!vars)
  PROVE  \/ UNCHANGED <<attempts, journal, archive, receipt>>
         \/ \E t \in Tool : Reset!BeginReset(t) \/ Reset!Capture(t) \/ Reset!PersistJournal(t)
              \/ Reset!PersistReceipt(t)
<1>1. ASSUME NEW t \in Tool,
             ToolOnly(t) \/ Reset!Clear(t) \/ (\E i \in Item : Reset!RemoveBlob(t, i))
               \/ Reset!LiftFence(t)
      PROVE  UNCHANGED <<attempts, journal, archive, receipt>>
  BY <1>1, ResetFrames DEF Reset!Clear, Reset!RemoveBlob, Reset!LiftFence, Reset!files, Reset!ghosts
<1>2. ASSUME NEW s \in Server, ServerOnly(s) \/ (\E i \in Item : Reset!WriteBlob(s, i))
               \/ Reset!CommitRow(s)
      PROVE  UNCHANGED <<attempts, journal, archive, receipt>>
  BY <1>2, ResetFrames DEF Reset!WriteBlob, Reset!CommitRow, Reset!files, Reset!ghosts
<1>3. OwnerStep \/ UNCHANGED Reset!vars => UNCHANGED <<attempts, journal, archive, receipt>>
  BY ResetFrames DEF Reset!vars, Reset!files, Reset!ghosts
<1> QED
  BY <1>1, <1>2, <1>3, ResetStepCases

\* A reset begins with an attempt that nobody has used.
LEMMA OwnStep ==
  ASSUME ResetTyped, AttemptsAreOwn, AttemptsAreCurrent, [Reset!Next]_(Reset!vars)
  PROVE  AttemptsAreOwn'
<1> USE DEF ResetTyped
<1>1. ASSUME NEW t \in Tool, NEW u \in Tool, t # u, Reset!BeginReset(t), tool'[u].at \in Early,
             attempts[tool'[t].attempt] = 0
      PROVE  tool'[t].attempt # tool'[u].attempt
  <2>1. tool'[u] = tool[u]
    BY <1>1, ResetToolSteps DEF ToolBecomes
  <2> QED
    BY <1>1, <2>1 DEF AttemptsAreCurrent
<1>2. SUFFICES ASSUME NEW t \in Tool, NEW u \in Tool, t # u,
                      tool'[t].at \in Early, tool'[u].at \in Early
               PROVE  tool'[t].attempt # tool'[u].attempt
  BY DEF AttemptsAreOwn
<1>3. CASE Reset!BeginReset(t) /\ attempts[tool'[t].attempt] = 0
  BY <1>1, <1>2, <1>3
<1>4. CASE Reset!BeginReset(u) /\ attempts[tool'[u].attempt] = 0
  BY <1>1, <1>2, <1>4
<1>5. CASE /\ tool[t].at \in Early /\ tool'[t].attempt = tool[t].attempt
           /\ tool[u].at \in Early /\ tool'[u].attempt = tool[u].attempt
  BY <1>2, <1>5 DEF AttemptsAreOwn
<1> QED
  BY <1>2, <1>3, <1>4, <1>5, EarlySteps

\* An attempt stays current: generation and fence change only under the lock, by the tool
\* that holds it, which is early no more.
LEMMA CurrentStep ==
  ASSUME ResetTyped, OneHolder, AttemptsAreOwn, AttemptsAreCurrent, AttemptsArePast,
         [Reset!Next]_(Reset!vars)
  PROVE  AttemptsAreCurrent'
<1> USE DEF ResetTyped
<1>1. SUFFICES ASSUME NEW t \in Tool, tool'[t].at \in Early
               PROVE  /\ attempts'[tool'[t].attempt] # 0
                      /\ tool'[t].attempt \in journal' <=> tool'[t].at = "journaled"
                      /\ tool'[t].holds =>
                           attempts'[tool'[t].attempt] = reign' /\ pending' = None
  BY DEF AttemptsAreCurrent
<1>2. reign \in Nat \ {0} /\ attempts \in [Reset!Attempt -> Nat] /\ journal \subseteq Reset!Attempt
  BY DEF ResetDataOK
<1>3. CASE /\ Reset!BeginReset(t) /\ tool'[t].at = "begun"
           /\ tool'[t].attempt \in Reset!Attempt /\ attempts[tool'[t].attempt] = 0
           /\ attempts' = [attempts EXCEPT ![tool'[t].attempt] = reign]
  <2>1. UNCHANGED <<journal, reign, pending>> /\ pending = None
    BY <1>3 DEF Reset!BeginReset, Reset!Available, Reset!files, Reset!database
  <2> QED
    BY <1>2, <1>3, <2>1 DEF AttemptsArePast
<1>4. CASE /\ tool[t].at \in Early /\ tool'[t].attempt = tool[t].attempt
           /\ tool'[t].holds => tool[t].holds
           /\ tool'[t].at = tool[t].at \/ Reset!LockTables(t) \/ Reset!Capture(t)
                \/ Reset!PersistJournal(t)
  <2> DEFINE a == tool[t].attempt
  <2>1. a \in Reset!Attempt /\ attempts[a] # 0
    BY <1>4 DEF ResetToolsOK, Early, AttemptsAreCurrent
  <2>2. attempts'[a] = attempts[a]
    <3>1. ASSUME NEW u \in Tool, Reset!BeginReset(u) PROVE attempts'[a] = attempts[a]
      <4>1. PICK b \in Reset!Attempt : attempts[b] = 0 /\ attempts' = [attempts EXCEPT ![b] = reign]
        BY <3>1, ResetToolSteps
      <4> QED
        BY <1>2, <2>1, <4>1
    <3>2. ASSUME NEW u \in Tool, Reset!Capture(u) \/ Reset!PersistJournal(u)
                   \/ Reset!PersistReceipt(u)
          PROVE  attempts' = attempts
      BY <3>2 DEF Reset!Capture, Reset!PersistJournal, Reset!PersistReceipt, Reset!ghosts
    <3> QED
      BY <3>1, <3>2, FileSteps
  <2>3. a \in journal' <=> tool'[t].at = "journaled"
    <3>1. CASE Reset!PersistJournal(t)
      BY <3>1, ResetToolSteps DEF Reset!PersistJournal, ResetReaches, ToolBecomes
    <3>2. CASE ~Reset!PersistJournal(t)
      <4>1. tool'[t].at = "journaled" <=> tool[t].at = "journaled"
        BY <1>4, <3>2, ResetToolSteps DEF ResetReaches, ToolBecomes, Reset!LockTables,
        Reset!Capture, Reset!At
      <4>2. ASSUME NEW u \in Tool, Reset!PersistJournal(u) PROVE a \in journal' <=> a \in journal
        <5>1. u # t /\ tool[u].at \in Early
          BY <3>2, <4>2 DEF Reset!PersistJournal, Reset!At, Early
        <5>2. tool[u].attempt # a
          BY <1>4, <5>1 DEF AttemptsAreOwn
        <5> QED
          BY <4>2, <5>2 DEF Reset!PersistJournal
      <4>3. ASSUME NEW u \in Tool, Reset!BeginReset(u) \/ Reset!Capture(u)
                     \/ Reset!PersistReceipt(u)
            PROVE  journal' = journal
        BY <4>3 DEF Reset!BeginReset, Reset!Capture, Reset!PersistReceipt, Reset!files
      <4>4. a \in journal' <=> a \in journal
        BY <4>2, <4>3, FileSteps
      <4> QED
        BY <1>4, <4>1, <4>4 DEF AttemptsAreCurrent
    <3> QED
      BY <3>1, <3>2
  <2>4. ASSUME tool'[t].holds PROVE attempts'[a] = reign' /\ pending' = None
    <3>1. tool[t].holds /\ attempts[a] = reign /\ pending = None
      BY <1>4, <2>4 DEF AttemptsAreCurrent
    <3>2. ASSUME NEW u \in Tool, Reset!Clear(u) \/ Reset!LiftFence(u) PROVE FALSE
      <4>1. u = t
        BY <3>1, <3>2 DEF OneHolder, Reset!Clear, Reset!LiftFence
      <4> QED
        BY <1>1, <3>2, <4>1, ResetToolSteps DEF ResetReaches, Ends, ToolBecomes, Early
    <3> QED
      BY <2>2, <3>1, <3>2, FenceSteps
  <2> QED
    BY <1>4, <2>1, <2>2, <2>3, <2>4
<1> QED
  BY <1>1, <1>3, <1>4, EarlySteps

\* Attempts do not run ahead of the generation, and journaled ones have an archive.
LEMMA PastStep ==
  ASSUME ResetTyped, ResetNoneIsApart, CapturedIsAll, AttemptsAreCurrent, AttemptsArePast,
         [Reset!Next]_(Reset!vars)
  PROVE  AttemptsArePast'
<1> USE DEF ResetTyped
<1>1. reign \in Nat \ {0} /\ attempts \in [Reset!Attempt -> Nat] /\ journal \subseteq Reset!Attempt
  BY DEF ResetDataOK
<1>2. reign' \in Nat /\ reign' >= reign
  <2>1. ASSUME NEW t \in Tool, Reset!Clear(t) \/ Reset!LiftFence(t)
        PROVE  reign' = reign \/ reign' = reign + 1
    BY <2>1 DEF Reset!Clear, Reset!LiftFence
  <2>2. reign' = reign \/ reign' = reign + 1
    BY <2>1, FenceSteps
  <2> QED
    BY <1>1, <2>2
<1>3. CASE UNCHANGED <<attempts, journal, archive, receipt>>
  BY <1>1, <1>2, <1>3 DEF AttemptsArePast
<1>4. ASSUME NEW t \in Tool, Reset!BeginReset(t) PROVE AttemptsArePast'
  <2>1. PICK b \in Reset!Attempt : attempts[b] = 0 /\ attempts' = [attempts EXCEPT ![b] = reign]
    BY <1>4, ResetToolSteps
  <2>2. UNCHANGED <<journal, archive>>
    BY <1>4 DEF Reset!BeginReset, Reset!files
  <2> QED
    BY <1>1, <1>2, <2>1, <2>2 DEF AttemptsArePast
<1>5. ASSUME NEW t \in Tool, Reset!Capture(t) PROVE AttemptsArePast'
  <2>1. UNCHANGED <<journal, attempts>> /\ archive' = [archive EXCEPT ![tool[t].attempt] = rows]
    BY <1>5 DEF Reset!Capture, Reset!ghosts
  <2>2. rows # None
    BY DEF ResetDataOK, ResetNoneIsApart
  <2>3. archive \in [Reset!Attempt -> (SUBSET Item) \cup {None}]
    BY DEF ResetDataOK
  <2> QED
    BY <1>1, <1>2, <2>1, <2>2, <2>3 DEF AttemptsArePast
<1>6. ASSUME NEW t \in Tool, Reset!PersistJournal(t) PROVE AttemptsArePast'
  <2>1. UNCHANGED <<attempts, archive>> /\ journal' = journal \cup {tool[t].attempt}
    BY <1>6 DEF Reset!PersistJournal, Reset!ghosts
  <2>2. archive[tool[t].attempt] # None /\ attempts[tool[t].attempt] # 0
    BY <1>6 DEF CapturedIsAll, AttemptsAreCurrent, Reset!PersistJournal, Reset!At, Early
  <2> QED
    BY <1>1, <1>2, <2>1, <2>2 DEF AttemptsArePast
<1>7. ASSUME NEW t \in Tool, Reset!PersistReceipt(t) PROVE AttemptsArePast'
  BY <1>1, <1>2, <1>7 DEF Reset!PersistReceipt, AttemptsArePast, Reset!ghosts
<1> QED
  BY <1>3, <1>4, <1>5, <1>6, <1>7, FileSteps

\* What a step leaves of the files: nothing that was written is taken back.
LEMMA FilesGrow ==
  ASSUME ResetTyped, ResetNoneIsApart, AttemptsAreCurrent, [Reset!Next]_(Reset!vars)
  PROVE  /\ journal \subseteq journal' /\ receipt \subseteq receipt'
         /\ \A a \in Reset!Attempt : attempts[a] # 0 => attempts'[a] = attempts[a]
         /\ \A a \in Reset!Attempt : archive[a] # None => archive'[a] # None
         /\ \A a \in journal : archive'[a] = archive[a]
<1> USE DEF ResetTyped
<1>1. attempts \in [Reset!Attempt -> Nat]
      /\ archive \in [Reset!Attempt -> (SUBSET Item) \cup {None}]
      /\ journal \subseteq Reset!Attempt
  BY DEF ResetDataOK
<1>2. CASE UNCHANGED <<attempts, journal, archive, receipt>>
  BY <1>2
<1>3. ASSUME NEW t \in Tool, Reset!BeginReset(t)
      PROVE  /\ UNCHANGED <<journal, archive, receipt>>
             /\ \A a \in Reset!Attempt : attempts[a] # 0 => attempts'[a] = attempts[a]
  <2>1. PICK b \in Reset!Attempt : attempts[b] = 0 /\ attempts' = [attempts EXCEPT ![b] = reign]
    BY <1>3, ResetToolSteps
  <2> QED
    BY <1>1, <1>3, <2>1 DEF Reset!BeginReset, Reset!files
<1>4. ASSUME NEW t \in Tool, Reset!Capture(t)
      PROVE  /\ UNCHANGED <<journal, attempts, receipt>>
             /\ \A a \in Reset!Attempt : archive[a] # None => archive'[a] # None
             /\ \A a \in journal : archive'[a] = archive[a]
  <2>1. archive' = [archive EXCEPT ![tool[t].attempt] = rows]
        /\ UNCHANGED <<journal, attempts, receipt>>
    BY <1>4 DEF Reset!Capture, Reset!ghosts
  <2>2. rows # None
    BY DEF ResetDataOK, ResetNoneIsApart
  <2>3. tool[t].attempt \notin journal
    BY <1>4 DEF Reset!Capture, Reset!At, Early, AttemptsAreCurrent
  <2> QED
    BY <1>1, <2>1, <2>2, <2>3
<1>5. ASSUME NEW t \in Tool, Reset!PersistJournal(t) \/ Reset!PersistReceipt(t)
      PROVE  /\ UNCHANGED <<attempts, archive>>
             /\ journal \subseteq journal' /\ receipt \subseteq receipt'
  BY <1>5 DEF Reset!PersistJournal, Reset!PersistReceipt, Reset!ghosts
<1> QED
  BY <1>2, <1>3, <1>4, <1>5, FileSteps

\* Nobody commits a row between the capture and the clearing, and no other tool writes
\* this archive.
LEMMA ResetCapturedStep ==
  ASSUME ResetTyped, ResetNoneIsApart, OneHolder, ResetIsAlone, AttemptsAreOwn, CapturedIsAll,
         [Reset!Next]_(Reset!vars)
  PROVE  CapturedIsAll'
<1> USE DEF ResetTyped
<1>1. SUFFICES ASSUME NEW t \in Tool, tool'[t].at \in {"captured", "journaled"}
               PROVE  /\ archive'[tool'[t].attempt] # None
                      /\ tool'[t].holds => archive'[tool'[t].attempt] = rows'
  BY DEF CapturedIsAll
<1> DEFINE a == tool[t].attempt
<1>2. /\ tool[t].at \in Early /\ tool'[t].attempt = a
      /\ tool'[t].holds => tool[t].holds
      /\ tool'[t].at = tool[t].at \/ Reset!LockTables(t) \/ Reset!Capture(t)
           \/ Reset!PersistJournal(t)
  BY <1>1, EarlySteps DEF Early
<1>3. a \in Reset!Attempt
  BY <1>2 DEF ResetToolsOK, Early
<1>4. archive \in [Reset!Attempt -> (SUBSET Item) \cup {None}] /\ rows # None
  BY DEF ResetDataOK, ResetNoneIsApart
<1>5. CASE Reset!Capture(t)
  <2>1. archive' = [archive EXCEPT ![a] = rows] /\ rows' = rows
    BY <1>5 DEF Reset!Capture, Reset!database
  <2> QED
    BY <1>2, <1>3, <1>4, <2>1
<1>6. CASE ~Reset!Capture(t)
  <2>1. tool[t].at \in {"captured", "journaled"}
    BY <1>1, <1>2, <1>6, ResetToolSteps DEF ResetReaches, ToolBecomes, Reset!PersistJournal,
    Reset!At
  <2>2. archive[a] # None /\ (tool[t].holds => archive[a] = rows)
    BY <2>1 DEF CapturedIsAll
  <2>3. archive'[a] = archive[a]
    <3>1. ASSUME NEW u \in Tool, Reset!Capture(u) PROVE archive'[a] = archive[a]
      <4>1. u # t /\ tool[u].at \in Early
        BY <1>6, <3>1 DEF Reset!Capture, Reset!At, Early
      <4>2. tool[u].attempt # a
        BY <1>2, <4>1 DEF AttemptsAreOwn
      <4>3. archive' = [archive EXCEPT ![tool[u].attempt] = rows]
        BY <3>1 DEF Reset!Capture
      <4> QED
        BY <1>3, <1>4, <4>2, <4>3
    <3>2. ASSUME NEW u \in Tool, Reset!BeginReset(u) \/ Reset!PersistJournal(u)
                   \/ Reset!PersistReceipt(u)
          PROVE  archive' = archive
      BY <3>2 DEF Reset!BeginReset, Reset!PersistJournal, Reset!PersistReceipt, Reset!files
    <3> QED
      BY <3>1, <3>2, FileSteps
  <2>4. ASSUME tool'[t].holds PROVE rows' = rows
    <3>1. tool[t].holds
      BY <1>2, <2>4
    <3>2. ASSUME NEW s \in Server, Reset!CommitRow(s) PROVE FALSE
      BY <2>1, <3>1, <3>2 DEF Reset!CommitRow, Reset!Writing, ResetIsAlone, Reset!InReset
    <3>3. ASSUME NEW u \in Tool, Reset!Clear(u) PROVE FALSE
      <4>1. u = t
        BY <3>1, <3>3 DEF Reset!Clear, OneHolder
      <4> QED
        BY <1>1, <3>3, <4>1, ResetToolSteps DEF ResetReaches, Ends, ToolBecomes
    <3>4. ASSUME NEW s \in Server, NEW i \in Item, Reset!WriteBlob(s, i) PROVE rows' = rows
      BY <3>4 DEF Reset!WriteBlob, Reset!database
    <3>5. ASSUME NEW u \in Tool, NEW i \in Item, Reset!RemoveBlob(u, i) PROVE rows' = rows
      BY <3>5 DEF Reset!RemoveBlob, Reset!database
    <3> QED
      BY <3>2, <3>3, <3>4, <3>5, StoreSteps
  <2> QED
    BY <1>2, <2>2, <2>3, <2>4
<1> QED
  BY <1>5, <1>6

\* Who removes blobs after a step did so before it, or has just listed them.
LEMMA RemovalSteps ==
  ASSUME ResetTyped, NEW t \in Tool, [Reset!Next]_(Reset!vars),
         tool'[t].at \in {"remove", "receipt"}
  PROVE  /\ tool'[t].attempt = tool[t].attempt
         /\ tool'[t].holds => tool[t].holds
         /\ \/ Reset!ListBlobs(t) /\ tool'[t].at = "remove"
            \/ /\ tool[t].at \in {"remove", "receipt"}
               /\ tool'[t].at = tool[t].at \/ Reset!PersistReceipt(t)
<1> USE DEF ResetTyped
<1>1. CASE tool'[t] = tool[t]
  BY <1>1
<1>2. CASE tool'[t] # tool[t]
  <2>1. tool' # tool /\ ~OwnerStep /\ ~UNCHANGED Reset!vars
    BY <1>2, ResetFrames DEF Reset!vars
  <2>2. ASSUME NEW s \in Server, ServerOnly(s) \/ (\E i \in Item : Reset!WriteBlob(s, i))
                 \/ Reset!CommitRow(s)
        PROVE  FALSE
    BY <2>1, <2>2, ResetFrames DEF Reset!WriteBlob, Reset!CommitRow
  <2>3. PICK u \in Tool :
          \/ ToolOnly(u) \/ Reset!BeginReset(u) \/ Reset!Capture(u) \/ Reset!PersistJournal(u)
               \/ Reset!Clear(u)
          \/ (\E i \in Item : Reset!RemoveBlob(u, i)) \/ Reset!PersistReceipt(u)
               \/ Reset!LiftFence(u)
    BY <2>1, <2>2, ResetStepCases
  <2>4. u = t
    BY <1>2, <2>3, ResetToolSteps DEF ToolOnly, ResetReaches, Ends, ToolBecomes
  <2>5. CASE Reset!ListBlobs(t)
    BY <2>5, ResetToolSteps DEF ResetReaches, ToolBecomes
  <2>6. CASE Reset!LoseConnection(t)
    BY <2>6, ResetToolSteps DEF ToolBecomes
  <2>7. ASSUME NEW i \in Item, Reset!RemoveBlob(t, i)
        PROVE  tool[t].at = "remove" /\ (ResetReaches(t, "remove") \/ Ends(t))
    BY <2>7, ResetToolSteps DEF Reset!RemoveBlob, Reset!At
  <2>8. CASE Reset!PersistReceipt(t)
    BY <2>8, ResetToolSteps DEF ResetReaches, ToolBecomes, Reset!PersistReceipt, Reset!Removed,
    Reset!At
  <2>9. CASE \/ (\E a \in Reset!Attempt : Reset!Finish(t, a)) \/ Reset!LockTables(t)
                  \/ Reset!Fail(t) \/ Reset!BeginReset(t)
             \/ Reset!Clear(t) \/ Reset!Capture(t) \/ Reset!PersistJournal(t) \/ Reset!LiftFence(t)
    BY <2>9, ResetToolSteps DEF ResetReaches, Ends, ToolBecomes
  <2>10. CASE \E i \in Item : Reset!RemoveBlob(t, i)
    BY <2>7, <2>10 DEF ResetReaches, Ends, ToolBecomes
  <2> QED
    BY <2>3, <2>4, <2>5, <2>6, <2>8, <2>9, <2>10 DEF ToolOnly
<1> QED
  BY <1>1, <1>2

\* Who removes with the lock keeps its fence: nobody else can lift it.
LEMMA RemovalStep ==
  ASSUME ResetTyped, ResetNoneIsApart, OneHolder, AttemptsAreCurrent, RemovalIsFenced,
         [Reset!Next]_(Reset!vars)
  PROVE  RemovalIsFenced'
<1> USE DEF ResetTyped
<1>1. SUFFICES ASSUME NEW t \in Tool, tool'[t].at \in {"remove", "receipt"}
               PROVE  /\ archive'[tool'[t].attempt] # None
                      /\ tool'[t].at = "receipt" => tool'[t].attempt \in receipt'
                      /\ tool'[t].holds => pending' = tool'[t].attempt
  BY DEF RemovalIsFenced
<1> DEFINE a == tool[t].attempt
<1>2. /\ tool'[t].attempt = a
      /\ tool'[t].holds => tool[t].holds
      /\ \/ Reset!ListBlobs(t) /\ tool'[t].at = "remove"
         \/ /\ tool[t].at \in {"remove", "receipt"}
            /\ tool'[t].at = tool[t].at \/ Reset!PersistReceipt(t)
  BY <1>1, RemovalSteps
<1>3. a \in Reset!Attempt
  BY <1>2 DEF ResetToolsOK, Reset!ListBlobs, Reset!At
<1>4. archive[a] # None /\ (tool[t].holds => pending = a)
  BY <1>2 DEF Reset!ListBlobs, Reset!IsPending, RemovalIsFenced
<1>5. archive'[a] # None
  BY <1>3, <1>4, FilesGrow
<1>6. tool'[t].at = "receipt" => a \in receipt'
  <2>1. Reset!PersistReceipt(t) => a \in receipt'
    BY DEF Reset!PersistReceipt
  <2>2. tool[t].at = "receipt" => a \in receipt'
    BY FilesGrow DEF RemovalIsFenced
  <2> QED
    BY <1>2, <2>1, <2>2
<1>7. ASSUME tool'[t].holds PROVE pending' = a
  <2>1. ASSUME NEW u \in Tool, Reset!Clear(u) \/ Reset!LiftFence(u) PROVE FALSE
    <3>1. u = t
      BY <1>2, <1>7, <2>1 DEF Reset!Clear, Reset!LiftFence, OneHolder
    <3> QED
      BY <1>1, <2>1, <3>1, ResetToolSteps DEF ResetReaches, Ends, ToolBecomes
  <2> QED
    BY <1>2, <1>4, <1>7, <2>1, FenceSteps
<1> QED
  BY <1>2, <1>5, <1>6, <1>7

\* What is said of the past: only the fence's two steps write it.
LEMMA PastSteps ==
  ASSUME [Reset!Next]_(Reset!vars)
  PROVE  \/ UNCHANGED <<reign, pending, cleared, completed>>
         \/ \E t \in Tool : Reset!Clear(t) \/ Reset!LiftFence(t)
<1>1. ASSUME NEW t \in Tool, \/ ToolOnly(t) \/ Reset!BeginReset(t) \/ Reset!Capture(t)
               \/ Reset!PersistJournal(t)
                             \/ (\E i \in Item : Reset!RemoveBlob(t, i)) \/ Reset!PersistReceipt(t)
      PROVE  UNCHANGED <<reign, pending, cleared, completed>>
  BY <1>1, ResetFrames DEF Reset!BeginReset, Reset!Capture, Reset!PersistJournal, Reset!RemoveBlob,
  Reset!PersistReceipt, Reset!database
<1>2. ASSUME NEW s \in Server, ServerOnly(s) \/ (\E i \in Item : Reset!WriteBlob(s, i))
               \/ Reset!CommitRow(s)
      PROVE  UNCHANGED <<reign, pending, cleared, completed>>
  BY <1>2, ResetFrames DEF Reset!WriteBlob, Reset!CommitRow, Reset!database
<1>3. OwnerStep \/ UNCHANGED Reset!vars => UNCHANGED <<reign, pending, cleared, completed>>
  BY ResetFrames DEF Reset!vars, Reset!database
<1> QED
  BY <1>1, <1>2, <1>3, ResetStepCases

\* What ended keeps its receipt and its archive; what is cleared now had not ended.
LEMMA CompletedStep ==
  ASSUME ResetTyped, ResetNoneIsApart, AttemptsAreCurrent, CapturedIsAll, RemovalIsFenced,
         CompletedIsPast,
         [Reset!Next]_(Reset!vars)
  PROVE  CompletedIsPast'
<1> USE DEF ResetTyped
<1>1. /\ reign \in Nat \ {0} /\ attempts \in [Reset!Attempt -> Nat]
         /\ completed \subseteq Reset!Attempt
      /\ pending # None => pending \in Reset!Attempt
  BY DEF ResetDataOK
<1>2. ASSUME NEW a \in Reset!Attempt, attempts[a] # 0, attempts[a] < reign,
             reign' \in {reign, reign + 1}
      PROVE  attempts'[a] # 0 /\ attempts'[a] < reign'
  BY <1>1, <1>2, FilesGrow
<1>3. CASE UNCHANGED <<reign, pending, cleared, completed>>
  <2>1. \A a \in completed : attempts'[a] # 0 /\ attempts'[a] < reign'
                            /\ a \in receipt' /\ archive'[a] # None
    BY <1>1, <1>2, <1>3, FilesGrow DEF CompletedIsPast
  <2>2. pending # None => attempts'[pending] # 0 /\ attempts'[pending] < reign'
    BY <1>1, <1>2, <1>3 DEF CompletedIsPast
  <2> QED
    BY <1>3, <2>1, <2>2 DEF CompletedIsPast
<1>4. ASSUME NEW t \in Tool, Reset!Clear(t) PROVE CompletedIsPast'
  <2> DEFINE a == tool[t].attempt
  <2>1. /\ tool[t].at = "journaled" /\ tool[t].holds /\ reign' = reign + 1
        /\ pending' = a /\ completed' = completed /\ UNCHANGED <<attempts, archive, receipt>>
    BY <1>4 DEF Reset!Clear, Reset!At, Reset!files, Reset!ghosts
  <2>2. a \in Reset!Attempt /\ attempts[a] = reign
    BY <2>1 DEF ResetToolsOK, AttemptsAreCurrent, Early
  <2>3. a \notin completed
    BY <1>1, <2>2 DEF CompletedIsPast
  <2>4. \A b \in completed : attempts[b] # 0 /\ attempts[b] < reign + 1
                            /\ b \in receipt /\ archive[b] # None
    BY <1>1 DEF CompletedIsPast
  <2>5. attempts[a] # 0 /\ attempts[a] < reign + 1
    BY <1>1, <2>2
  <2> QED
    BY <2>1, <2>3, <2>4, <2>5 DEF CompletedIsPast
<1>5. ASSUME NEW t \in Tool, Reset!LiftFence(t) PROVE CompletedIsPast'
  <2> DEFINE a == tool[t].attempt
  <2>1. /\ tool[t].at = "receipt" /\ pending = a /\ pending' = None
        /\ completed' = completed \cup {a}
        /\ UNCHANGED <<reign, attempts, archive, receipt>>
    BY <1>5 DEF Reset!LiftFence, Reset!At, Reset!files, Reset!ghosts
  <2>2. a # None
    BY <2>1 DEF ResetToolsOK, ResetNoneIsApart
  <2>3. a \in receipt /\ archive[a] # None
    BY <2>1 DEF RemovalIsFenced
  <2> QED
    BY <2>1, <2>2, <2>3 DEF CompletedIsPast
<1> QED
  BY <1>3, <1>4, <1>5, PastSteps

\* Clearing adds a generation and a fence, lifting the fence an attempt that ended.
LEMMA BalancedStep ==
  ASSUME ResetSizes, ResetTyped, ResetNoneIsApart, AttemptsAreCurrent, CompletedIsPast, Balanced,
         [Reset!Next]_(Reset!vars)
  PROVE  Balanced'
<1> USE DEF ResetTyped
<1>1. reign \in Nat \ {0} /\ completed \subseteq Reset!Attempt /\ MaxAttempts \in Nat
  BY DEF ResetDataOK, ResetSizes
<1>2. IsFiniteSet(completed) /\ IsFiniteSet(cleared)
  <2>1. IsFiniteSet(Reset!Attempt) /\ IsFiniteSet(1..(reign - 1))
    BY <1>1, FS_Interval
  <2> QED
    BY <1>1, <2>1, FS_Subset DEF Balanced
<1>3. Cardinality(completed) \in Nat
  BY <1>2, FS_CardinalityType
<1>4. CASE UNCHANGED <<reign, pending, cleared, completed>>
  BY <1>4 DEF Balanced
<1>5. ASSUME NEW t \in Tool, Reset!Clear(t) PROVE Balanced'
  <2>1. /\ tool[t].at = "journaled" /\ tool[t].holds /\ reign' = reign + 1
        /\ pending' = tool[t].attempt /\ completed' = completed
        /\ cleared' = cleared \cup {reign}
    BY <1>5 DEF Reset!Clear, Reset!At
  <2>2. pending = None /\ pending' # None
    BY <2>1 DEF AttemptsAreCurrent, Early, ResetToolsOK, ResetNoneIsApart
  <2>3. cleared' = 1..(reign' - 1) /\ reign \notin cleared
    BY <1>1, <2>1 DEF Balanced
  <2>4. Cardinality(cleared') = Cardinality(cleared) + 1
    BY <1>2, <2>1, <2>3, FS_AddElement
  <2>5. Cardinality(cleared) = Cardinality(completed)
    BY <1>3, <2>2 DEF Balanced
  <2> QED
    BY <1>3, <2>1, <2>2, <2>3, <2>4, <2>5 DEF Balanced
<1>6. ASSUME NEW t \in Tool, Reset!LiftFence(t) PROVE Balanced'
  <2>1. /\ pending = tool[t].attempt /\ pending' = None /\ UNCHANGED <<reign, cleared>>
        /\ completed' = completed \cup {pending} /\ tool[t].at = "receipt"
    BY <1>6 DEF Reset!LiftFence, Reset!At
  <2>2. pending # None /\ pending \notin completed
    BY <2>1 DEF ResetToolsOK, ResetNoneIsApart, CompletedIsPast
  <2>3. Cardinality(completed') = Cardinality(completed) + 1
    BY <1>2, <2>1, <2>2, FS_AddElement
  <2> QED
    BY <1>3, <2>1, <2>2, <2>3 DEF Balanced
<1> QED
  BY <1>4, <1>5, <1>6, PastSteps

\* A row is committed only while there is no fence, for the generation that is current.
LEMMA CommitIsCurrent ==
  ASSUME ResetTyped, ServersAreOlder, NEW s \in Server, Reset!CommitRow(s)
  PROVE  /\ pending = None /\ UNCHANGED <<reign, pending, blobs, torn>>
         /\ server[s].item \in Item
         /\ rows' = rows \cup {server[s].item}
         /\ acked' = acked \cup {<<reign, server[s].item>>}
<1>1. Reset!Serving(s) /\ server[s].generation = reign /\ reign \in Nat
  BY DEF Reset!CommitRow, ResetTyped, ResetDataOK
<1>2. pending = None
  BY <1>1 DEF ServersAreOlder
<1> QED
  BY <1>2 DEF Reset!CommitRow, Reset!files, ResetTyped, ResetServersOK

\* A commit acknowledges for the present generation, without a fence.
LEMMA AckedStep ==
  ASSUME ResetTyped, ServersAreOlder, AckedIsPast, [Reset!Next]_(Reset!vars) PROVE AckedIsPast'
<1> USE DEF ResetTyped
<1>1. reign \in Nat /\ \A w \in acked : w[1] \in Nat
  BY DEF ResetDataOK
<1>2. ASSUME NEW s \in Server, Reset!CommitRow(s) PROVE AckedIsPast'
  <2>1. acked' = acked \cup {<<reign, server[s].item>>} /\ pending = None
        /\ UNCHANGED <<reign, pending>>
    BY <1>2, CommitIsCurrent
  <2> QED
    BY <1>1, <2>1 DEF AckedIsPast
<1>3. ASSUME NEW t \in Tool, Reset!Clear(t) PROVE AckedIsPast'
  <2>1. reign' = reign + 1 /\ acked' = acked
    BY <1>3 DEF Reset!Clear, Reset!ghosts
  <2>2. \A w \in acked : w[1] < reign + 1
    BY <1>1 DEF AckedIsPast
  <2>3. \A w \in acked : w[1] <= reign + 1
    BY <1>1, <2>2
  <2> QED
    BY <2>1, <2>2, <2>3 DEF AckedIsPast
<1>4. ASSUME NEW t \in Tool, Reset!LiftFence(t) PROVE AckedIsPast'
  BY <1>4 DEF Reset!LiftFence, AckedIsPast, Reset!ghosts
<1>5. CASE UNCHANGED <<reign, pending>> /\ UNCHANGED acked
  BY <1>5 DEF AckedIsPast
<1>6. ASSUME UNCHANGED <<reign, pending>>, ~UNCHANGED acked
      PROVE  \E s \in Server : Reset!CommitRow(s)
  <2>1. \A s \in Server : \A i \in Item : Reset!WriteBlob(s, i) => UNCHANGED acked
    BY DEF Reset!WriteBlob, Reset!ghosts
  <2>2. \A t \in Tool : Reset!Clear(t) \/ (\E i \in Item : Reset!RemoveBlob(t, i))
          => UNCHANGED acked
    BY DEF Reset!Clear, Reset!RemoveBlob, Reset!ghosts
  <2> QED
    BY <1>6, <2>1, <2>2, StoreSteps
<1> QED
  BY <1>2, <1>3, <1>4, <1>5, <1>6, FenceSteps

\* Clearing moves the present generation into the archive; nothing else takes a row, and
\* no journaled archive is written again.
LEMMA LostStep ==
  ASSUME ResetIInv, ResetNoneIsApart, [Reset!Next]_(Reset!vars) PROVE Reset!NothingLost'
<1> USE DEF ResetIInv, ResetTyped
<1>1. /\ reign \in Nat /\ attempts \in [Reset!Attempt -> Nat] /\ journal \subseteq Reset!Attempt
      /\ \A w \in acked : w[1] \in Nat /\ w[1] <= reign
  BY DEF ResetDataOK, AckedIsPast
<1>2. ASSUME NEW g, NEW i, Reset!Archived(g, i) PROVE Reset!Archived(g, i)'
  <2>1. PICK a \in journal : attempts[a] = g /\ archive[a] # None /\ i \in archive[a]
    BY <1>2 DEF Reset!Archived
  <2>2. a \in journal' /\ attempts'[a] = g /\ archive'[a] = archive[a]
    BY <1>1, <2>1, FilesGrow DEF AttemptsArePast
  <2> QED
    BY <2>1, <2>2 DEF Reset!Archived
<1>3. ASSUME NEW t \in Tool, Reset!Clear(t), NEW w \in acked, w[1] = reign
      PROVE  Reset!Archived(w[1], w[2])
  <2> DEFINE a == tool[t].attempt
  <2>1. tool[t].at = "journaled" /\ tool[t].holds
    BY <1>3 DEF Reset!Clear, Reset!At
  <2>2. a \in journal /\ attempts[a] = reign
    BY <2>1 DEF AttemptsAreCurrent, Early
  <2>3. archive[a] # None /\ archive[a] = rows
    BY <2>1 DEF CapturedIsAll
  <2>4. w[2] \in rows
    BY <1>3 DEF Reset!NothingLost, Reset!Kept
  <2> QED
    BY <1>3, <2>2, <2>3, <2>4 DEF Reset!Archived
<1>4. ASSUME NEW t \in Tool, Reset!Clear(t) PROVE Reset!NothingLost'
  <2>1. reign' = reign + 1 /\ acked' = acked
    BY <1>4 DEF Reset!Clear, Reset!ghosts
  <2>2. \A w \in acked : Reset!Archived(w[1], w[2])
    BY <1>3, <1>4 DEF Reset!NothingLost
  <2>3. \A w \in acked : Reset!Archived(w[1], w[2])' /\ w[1] # reign + 1
    BY <1>1, <1>2, <2>2
  <2> QED
    BY <2>1, <2>3 DEF Reset!NothingLost
<1>5. ASSUME UNCHANGED reign, NEW w \in acked
      PROVE  IF w[1] = reign' THEN Reset!Kept(w[2])' ELSE Reset!Archived(w[1], w[2])'
  <2>1. CASE w[1] = reign
    <3>1. pending = None
      BY <1>1, <2>1 DEF AckedIsPast
    <3>2. Reset!Kept(w[2]) /\ blobs \cup torn \subseteq blobs' \cup torn'
      BY <2>1, <3>1, BlobsStay DEF Reset!NothingLost
    <3>3. rows \subseteq rows'
      <4>1. ASSUME NEW t \in Tool, Reset!Clear(t) PROVE FALSE
        BY <1>1, <1>5, <4>1 DEF Reset!Clear
      <4>2. ASSUME NEW t \in Tool, NEW i \in Item, Reset!RemoveBlob(t, i) PROVE rows' = rows
        BY <4>2 DEF Reset!RemoveBlob, Reset!database
      <4>3. ASSUME NEW s \in Server, NEW i \in Item, Reset!WriteBlob(s, i) PROVE rows' = rows
        BY <4>3 DEF Reset!WriteBlob, Reset!database
      <4>4. \A s \in Server : Reset!CommitRow(s) => rows \subseteq rows'
        BY DEF Reset!CommitRow
      <4> QED
        BY <4>1, <4>2, <4>3, <4>4, StoreSteps
    <3>4. Reset!Kept(w[2])'
      BY <3>2, <3>3 DEF Reset!Kept
    <3> QED
      BY <1>5, <2>1, <3>4
  <2>2. CASE w[1] # reign
    BY <1>2, <1>5, <2>2 DEF Reset!NothingLost
  <2> QED
    BY <2>1, <2>2
<1>6. ASSUME NEW s \in Server, Reset!CommitRow(s) PROVE Reset!NothingLost'
  <2>0. PICK i \in Item : server[s].item = i
    BY <1>6, CommitIsCurrent
  <2>1. /\ UNCHANGED <<reign, blobs, torn>>
        /\ acked' = acked \cup {<<reign, i>>} /\ rows' = rows \cup {i}
    BY <1>6, <2>0, CommitIsCurrent
  <2>2. i \in blobs \cup torn
    BY <1>6, <2>0 DEF WrittenIsThere, Reset!CommitRow
  <2>3. Reset!Kept(i)'
    BY <2>1, <2>2 DEF Reset!Kept
  <2> QED
    BY <1>5, <2>1, <2>3 DEF Reset!NothingLost
<1>7. CASE UNCHANGED <<reign, acked>>
  BY <1>5, <1>7 DEF Reset!NothingLost
<1>8. CASE \E t \in Tool : Reset!LiftFence(t)
  BY <1>7, <1>8 DEF Reset!LiftFence, Reset!ghosts
<1>9. ASSUME UNCHANGED reign, ~UNCHANGED acked
      PROVE  \E s \in Server : Reset!CommitRow(s)
  <2>1. \A s \in Server : \A i \in Item : Reset!WriteBlob(s, i) => UNCHANGED acked
    BY DEF Reset!WriteBlob, Reset!ghosts
  <2>2. \A t \in Tool : Reset!Clear(t) \/ (\E i \in Item : Reset!RemoveBlob(t, i))
          => UNCHANGED acked
    BY DEF Reset!Clear, Reset!RemoveBlob, Reset!ghosts
  <2> QED
    BY <1>9, <2>1, <2>2, StoreSteps
<1>10. UNCHANGED reign \/ \E t \in Tool : Reset!Clear(t) \/ Reset!LiftFence(t)
  BY FenceSteps
<1> QED
  BY <1>4, <1>6, <1>7, <1>8, <1>9, <1>10

-----------------------------------------------------------------------------
\* The invariant holds at first and is kept by every step.
LEMMA ResetInvInit == ASSUME ResetSizes, ResetNoneIsApart PROVE Reset!Init => ResetIInv
<1> SUFFICES ASSUME Reset!Init PROVE ResetIInv
  OBVIOUS
<1>1. ResetTyped
  BY ResetTypeInit
<1>2. /\ reign = 1 /\ pending = None /\ cleared = {} /\ completed = {} /\ acked = {}
      /\ journal = {} /\ attempts = [a \in Reset!Attempt |-> 0]
      /\ \A t \in Tool : tool[t].at = "off" /\ tool[t].holds = FALSE
      /\ \A s \in Server : server[s] = Reset!Off
  BY DEF Reset!Init, Reset!Idle
<1> HIDE DEF Reset!Init
<1>3. OneHolder /\ ResetIsAlone /\ AttemptsAreOwn /\ AttemptsAreCurrent /\ CapturedIsAll
      /\ RemovalIsFenced
  BY <1>2 DEF OneHolder, Reset!Exclusive, ResetIsAlone, Reset!InReset, AttemptsAreOwn,
  AttemptsAreCurrent,
              Early, CapturedIsAll, RemovalIsFenced
<1>4. ServersAreOlder /\ WrittenIsThere
  BY <1>2 DEF ServersAreOlder, WrittenIsThere, Reset!Off, Reset!Serving
<1>5. AttemptsArePast /\ CompletedIsPast /\ AckedIsPast /\ Reset!NothingLost
  BY <1>2 DEF AttemptsArePast, CompletedIsPast, AckedIsPast, Reset!NothingLost
<1>6. Balanced
  <2>1. 1..(1 - 1) = {} /\ Cardinality({}) = 0
    BY FS_EmptySet
  <2> QED
    BY <1>2, <2>1 DEF Balanced
<1> QED
  BY <1>1, <1>3, <1>4, <1>5, <1>6 DEF ResetIInv

\* Each conjunct is kept, given the others.
LEMMA ResetInvStep ==
  ASSUME ResetSizes, ResetNoneIsApart
  PROVE ResetIInv /\ [Reset!Next]_(Reset!vars) => ResetIInv'
<1> SUFFICES ASSUME ResetIInv, [Reset!Next]_(Reset!vars) PROVE ResetIInv'
  OBVIOUS
<1>1. ResetTyped'
  BY ResetTypeStep DEF ResetIInv
<1>2. OneHolder' /\ ServersAreOlder' /\ WrittenIsThere' /\ ResetIsAlone'
  BY HolderStep, OlderStep, WrittenStep, AloneStep DEF ResetIInv
<1>3. AttemptsAreOwn' /\ AttemptsAreCurrent' /\ AttemptsArePast'
  BY OwnStep, CurrentStep, PastStep DEF ResetIInv
<1>4. CapturedIsAll' /\ RemovalIsFenced' /\ CompletedIsPast'
  BY ResetCapturedStep, RemovalStep, CompletedStep DEF ResetIInv
<1>5. Balanced' /\ AckedIsPast' /\ Reset!NothingLost'
  BY BalancedStep, AckedStep, LostStep DEF ResetIInv
<1> QED
  BY <1>1, <1>2, <1>3, <1>4, <1>5 DEF ResetIInv

\* There are no more generations than attempts.
LEMMA ResetTypeFollows == ASSUME ResetSizes, ResetNoneIsApart, ResetIInv PROVE Reset!TypeOK
<1> USE DEF ResetIInv, ResetTyped
<1>1. reign \in 1..(MaxAttempts + 1)
  <2>1. /\ reign \in Nat \ {0} /\ MaxAttempts \in Nat /\ completed \subseteq Reset!Attempt
        /\ pending # None => pending \in Reset!Attempt
    BY DEF ResetDataOK, ResetSizes
  <2>2. IsFiniteSet(Reset!Attempt) /\ Cardinality(Reset!Attempt) = MaxAttempts
    BY <2>1, FS_Interval
  <2>3. Cardinality(cleared) = reign - 1
    BY <2>1, FS_Interval DEF Balanced
  <2>4. IsFiniteSet(completed) /\ Cardinality(completed) \in Nat
    BY <2>1, <2>2, FS_Subset, FS_CardinalityType
  <2>5. Cardinality(cleared) <= MaxAttempts
    <3>1. CASE pending = None
      <4>1. Cardinality(completed) <= Cardinality(Reset!Attempt)
        BY <2>1, <2>2, FS_Subset
      <4> QED
        BY <2>2, <2>4, <3>1, <4>1 DEF Balanced
    <3>2. CASE pending # None
      <4>1. pending \notin completed /\ completed \cup {pending} \subseteq Reset!Attempt
        BY <2>1, <3>2 DEF CompletedIsPast
      <4>2. Cardinality(completed \cup {pending}) <= Cardinality(Reset!Attempt)
        BY <2>2, <4>1, FS_Subset
      <4>3. Cardinality(completed \cup {pending}) = Cardinality(completed) + 1
        BY <2>4, <4>1, FS_AddElement
      <4> QED
        BY <2>2, <2>4, <3>2, <4>2, <4>3 DEF Balanced
    <3> QED
      BY <3>1, <3>2
  <2> QED
    BY <2>1, <2>3, <2>5
<1>2. \A a \in Reset!Attempt : archive[a] = None \/ archive[a] \subseteq Item
  BY DEF ResetDataOK
<1>3. \A s \in Server : server[s].state \in {"off", "guarded", "running", "lost"}
  BY DEF ResetServersOK
<1>4. \A t \in Tool : tool[t].left \subseteq Item
  BY DEF ResetToolsOK
<1> QED
  BY <1>1, <1>2, <1>3, <1>4 DEF Reset!TypeOK, ResetDataOK

\* What a client was told is stored is in the instance or, if its generation was cleared,
\* in an archive that a journal names (reset.rs:212, :254): for any crashes, lost
\* connections, servers that outlive their lock and tools that run again.
THEOREM ResetKeepsAll == ASSUME ResetSizes, ResetNoneIsApart PROVE Reset!Spec => []Reset!NothingLost
<1>1. ResetIInv => Reset!NothingLost
  BY DEF ResetIInv
<1> QED
  BY <1>1, ResetInvInit, ResetInvStep, PTL DEF Reset!Spec

\* "Only durable blob cleanup and an external receipt can remove that fence" (reset.rs:1):
\* nobody serves with the lock while the instance is cleared or fenced, and every reset
\* that ended has its receipt and its archive.
THEOREM ResetFences ==
  ASSUME ResetSizes, ResetNoneIsApart
  PROVE Reset!Spec => [](Reset!TypeOK /\ Reset!FencedWhileDirty)
<1>1. ResetIInv => Reset!FencedWhileDirty
  BY ResetCounts DEF ResetIInv, Reset!FencedWhileDirty, OneHolder, ServersAreOlder, CompletedIsPast,
  Balanced
<1>2. ResetIInv => Reset!TypeOK
  BY ResetTypeFollows
<1> QED
  BY <1>1, <1>2, ResetInvInit, ResetInvStep, PTL DEF Reset!Spec
=============================================================================
