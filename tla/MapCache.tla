------------------------------- MODULE MapCache -------------------------------
(* The cache of parsed source maps, and its two copies for dSYMs and R8        *)
(* mappings (sourcemap-resolver, dwarf-resolver, proguard-resolver: cache.rs). *)
(* Threads share it behind a mutex that none of them holds while it parses.    *)
(* Parsing is pure, so that of an entry only its key and its age are kept here. *)
EXTENDS Naturals, FiniteSets
CONSTANTS
  Key,       \* what the maps are kept by: hashes of their contents
  Thread,
  Capacity,  \* a NonZeroUsize: 16 for source maps
  MaxClock,  \* bound
  None

VARIABLES
  held,    \* keys of the entries
  touched, \* Key -> when get or put last found it, or 0
  clock,   \* how many touches there were
  gone,    \* keys that remove and clear took, until they are touched again
  flow     \* Thread -> how far its read-through is, or None
vars == <<held, touched, clock, gone, flow>>

Init ==
  /\ held = {}
  /\ touched = [k \in Key |-> 0]
  /\ clock = 0
  /\ gone = {}
  /\ flow = [t \in Thread |-> None]

-----------------------------------------------------------------------------
(* LruCache: what is touched becomes the most recent; a new key that finds    *)
(* the cache full takes the place of the least recent one.                    *)
Touch(k) ==
  /\ clock < MaxClock /\ clock' = clock + 1
  /\ touched' = [touched EXCEPT ![k] = clock + 1]
  /\ gone' = gone \ {k}
Full == Cardinality(held) >= Capacity
Oldest == {k \in held : \A j \in held : touched[k] <= touched[j]}
Put(k) ==
  /\ held' = IF k \in held \/ ~Full THEN held \cup {k} ELSE (held \ Oldest) \cup {k}
  /\ Touch(k)
Find(k) == IF k \in held THEN Touch(k) /\ UNCHANGED held
           ELSE UNCHANGED <<held, touched, clock, gone>>

At(t, step) == flow[t] # None /\ flow[t].at = step
Moves(t, k, step) == flow' = [flow EXCEPT ![t] = [key |-> k, at |-> step]]
Ends(t) == flow' = [flow EXCEPT ![t] = None]

(* get, and the first look of get_or_try_insert_with: a hit is the answer, a  *)
(* miss goes on to the loader.                                                *)
Get(t, k) ==
  /\ flow[t] = None
  /\ Find(k)
  /\ IF k \in held THEN UNCHANGED flow ELSE Moves(t, k, "loading")

(* The loader, outside the mutex: a parse, or the error that it is answered.  *)
Load(t, parsed) ==
  /\ At(t, "loading")
  /\ IF parsed THEN Moves(t, flow[t].key, "loaded") ELSE Ends(t)
  /\ UNCHANGED <<held, touched, clock, gone>>

(* insert overwrites what another thread has put there meanwhile.             *)
Insert(t) ==
  /\ At(t, "loaded")
  /\ Put(flow[t].key)
  /\ Moves(t, flow[t].key, "inserted")

(* The second look: the entry, or the own parse if it is gone already.        *)
Reread(t) ==
  /\ At(t, "inserted")
  /\ Find(flow[t].key)
  /\ Ends(t)

Remove(ks) ==
  /\ held' = held \ ks
  /\ gone' = gone \cup (held \cap ks)
  /\ UNCHANGED <<touched, clock, flow>>
Clear == Remove(Key)

Next ==
  \/ \E t \in Thread :
       \/ \E k \in Key : Get(t, k)
       \/ \E parsed \in BOOLEAN : Load(t, parsed)
       \/ Insert(t) \/ Reread(t)
  \/ \E k \in Key : Remove({k})
  \/ Clear
Spec == Init /\ [][Next]_vars

-----------------------------------------------------------------------------
TypeOK ==
  /\ held \subseteq Key
  /\ touched \in [Key -> Nat]
  /\ clock \in Nat
  /\ gone \subseteq Key
  /\ flow \in [Thread -> {None} \cup [key : Key, at : {"loading", "loaded", "inserted"}]]

(* "bounded memory is a hard invariant for the stone" (cache.rs:65), also      *)
(* while several threads have parsed and insert one after another.            *)
MemoryIsBounded == Cardinality(held) <= Capacity

(* Least recently used goes first: a map that is there no more was removed,   *)
(* or at least [Capacity] others were used after it (cache.rs:98).            *)
Newer(k) == {j \in Key : touched[j] > touched[k]}
RecentStay == \A k \in Key \ held :
  touched[k] = 0 \/ k \in gone \/ Cardinality(Newer(k)) >= Capacity
=============================================================================
