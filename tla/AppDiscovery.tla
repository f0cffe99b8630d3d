----------------------------- MODULE AppDiscovery -----------------------------
(* The apps of one platform of a project, found in what is reported (apps.rs), *)
(* labelled by an operator (handlers/admin/apps.rs), and found again in the    *)
(* events of before by the upgrade that introduced them (0037_project_apps).   *)
EXTENDS Naturals, FiniteSets, Sequences, SequencesExt
CONSTANTS
  Release,    \* releases by name
  Unknown,    \* the release named "unknown", if it is one of them
  Namespace,  \* Release -> what its name has before an @, or Blank
  Package, Label,
  MaxOld, MaxEvents, MaxApps, MaxVersion, MaxOwned,  \* bounds
  Blank, None

VARIABLES
  apps,      \* id -> identifier, explicit (somebody named it), label, version
  links,     \* app_releases: <<id, release>>
  owned,     \* apps with web checks or visits of their own
  releases,  \* the rows of releases
  events,    \* accepted events and sessions, those that differ in nothing as one
  native,    \* releases that had a dSYM or a mapping before the upgrade
  upgraded,  \* whether 0037 ran
  tx,        \* the observation that holds the lock of the apps
  console,   \* the app as the operator saw it
  made       \* how many apps were made
vars == <<apps, links, owned, releases, events, native, upgraded, tx, console, made>>

Ids == DOMAIN apps
Linked(r) == {a \in Ids : <<a, r>> \in links}
Near(ns) == {a \in Ids : \E l \in links : l[1] = a /\ Namespace[l[2]] = ns}
Named(name) == {a \in Ids : apps[a].identifier = name}
Explicit == {a \in Ids : apps[a].explicit}
Reported == {e.package : e \in events} \ {None}
(* sentori_app_identifier of a release.                                       *)
Fallback(r) == IF r = None THEN Blank ELSE Namespace[r]
New(name, explicit, label) ==
  [identifier |-> name, explicit |-> explicit, label |-> label, version |-> 1]

Init ==
  /\ apps = <<>> /\ links = {} /\ owned = {} /\ made = 0
  /\ events \in {es \in SUBSET [release : Release \cup {None}, package : Package \cup {None},
                                app : {None}, linked : {TRUE}] : Cardinality(es) <= MaxOld}
  /\ native \in SUBSET (IF MaxOld = 0 THEN {} ELSE Release \ {Unknown})
  /\ releases = native /\ upgraded = FALSE
  /\ tx = None /\ console = None

-----------------------------------------------------------------------------
(* The upgrade: each event by its package, or by that of its release or of    *)
(* its namespace if there is only one; then the releases with native files.   *)
PackagesOf(es) == {e.package : e \in es} \ {None}
OfRelease(r) == {e \in events : r # None /\ e.release = r}
OfSpace(ns) == {e \in events : ns # Blank /\ Fallback(e.release) = ns}
Backfilled(e) ==
  LET byRelease == PackagesOf(OfRelease(e.release))
      bySpace == PackagesOf(OfSpace(Fallback(e.release)))
  IN CASE e.package # None -> e.package
       [] e.package = None /\ Cardinality(byRelease) = 1 -> CHOOSE p \in byRelease : TRUE
       [] e.package = None /\ Cardinality(byRelease) # 1 ->
            IF Cardinality(bySpace) = 1 THEN CHOOSE p \in bySpace : TRUE
            ELSE IF byRelease \cup bySpace = {} THEN Fallback(e.release) ELSE Blank
OfNative(r) ==
  LET known == {Backfilled(e) : e \in OfSpace(Fallback(r))} \cap Reported
  IN IF known = {} THEN Fallback(r)
     ELSE IF Cardinality(known) = 1 THEN CHOOSE p \in known : TRUE ELSE Blank
Upgrade ==
  /\ ~upgraded /\ upgraded' = TRUE
  /\ LET bare == {r \in native : OfRelease(r) = {}}
         names == {Backfilled(e) : e \in events} \cup {OfNative(r) : r \in bare}
         order == SetToSeq(names)
         id(name) == CHOOSE i \in DOMAIN order : order[i] = name
     IN /\ apps' = [i \in DOMAIN order |-> New(order[i], order[i] \in Reported, None)]
        /\ made' = Len(order)
        /\ events' = {[e EXCEPT !.app = id(Backfilled(e))] : e \in events}
        /\ links' = {<<id(Backfilled(e)), e.release>> : e \in {x \in events : x.release # None}}
                      \cup {<<id(OfNative(r)), r>> : r \in bare}
  /\ releases' = releases \cup ({e.release : e \in events} \ {None})
  /\ native' = {} /\ UNCHANGED <<owned, tx, console>>

-----------------------------------------------------------------------------
(* inferred_app, of what reports no package: an app of its release, or else   *)
(* one of its namespace, if that can be only one of them.                     *)
Candidates(r, ns) ==
  IF r # None /\ Linked(r) # {} THEN Linked(r) ELSE IF ns # Blank THEN Near(ns) ELSE {}
Sure(as) ==
  IF Cardinality(as) = 1 THEN as
  ELSE IF Cardinality(as \cap Explicit) = 1 THEN as \cap Explicit ELSE {}
(* What no named app but the one given may have a claim on.                   *)
Claimed(r, ns, but) == ((Linked(r) \cup (IF ns = Blank THEN {} ELSE Near(ns))) \cap Explicit) \ but # {}
(* An app that was only guessed, for exactly this build if it has no name.    *)
Guessed(app, ns) == app.identifier = ns /\ ~app.explicit
AnyBuilds(a, ns, ls) == TRUE            \* a bug: an unnamed app of several builds gets a name
FewBuilds(a, ns, ls) == ns # Blank \/ Cardinality({l \in ls : l[1] = a}) = 1
Refinable(r, ns) ==
  {a \in Ids : Guessed(apps[a], ns) /\ FewBuilds(a, ns, links) /\ <<a, r>> \in links /\ ~Claimed(r, ns, {})}

(* resolve_app, under the lock; a row that it renames is locked with it.      *)
Choice(name, id) == [name |-> name, id |-> id]
Resolved(r, ns, package) ==
  LET sure == Sure(Candidates(r, ns))
      guess == IF Candidates(r, ns) # {} THEN Blank ELSE ns
      name == IF package # None THEN package ELSE guess
  IN CASE package = None /\ sure # {} -> Choice(None, CHOOSE a \in sure : TRUE)
       [] (package # None \/ sure = {}) /\ Named(name) # {} ->
            Choice(None, CHOOSE a \in Named(name) : TRUE)
       [] (package # None \/ sure = {}) /\ Named(name) = {} ->
            IF package # None /\ r # None /\ Refinable(r, ns) # {}
            THEN Choice(name, CHOOSE a \in Refinable(r, ns) : TRUE) ELSE Choice(name, None)
Identifying(r) == IF r = Unknown THEN None ELSE r
Observe(source, r, package) ==
  /\ upgraded /\ tx = None /\ made < MaxApps
  /\ tx' = [source |-> source, release |-> r, package |-> package, lost |-> FALSE,
            found |-> r \in releases, choice |-> Resolved(Identifying(r), Fallback(r), package)]
  /\ UNCHANGED <<apps, links, owned, releases, events, native, upgraded, console, made>>
Report(r, package) == Cardinality(events) < MaxEvents /\ Observe("report", r, package)
(* observe_artifact: only a build that no app of this platform has.           *)
Upload(r) ==
  /\ upgraded /\ tx = None
  /\ Linked(r) = {} /\ Observe("artifact", r, None)

(* merge_inferred_app: what was only guessed to be another app, unless what   *)
(* the operator says of the two differs.                                      *)
Alias(as, ls, r, ns, app) ==
  {a \in DOMAIN as \ {app} :
     /\ Guessed(as[a], ns) /\ FewBuilds(a, ns, ls) /\ <<a, r>> \in ls
     /\ None \in {as[a].label, as[app].label} \/ as[a].label = as[app].label
     /\ ~Claimed(r, ns, {app})}
Highest(a, b) == IF a > b THEN a ELSE b
Absorbed(to, from) ==
  IF to.label = None /\ from.label # None
  THEN [to EXCEPT !.label = from.label, !.version = Highest(to.version, from.version) + 1] ELSE to
Without(as, gone) == [a \in DOMAIN as \ gone |-> as[a]]
Merged(as, ls, es, gone, app) ==
  /\ apps' = Without(IF gone = {} THEN as
                     ELSE [as EXCEPT ![app] = Absorbed(@, as[CHOOSE a \in gone : TRUE])], gone)
  /\ links' = {IF l[1] \in gone THEN <<app, l[2]>> ELSE l : l \in ls}
  /\ events' = {IF e.app \in gone THEN [e EXCEPT !.app = app] ELSE e : e \in es}
  /\ owned' = owned \ gone                  \* ON DELETE CASCADE
Accept ==
  /\ tx # None /\ ~tx.lost /\ tx' = None
  /\ LET c == tx.choice
         app == IF c.id # None THEN c.id ELSE made + 1
         named == tx.package # None
         as == IF c.id = None THEN [a \in Ids \cup {app} |-> IF a = app THEN New(c.name, named, None) ELSE apps[a]]
               ELSE [apps EXCEPT ![app].explicit = @ \/ named,
                                 ![app].identifier = IF c.name = None THEN @ ELSE c.name]
         ls == links \cup (IF tx.release = None THEN {} ELSE {<<app, tx.release>>})
         es == IF tx.source = "artifact" THEN events
               ELSE events \cup {[release |-> tx.release, package |-> tx.package,
                                    app |-> app, linked |-> TRUE]}
         gone == IF named /\ tx.release \notin {None, Unknown}
                 THEN Alias(as, ls, tx.release, Fallback(tx.release), app) ELSE {}
     IN Merged(as, ls, es, gone, app) /\ made' = IF c.id = None THEN made + 1 ELSE made
  /\ releases' = releases \cup ({tx.release} \ {None})
  /\ UNCHANGED <<native, upgraded, console>>
(* The release was deleted meanwhile: its link has no row to refer to.        *)
Fail ==
  /\ tx # None /\ tx.lost /\ tx' = None
  /\ UNCHANGED <<apps, links, owned, releases, events, native, upgraded, console, made>>
(* handlers/admin/releases.rs and retention; apps and events stay.            *)
DeleteRelease(r) ==
  /\ r \in releases /\ upgraded /\ releases' = releases \ {r}
  /\ links' = {l \in links : l[2] # r}
  /\ events' = {[e EXCEPT !.linked = @ /\ e.release # r] : e \in events}
  /\ tx' = IF tx # None /\ tx.release = r /\ tx.found THEN [tx EXCEPT !.lost = TRUE] ELSE tx
  /\ UNCHANGED <<apps, owned, native, upgraded, console, made>>

-----------------------------------------------------------------------------
(* The operator.                                                              *)
Create(name, label) ==
  /\ upgraded /\ tx = None /\ Named(name) = {} /\ made < MaxApps /\ made' = made + 1
  /\ apps' = [a \in Ids \cup {made + 1} |-> IF a = made + 1 THEN New(name, TRUE, label) ELSE apps[a]]
  /\ UNCHANGED <<links, owned, releases, events, native, upgraded, tx, console>>
View(a) ==
  /\ console = None /\ apps[a].version < MaxVersion /\ console' = [id |-> a, row |-> apps[a]]
  /\ UNCHANGED <<apps, links, owned, releases, events, native, upgraded, tx, made>>
Current == console.id \in Ids /\ apps[console.id].version = console.row.version
Update(label) ==
  /\ console # None /\ console' = None
  /\ apps' = IF Current
             THEN [apps EXCEPT ![console.id].label = label, ![console.id].version = @ + 1] ELSE apps
  /\ UNCHANGED <<links, owned, releases, events, native, upgraded, tx, made>>
Attach(a) ==
  /\ a \notin owned /\ Cardinality(owned) < MaxOwned /\ owned' = owned \cup {a}
  /\ UNCHANGED <<apps, links, releases, events, native, upgraded, tx, console, made>>

Next ==
  \/ Upgrade \/ Accept \/ Fail
  \/ \E r \in Release \cup {None}, p \in Package \cup {None} : Report(r, p)
  \/ \E r \in Release : DeleteRelease(r) \/ Upload(r)
  \/ \E p \in Package, l \in Label : Create(p, l)
  \/ \E l \in Label \cup {None} : Update(l)
  \/ \E a \in Ids : View(a) \/ Attach(a)
Spec == Init /\ [][Next]_vars

-----------------------------------------------------------------------------
(* UNIQUE(project_id, platform, identifier), and every reference has its row. *)
TypeOK ==
  /\ \A a, b \in Ids : apps[a].identifier = apps[b].identifier => a = b
  /\ \A a \in Ids : apps[a].explicit => apps[a].identifier \in Package
  /\ links \subseteq Ids \X releases /\ owned \subseteq Ids
  /\ \A e \in events : e.app \in Ids \/ (~upgraded /\ e.app = None)
(* "Two explicit package identifiers must never collapse" (apps.rs:191): what *)
(* a package reported is under the app of that name, whatever was merged.     *)
PackagesNeverCollapse ==
  upgraded => \A e \in events :
    e.package # None => apps[e.app].explicit /\ apps[e.app].identifier = e.package
(* What names no package is under a named app only if that has the name of    *)
(* its build or if that package reported the same build or its namespace;     *)
(* "unknown", a missing and a deleted release are no evidence.                *)
Related(e, f) ==
  \/ f.release = e.release
  \/ Fallback(f.release) = Fallback(e.release) /\ Fallback(e.release) # Blank
GuessesAreJustified ==
  upgraded => \A e \in events :
    /\ e.package = None /\ e.release \notin {None, Unknown} /\ e.linked
    /\ apps[e.app].explicit
    => LET p == apps[e.app].identifier
       IN p = Fallback(e.release) \/ \E f \in events : f.package = p /\ Related(e, f)
(* An event is found under its build as well as under its app.                *)
BuildsKnowTheirApps ==
  upgraded => \A e \in events :
    e.release # None /\ e.linked => <<e.app, e.release>> \in links
(* A named app keeps its name and what it owns; an operator's label goes only *)
(* where the app does, or to whom saw it.                                     *)
Kept(a) ==
  /\ apps[a].explicit => a \in DOMAIN apps' /\ apps'[a].identifier = apps[a].identifier
                           /\ (a \in owned => a \in owned')
  /\ a \notin DOMAIN apps' /\ apps[a].label # None =>
       \E b \in DOMAIN apps' : apps'[b].label = apps[a].label
  /\ (a \in DOMAIN apps' /\ apps[a].label # None /\ apps'[a].label # apps[a].label) =>
       console # None /\ console.id = a /\ console.row.label = apps[a].label
KeptStep == \A a \in Ids : Kept(a)
=============================================================================
