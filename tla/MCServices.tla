----------------------------- MODULE MCServices -----------------------------
(* The services around the queue, each on the small instances named here. A   *)
(* behaviour picks one part of the system and runs that part alone: what one  *)
(* of these modules may see of another is a choice in it, so an interleaving  *)
(* of two parts would reach no state of either that is not reached here.      *)
EXTENDS Naturals, Sequences, TLC
CONSTANTS
  None, Gone,
  e1, e2, c1, u1, u2, w1, w2, jira, hook,   \* notifications, events, users, workers and threads
  o1, o2,   \* operations
  k1, k2, m1,   \* commands, checks, monitors
  g1, g2, x1, d1, d2, r1, r2, r3, r4, p1, p2,   \* groups, event ids, requests, projects, probes
  owner1, admin1, s1, s2, s3, l1,   \* accounts, sessions, servers
  t1, t2, i1,   \* tasks, tools, uploads
  a1, a2, i2, y1, y2, v1, h1, z1,   \* archives and their rows
  map1, map2, mapping, image, bundle, junk, src, lib, pay, index, fn, MyApp,   \* symbol files, names in paths, a function
  b1, b2, b3, n1, unknown, l2, Blank,   \* releases, a namespace, labels
  q1, q2, f1, f2   \* requests, calls of an app

VARIABLES
  part,
  event, delivery, config, owner, muted, receipt, work, mode, generation, backup, spare,
  op, file, opWork, lock, identity,
  task, taskIssue, signals, taskConfig, clock, command,
  check, runs, told, fence, paused, checkGeneration,
  monitor, samples, monitorTold, monitorWork, probes, monitorGeneration,
  issue, stored, notice, tx, answer, deleted, reopened,
  account, session, link, assigned, accountTx, shell, lastSet,
  remote, local, cloudSession, cloudAssigned, ask, admitted,
  device, fits, preview, row, console, taken, got, sendReceipt, sendGeneration, sendMode,
  sendBackup,
  request,
  credential, probe, credentialReceipt, answers,
  storage, launch, started, timer, made, queue, sessions, dropped, sending, pending, drain,
  kept, reported, lost,
  resetPending, rows, password, ownerSession, permit, cleared, completed, blobs,
  resetArchive, journal, resetReceipt, server, tool, attempts, acked, torn, resetGeneration,
  live, disk, capture, recovery, recoveryFile, reader, target, faults, puts,
  quotaClock, policy, heard, entitlement, usage, second, quotaStored, replays, attached,
  settled, projects, sent, applied, refused, quotaAdmitted, counted, billed,
  symbolRows, cache, frames, checker, uploads, renewed,
  apps, links, owned, releases, reports, native, upgraded, appTx, operatorView, appsMade,
  boardIssue, boardLog, boardAssigned, boardRequest, boardClock, boardByApi,
  appKey, appTraits, appHashing, appVendor, appNative, appSaid, appHandle, appInstall,
  appListening, appPumping, appStored, appFlow, appRow, appBodies, appServed, appMinted,
  appBehind, appMixed, appCrossed, appTwice, appGone,
  replayScreen, replayClock, replayBack, replayHost, replayPending, replayStay, replaySeen,
  replayRing, replayTaken, replayShots, replayShotEpoch, replayCapturing,
  bufferQueue, bufferDropped, bufferAt, bufferMade, bufferEvicted, bufferLost,
  bufferOutcome, bufferDrained, bufferCounted,
  limitClock, limitBucket, limitCall, limitAdmitted, limitLate, limitAnswer,
  vendorClock, vendorCache, vendorDoing, vendorMinted, vendorRefused,
  adminProject, adminScreen, adminToken, adminRequest, adminCaller, adminAssigned,
  adminAudit,
  logLog, logCall, logAsked, logTook,
  fanToken, fanCredential, fanSpent, fanDispatch, fanAccepted, fanCondemned,
  mapHeld, mapTouched, mapClock, mapGone, mapFlow,
  caseSubject

notificationVars ==
  <<event, delivery, config, owner, muted, receipt, work, mode, generation, backup, spare>>
operationVars == <<op, file, opWork, lock, identity>>
taskVars == <<task, taskIssue, signals, taskConfig, clock, command>>
checkVars == <<check, runs, told, fence, paused, checkGeneration>>
monitorVars == <<monitor, samples, monitorTold, monitorWork, probes, monitorGeneration>>
ingestVars == <<issue, stored, notice, tx, answer, deleted, reopened>>
accountVars == <<account, session, link, assigned, accountTx, shell, lastSet>>
cloudVars == <<remote, local, cloudSession, cloudAssigned, ask, admitted>>
audienceVars ==
  <<device, fits, preview, row, console, taken, got, sendReceipt, sendGeneration, sendMode,
    sendBackup>>
descriptionVars == <<request>>
credentialVars == <<credential, probe, credentialReceipt, answers>>
transportVars ==
  <<storage, launch, started, timer, made, queue, sessions, dropped, sending, pending,
    drain, kept, reported, lost>>
resetVars ==
  <<resetPending, rows, password, ownerSession, permit, cleared, completed, blobs,
    resetArchive, journal, resetReceipt, server, tool, attempts, acked, torn,
    resetGeneration>>
archiveVars ==
  <<live, disk, capture, recovery, recoveryFile, reader, target, faults, puts>>
quotaVars ==
  <<quotaClock, policy, heard, entitlement, usage, second, quotaStored, replays, attached,
    settled, projects, sent, applied, refused, quotaAdmitted, counted, billed>>
symbolVars == <<symbolRows, cache, frames, checker, uploads, renewed>>
appVars ==
  <<apps, links, owned, releases, reports, native, upgraded, appTx, operatorView, appsMade>>
boardVars ==
  <<boardIssue, boardLog, boardAssigned, boardRequest, boardClock, boardByApi>>
deviceVars ==
  <<appKey, appTraits, appHashing, appVendor, appNative, appSaid, appHandle, appInstall,
    appListening, appPumping, appStored, appFlow, appRow, appBodies, appServed, appMinted,
    appBehind, appMixed, appCrossed, appTwice, appGone>>
replayVars ==
  <<replayScreen, replayClock, replayBack, replayHost, replayPending, replayStay,
    replaySeen, replayRing, replayTaken, replayShots, replayShotEpoch, replayCapturing>>
bufferVars ==
  <<bufferQueue, bufferDropped, bufferAt, bufferMade, bufferEvicted, bufferLost,
    bufferOutcome, bufferDrained, bufferCounted>>
limitVars ==
  <<limitClock, limitBucket, limitCall, limitAdmitted, limitLate, limitAnswer>>
vendorVars == <<vendorClock, vendorCache, vendorDoing, vendorMinted, vendorRefused>>
adminVars ==
  <<adminProject, adminScreen, adminToken, adminRequest, adminCaller, adminAssigned,
    adminAudit>>
logVars == <<logLog, logCall, logAsked, logTook>>
fanVars ==
  <<fanToken, fanCredential, fanSpent, fanDispatch, fanAccepted, fanCondemned>>
mapVars == <<mapHeld, mapTouched, mapClock, mapGone, mapFlow>>
caseVars == <<caseSubject>>
vars ==
  <<part, notificationVars, operationVars, taskVars, checkVars, monitorVars, ingestVars,
  accountVars, cloudVars, audienceVars, descriptionVars, credentialVars, transportVars,
  resetVars, archiveVars, quotaVars, symbolVars, appVars, boardVars, deviceVars, replayVars,
  bufferVars, limitVars, vendorVars, adminVars, logVars, fanVars, mapVars, caseVars>>

-----------------------------------------------------------------------------
(* Two workers and a tracker; one worker, the project's own webhook and an    *)
(* owner who changes it; an integration that its owner changes.               *)
Tickets == INSTANCE NotificationDelivery WITH
  Event <- {e1}, Kind <- {"issue"}, Command <- {c1}, Webhook <- {}, Tracker <- {jira},
  Mailbox <- {}, Legacy <- {}, User <- {u1}, Worker <- {w1, w2}, MaxAttempt <- 2,
  MaxVersion <- 1, MaxGeneration <- 2
Hooks == INSTANCE NotificationDelivery WITH
  Event <- {e1}, Kind <- {"issue"}, Command <- {c1}, Webhook <- {}, Tracker <- {},
  Mailbox <- {}, Legacy <- {hook}, User <- {u1}, Worker <- {w1}, MaxAttempt <- 2,
  MaxVersion <- 2, MaxGeneration <- 1
Settings == INSTANCE NotificationDelivery WITH
  Event <- {e1}, Kind <- {"issue"}, Command <- {c1}, Webhook <- {hook}, Tracker <- {},
  Mailbox <- {}, Legacy <- {}, User <- {u1}, Worker <- {w1}, MaxAttempt <- 2,
  MaxVersion <- 2, MaxGeneration <- 1

(* Two processes and a retry; two operations one after the other.             *)
Processes == INSTANCE InstanceOperations WITH
  Op <- {o1}, Worker <- {w1, w2}, MaxAttempts <- 2, MaxGeneration <- 2, work <- opWork
Operations == INSTANCE InstanceOperations WITH
  Op <- {o1, o2}, Worker <- {w1}, MaxAttempts <- 1, MaxGeneration <- 2, work <- opWork

(* Signals about two commits; one commit and a new version of the             *)
(* integration; one commit over three instants.                               *)
Signals == {"work.started", "pr.merged", "ci.completed", "release.deployed"}
Commits == INSTANCE TaskAutomation WITH
  Commit <- {k1, k2}, Kind <- Signals, User <- {u1}, MaxTime <- 2, MaxSignals <- 3,
  MaxVersion <- 1, issue <- taskIssue, config <- taskConfig
Versions == INSTANCE TaskAutomation WITH
  Commit <- {k1}, Kind <- Signals, User <- {u1}, MaxTime <- 2, MaxSignals <- 3,
  MaxVersion <- 2, issue <- taskIssue, config <- taskConfig
Moments == INSTANCE TaskAutomation WITH
  Commit <- {k1}, Kind <- Signals, User <- {u1}, MaxTime <- 3, MaxSignals <- 3,
  MaxVersion <- 1, issue <- taskIssue, config <- taskConfig

(* Three runs of one check; two checks that share a project's room; restores. *)
History == INSTANCE WebChecks WITH
  Check <- {k1}, Project <- {p1}, Home <- [c \in {k1} |-> p1], Threshold <- 2,
  MaxPending <- 2, MaxLive <- 2, MaxRuns <- 3, MaxVersion <- 1, MaxGeneration <- 1,
  generation <- checkGeneration
Checks == INSTANCE WebChecks WITH
  Check <- {k1, k2}, Project <- {p1}, Home <- [c \in {k1, k2} |-> p1], Threshold <- 2,
  MaxPending <- 2, MaxLive <- 2, MaxRuns <- 2, MaxVersion <- 1, MaxGeneration <- 1,
  generation <- checkGeneration
Restores == INSTANCE WebChecks WITH
  Check <- {k1}, Project <- {p1}, Home <- [c \in {k1} |-> p1], Threshold <- 2,
  MaxPending <- 2, MaxLive <- 2, MaxRuns <- 2, MaxVersion <- 2, MaxGeneration <- 2,
  generation <- checkGeneration

(* Two workers, one of which may be late with its probe.                      *)
Monitors == INSTANCE MonitorChecks WITH
  Monitor <- {m1}, Worker <- {w1, w2}, Threshold <- 2, MaxProbes <- 4, MaxVersion <- 2,
  MaxGeneration <- 2, told <- monitorTold, work <- monitorWork,
  generation <- monitorGeneration

(* Three requests about two groups of a project, a probe in the second guards *)
(* the first; two about one event id that two projects use.                   *)
Carries(id, group, guards) == [id |-> id, group |-> group, guards |-> guards]
Contents == {Carries(e1, g1, None), Carries(d1, g1, None), Carries(d2, g2, g1)}
Shared == {Carries(e1, g1, None), Carries(e1, x1, None)}
Ingest == INSTANCE IssueIngest WITH
  Request <- {r1, r2, r3}, Group <- {g1, g2}, Owner <- [g \in {g1, g2} |-> p1],
  Content <- Contents, event <- stored
Twins == INSTANCE IssueIngest WITH
  Request <- {r1, r2}, Group <- {g1, x1},
  Owner <- [g \in {g1, x1} |-> IF g = x1 THEN p2 ELSE p1], Content <- Shared,
  event <- stored

(* The owner and an admin; one account and a third password.                  *)
Team == INSTANCE Accounts WITH
  User <- {owner1, admin1}, Owner <- owner1, Session <- {s1}, Link <- {l1}, Project <- {p1},
  Request <- {r1, r2}, MaxPassword <- 2, tx <- accountTx
Passwords == INSTANCE Accounts WITH
  User <- {owner1}, Owner <- owner1, Session <- {s1, s2}, Link <- {l1}, Project <- {p1},
  Request <- {r1, r2}, MaxPassword <- 3, tx <- accountTx

(* Two sessions of a cloud user, asked for from several requests.             *)
Cloud == INSTANCE CloudIdentity WITH
  Session <- {s1, s2}, Request <- {r1, r2, r3}, MaxEpoch <- 3, session <- cloudSession,
  assigned <- cloudAssigned

(* Two devices and a console command; one device, previews and a restore;     *)
(* calls of the API that may ask for more than one message.                   *)
Review == INSTANCE PushAudience WITH
  Device <- {1, 2}, Key <- {k1}, Call <- {}, MaxTargets <- 1, MaxPreviews <- 2,
  MaxGeneration <- 1, receipt <- sendReceipt, generation <- sendGeneration,
  mode <- sendMode, backup <- sendBackup
Restored == INSTANCE PushAudience WITH
  Device <- {1}, Key <- {k1}, Call <- {}, MaxTargets <- 1, MaxPreviews <- 1,
  MaxGeneration <- 2, receipt <- sendReceipt, generation <- sendGeneration,
  mode <- sendMode, backup <- sendBackup
Api == INSTANCE PushAudience WITH
  Device <- {1, 2}, Key <- {}, Call <- {c1}, MaxTargets <- 1, MaxPreviews <- 0,
  MaxGeneration <- 1, receipt <- sendReceipt, generation <- sendGeneration,
  mode <- sendMode, backup <- sendBackup

(* Expressions over two users, of whom the issue happened to one.             *)
Expressions == INSTANCE Audience WITH
  User <- {u1, u2}, Hit <- {u1}, MaxDepth <- 2, MaxNodes <- 4, MaxSize <- 4

(* Two commands and a probe; one command and two probes.                      *)
Commands == INSTANCE PushCredentials WITH
  Credential <- {c1, r1}, Probed <- {c1}, Probe <- {p1}, Command <- {k1, k2},
  MaxCredentials <- 2, MaxVersion <- 3, receipt <- credentialReceipt
Probes == INSTANCE PushCredentials WITH
  Credential <- {c1}, Probed <- {c1}, Probe <- {p1, p2}, Command <- {k1},
  MaxCredentials <- 2, MaxVersion <- 4, receipt <- credentialReceipt

(* A page, whose storage swallows a failed write; an app that is launched     *)
(* again.                                                                     *)
Pages == INSTANCE Transport WITH
  Event <- {e1, e2}, Session <- {s1}, Task <- {t1, t2}, MaxQueued <- 2, BatchSize <- 1,
  MaxRetry <- 1, MaxPersisted <- 1, MaxBatch <- 2, Stores <- {"silent"}, MaxLaunch <- 1,
  task <- sending, stored <- kept, told <- reported
App == INSTANCE Transport WITH
  Event <- {e1, e2}, Session <- {s1}, Task <- {t1}, MaxQueued <- 1, BatchSize <- 2,
  MaxRetry <- 2, MaxPersisted <- 1, MaxBatch <- 1, Stores <- {"none", "throws"},
  MaxLaunch <- 2, task <- sending, stored <- kept, told <- reported

(* Two servers; a reset that is tried again; two tools at once.               *)
Servers == INSTANCE InstanceReset WITH
  Item <- {i1}, Server <- {s1, s2}, Tool <- {t1}, MaxAttempts <- 1, MaxPassword <- 2,
  generation <- resetGeneration, pending <- resetPending, session <- ownerSession,
  archive <- resetArchive, receipt <- resetReceipt
Resets == INSTANCE InstanceReset WITH
  Item <- {i1}, Server <- {s1}, Tool <- {t1}, MaxAttempts <- 2, MaxPassword <- 2,
  generation <- resetGeneration, pending <- resetPending, session <- ownerSession,
  archive <- resetArchive, receipt <- resetReceipt
Tools == INSTANCE InstanceReset WITH
  Item <- {i1}, Server <- {s1}, Tool <- {t1, t2}, MaxAttempts <- 1, MaxPassword <- 1,
  generation <- resetGeneration, pending <- resetPending, session <- ownerSession,
  archive <- resetArchive, receipt <- resetReceipt

(* One archive of everything, with a defect somewhere; two archives of a      *)
(* database that goes on, exchanged under the reader.                         *)
R(table, id, project, issueId, user, eventId, blob) ==
  [table |-> table, id |-> id, project |-> project, issue |-> issueId, user |-> user,
   event |-> eventId, blob |-> blob]
Small == {R("instance_settings", z1, None, None, None, None, None), R("projects", p1, None, None, None, None, None),
          R("event_attachments", y1, p1, None, None, e1, h1)}
Full == Small \cup {R("users", u1, None, None, None, None, None), R("issues", i2, p1, None, None, None, None),
                    R("events", e1, p1, i2, None, None, None), R("issue_activity", v1, None, i2, u1, None, None)}
Defects == INSTANCE Archive WITH
  Archive <- {a1}, Content <- <<Full>>, Moved <- {p1}, MaxFaults <- 1, MaxPuts <- 1,
  archive <- recovery, file <- recoveryFile
Exchanges == INSTANCE Archive WITH
  Archive <- {a1, a2},
  Content <- <<Small, Small \cup {R("event_attachments", y2, p1, None, None, e2, h1)}>>,
  Moved <- {p1}, MaxFaults <- 0, MaxPuts <- 2, archive <- recovery, file <- recoveryFile

(* Two replicas that hear answers late; one replica, an event that a route    *)
(* sends elsewhere and one that stays.                                        *)
Answers == INSTANCE CloudQuota WITH
  Replica <- {r1, r2}, Event <- {e1}, Home <- p1, Away <- p2, Routed <- {}, Limits <- {1},
  MonthlyReplays <- 2, PerSecond <- 1, MaxProjects <- 2, Lease <- 1, Month <- 2,
  Retention <- 1, ReplayRetention <- 0, MaxTime <- 2, MaxSent <- 1, clock <- quotaClock,
  stored <- quotaStored, admitted <- quotaAdmitted
Usage == INSTANCE CloudQuota WITH
  Replica <- {r1}, Event <- {e1, e2}, Home <- p1, Away <- p2, Routed <- {e2}, Limits <- {1},
  MonthlyReplays <- 2, PerSecond <- 1, MaxProjects <- 3, Lease <- 2, Month <- 2,
  Retention <- 1, ReplayRetention <- 0, MaxTime <- 2, MaxSent <- 3, clock <- quotaClock,
  stored <- quotaStored, admitted <- quotaAdmitted

(* A crash of a bundle with two maps and one of an Android and of an iOS app, *)
(* each with an older upload whose name says nothing.                         *)
To(place, line, embeds) == [file |-> place, line |-> line, embeds |-> embeds]
File(kind, at) == [as |-> kind, at |-> at, ids |-> {e1}]
Zip(files) == [as |-> "srcbundle", fits |-> TRUE, files |-> files]
Index == <<index>>
Maps ==
  (map1 :> File("sourcemap", 1 :> To(<<src, lib>>, 2, FALSE)))
    @@ (map2 :> File("sourcemap", (1 :> To(<<src, pay>>, 1, TRUE)) @@ (2 :> To(<<src, pay>>, 3, TRUE))))
    @@ (bundle :> Zip(<<src, lib>> :> 2)) @@ (junk :> [as |-> "junk"])
Natives ==
  (mapping :> File("proguard", fn :> To(<<src, pay>>, 2, FALSE)))
    @@ (image :> File("dsym", fn :> To(<<src, lib>>, 1, FALSE)))
    @@ (bundle :> Zip((<<src, lib>> :> 2) @@ (<<src, pay>> :> 2)))
Stored(kind, base, content) ==
  [id |-> 1, kind |-> kind, name |-> [base |-> base, ids |-> {}], content |-> content, usable |-> None]
Frame(of, place, line, symbol) ==
  [of |-> of, file |-> place, line |-> line, symbol |-> symbol, image |-> e1,
   done |-> FALSE, before |-> None, context |-> None]
JsFrame == Frame("js", Index, 1, None)
AndroidFrame == Frame("android", <<pay>>, 1, fn)
IosFrame == Frame("ios", None, None, fn)
Bundles == INSTANCE Symbolication WITH
  Content <- {map1, map2, bundle}, Parse <- Maps, Base <- {Index, <<src, lib>>},
  Old <- <<Stored("sourcemap", Index, junk)>>, Raw <- (e1 :> JsFrame), Event <- {e1},
  Capacity <- 1, MaxMaps <- 2, MaxUploads <- 2, rows <- symbolRows, stored <- frames
Android == INSTANCE Symbolication WITH
  Content <- {mapping, image, bundle}, Parse <- Natives, Base <- {<<MyApp>>},
  Old <- <<Stored("dsym", <<MyApp>>, image)>>, Raw <- (e1 :> AndroidFrame), Event <- {e1},
  Capacity <- 1, MaxMaps <- 2, MaxUploads <- 2, rows <- symbolRows, stored <- frames
Ios == INSTANCE Symbolication WITH
  Content <- {mapping, image, bundle}, Parse <- Natives, Base <- {<<MyApp>>},
  Old <- <<Stored("dsym", <<MyApp>>, image)>>, Raw <- (e1 :> IosFrame), Event <- {e1},
  Capacity <- 1, MaxMaps <- 2, MaxUploads <- 2, rows <- symbolRows, stored <- frames

(* Builds of two packages, one build without a namespace; an upgrade; an      *)
(* operator and two labels.                                                   *)
Space == (b1 :> n1) @@ (b2 :> Blank) @@ (b3 :> Blank) @@ (unknown :> Blank)
Builds == INSTANCE AppDiscovery WITH
  Release <- {b1, b2, b3}, Package <- {p1, p2}, Label <- {}, MaxOld <- 0, MaxEvents <- 3,
  MaxApps <- 3, MaxVersion <- 1, MaxOwned <- 0, Unknown <- unknown, Namespace <- Space,
  events <- reports, tx <- appTx, console <- operatorView, made <- appsMade
Upgrades == INSTANCE AppDiscovery WITH
  Release <- {b1, b2, unknown}, Package <- {p1, p2}, Label <- {}, MaxOld <- 2,
  MaxEvents <- 2, MaxApps <- 3, MaxVersion <- 1, MaxOwned <- 0, Unknown <- unknown,
  Namespace <- Space, events <- reports, tx <- appTx, console <- operatorView,
  made <- appsMade
Labels == INSTANCE AppDiscovery WITH
  Release <- {b1}, Package <- {p1}, Label <- {l1, l2}, MaxOld <- 0, MaxEvents <- 2,
  MaxApps <- 2, MaxVersion <- 2, MaxOwned <- 1, Unknown <- unknown, Namespace <- Space,
  events <- reports, tx <- appTx, console <- operatorView, made <- appsMade

(* Two people's requests on one issue; one request and two registered         *)
(* releases; a person and an agent; a reader of two projects; an agent that   *)
(* turns pages.                                                               *)
InProject == (i1 :> p1) @@ (i2 :> p2)
InOneProject == (i1 :> p1) @@ (i2 :> p1)
AskedByAgents == {[filter |-> "open", sort |-> "impact", limit |-> 0],
                  [filter |-> "all", sort |-> "impact", limit |-> 2]}
ById == (i1 :> 1) @@ (i2 :> 2)
InOrder == (r1 :> 1) @@ (r2 :> 2)
Fix(in, note) == [op |-> "resolved", in |-> in, note |-> note]
Do(what) == [op |-> what]
Give(to) == [op |-> "assign", who |-> to]
Asked == {[filter |-> "open", sort |-> "newest", limit |-> 1],
          [filter |-> "regressed", sort |-> "impact", limit |-> 2],
          [filter |-> "all", sort |-> "oldest", limit |-> 1],
          [filter |-> "all", sort |-> "impact", limit |-> 0]}
Decisions == INSTANCE IssueBoard WITH
  Issue <- {i1}, Person <- {u1}, Project <- {p1}, Release <- {r1}, Root <- {u1},
  Request <- {q1, q2}, Agent <- {},
  Decision <- {Fix(r1, TRUE), Fix(r1, FALSE), Do("ignored"), Do("open"), Give(u1)},
  Query <- {}, Shown <- 2, MaxPage <- 2, ProjectOf <- InProject, MaxRows <- 2, MaxTime <- 2,
  Rank <- ById, Registered <- InOrder, issue <- boardIssue, log <- boardLog,
  assigned <- boardAssigned, request <- boardRequest, clock <- boardClock,
  byApi <- boardByApi
Releases == INSTANCE IssueBoard WITH
  Issue <- {i1}, Person <- {u1, u2}, Project <- {p1}, Release <- {r1, r2}, Root <- {u1},
  Request <- {q1}, Agent <- {},
  Decision <- {Fix(r1, FALSE), Fix(r2, TRUE), Fix(None, FALSE), Do("note"), Give(u2), Give(None)},
  Query <- {}, Shown <- 2, MaxPage <- 2, ProjectOf <- InProject, MaxRows <- 2, MaxTime <- 2,
  Rank <- ById, Registered <- InOrder, issue <- boardIssue, log <- boardLog,
  assigned <- boardAssigned, request <- boardRequest, clock <- boardClock,
  byApi <- boardByApi
Agents == INSTANCE IssueBoard WITH
  Issue <- {i1}, Person <- {u1}, Project <- {p1}, Release <- {r1}, Root <- {u1},
  Request <- {q1, a1}, Agent <- {a1}, Decision <- {Fix(r1, FALSE), Do("note"), Do("open")},
  Query <- {}, Shown <- 2, MaxPage <- 2, ProjectOf <- InProject, MaxRows <- 2, MaxTime <- 2,
  Rank <- ById, Registered <- InOrder, issue <- boardIssue, log <- boardLog,
  assigned <- boardAssigned, request <- boardRequest, clock <- boardClock,
  byApi <- boardByApi
Lists == INSTANCE IssueBoard WITH
  Issue <- {i1, i2}, Person <- {u1}, Project <- {p1, p2}, Release <- {r1}, Root <- {},
  Request <- {q1}, Agent <- {}, Decision <- {Fix(r1, FALSE)}, Query <- Asked, Shown <- 2,
  MaxPage <- 1, ProjectOf <- InProject, MaxRows <- 2, MaxTime <- 1, Rank <- ById,
  Registered <- InOrder, issue <- boardIssue, log <- boardLog, assigned <- boardAssigned,
  request <- boardRequest, clock <- boardClock, byApi <- boardByApi
ApiPages == INSTANCE IssueBoard WITH
  Issue <- {i1, i2}, Person <- {u1}, Project <- {p1}, Release <- {r1}, Root <- {u1},
  Request <- {a1}, Agent <- {a1}, Decision <- {Fix(r1, FALSE)}, Query <- AskedByAgents,
  Shown <- 2, MaxPage <- 1, ProjectOf <- InOneProject, MaxRows <- 2, MaxTime <- 1,
  Rank <- ById, Registered <- InOrder, issue <- boardIssue, log <- boardLog,
  assigned <- boardAssigned, request <- boardRequest, clock <- boardClock,
  byApi <- boardByApi

(* An app launched and killed, its token rotated; an app with two calls under *)
(* way.                                                                       *)
Launches == INSTANCE DeviceRegistration WITH
  Flow <- {f1}, Person <- {u1}, Token <- {1, 2}, MaxSent <- 3, MaxInstall <- 2,
  Nobody <- Gone, key <- appKey, traits <- appTraits, hashing <- appHashing,
  vendor <- appVendor, lastNative <- appNative, lastSent <- appSaid, cached <- appHandle,
  installId <- appInstall, listening <- appListening, pumping <- appPumping,
  stored <- appStored, flow <- appFlow, row <- appRow, sent <- appBodies,
  served <- appServed, minted <- appMinted, behind <- appBehind, mixed <- appMixed,
  crossed <- appCrossed, twice <- appTwice, gone <- appGone
Calls == INSTANCE DeviceRegistration WITH
  Flow <- {f1, f2}, Person <- {u1}, Token <- {1}, MaxSent <- 2, MaxInstall <- 1,
  Nobody <- Gone, key <- appKey, traits <- appTraits, hashing <- appHashing,
  vendor <- appVendor, lastNative <- appNative, lastSent <- appSaid, cached <- appHandle,
  installId <- appInstall, listening <- appListening, pumping <- appPumping,
  stored <- appStored, flow <- appFlow, row <- appRow, sent <- appBodies,
  served <- appServed, minted <- appMinted, behind <- appBehind, mixed <- appMixed,
  crossed <- appCrossed, twice <- appTwice, gone <- appGone

(* A recorded app whose screens have layers over one another, that is put     *)
(* behind another and comes back; a page; an app of which pictures are taken. *)
Rect(at, look) == [at |-> at, look |-> look]
Drawn(nodes, size) == [nodes |-> nodes, size |-> size]
Still == {Drawn(<<Rect(1, "plain")>>, 1)}
Layers == Still \cup {Drawn(<<Rect(1, "plain"), Rect(1, "marked")>>, 1),
                     Drawn(<<Rect(2, "plain"), Rect(1, "marked")>>, 1),
                     Drawn(<<Rect(1, "marked"), Rect(2, "plain")>>, 2)}
Layouts == {Drawn(<<Rect(1, "plain"), Rect(2, "plain"), Rect(2, "marked")>>, 1),
          Drawn(<<Rect(1, "marked"), Rect(2, "plain")>>, 1),
          Drawn(<<Rect(2, "plain"), Rect(1, "marked")>>, 2)}
Wireframes == INSTANCE SessionReplay WITH
  Web <- FALSE, Pixels <- FALSE, Screens <- Layers, KeyMs <- 2, WindowMs <- 2,
  MaxItems <- 3, MinNodes <- 3, Capacity <- 2, MaxTime <- 4, MaxStay <- 1,
  screen <- replayScreen, clock <- replayClock, back <- replayBack, host <- replayHost,
  pending <- replayPending, stay <- replayStay, seen <- replaySeen, ring <- replayRing,
  taken <- replayTaken, shots <- replayShots, shotEpoch <- replayShotEpoch,
  capturing <- replayCapturing
Dom == INSTANCE SessionReplay WITH
  Web <- TRUE, Pixels <- FALSE, Screens <- Layouts, KeyMs <- 2, WindowMs <- 2,
  MaxItems <- 2, MinNodes <- 3, Capacity <- 2, MaxTime <- 4, MaxStay <- 0,
  screen <- replayScreen, clock <- replayClock, back <- replayBack, host <- replayHost,
  pending <- replayPending, stay <- replayStay, seen <- replaySeen, ring <- replayRing,
  taken <- replayTaken, shots <- replayShots, shotEpoch <- replayShotEpoch,
  capturing <- replayCapturing
Shots == INSTANCE SessionReplay WITH
  Web <- FALSE, Pixels <- TRUE, Screens <- Still, KeyMs <- 2, WindowMs <- 3, MaxItems <- 2,
  MinNodes <- 3, Capacity <- 2, MaxTime <- 4, MaxStay <- 2, screen <- replayScreen,
  clock <- replayClock, back <- replayBack, host <- replayHost, pending <- replayPending,
  stay <- replayStay, seen <- replaySeen, ring <- replayRing, taken <- replayTaken,
  shots <- replayShots, shotEpoch <- replayShotEpoch, capturing <- replayCapturing

(* Two threads at a buffer of one slot.                                       *)
Ring == INSTANCE EventRing WITH
  Producer <- {w1, w2}, Capacity <- 1, MaxPushes <- 3, queue <- bufferQueue,
  dropped <- bufferDropped, at <- bufferAt, made <- bufferMade, evicted <- bufferEvicted,
  lost <- bufferLost, outcome <- bufferOutcome, drained <- bufferDrained,
  counted <- bufferCounted

(* Two requests at a time of one key, and of two keys.                        *)
Rate == INSTANCE RateLimiting WITH
  Key <- {1}, Caller <- {w1, w2}, Max <- 2, Window <- 2, Told <- TRUE, MaxTime <- 4,
  clock <- limitClock, bucket <- limitBucket, call <- limitCall, admitted <- limitAdmitted,
  late <- limitLate, answer <- limitAnswer
Keys == INSTANCE RateLimiting WITH
  Key <- {1, 2}, Caller <- {w1, w2}, Max <- 1, Window <- 1, Told <- FALSE, MaxTime <- 3,
  clock <- limitClock, bucket <- limitBucket, call <- limitCall, admitted <- limitAdmitted,
  late <- limitLate, answer <- limitAnswer

(* Two workers and two credentials: the caches hold one token each, of a life *)
(* of four ticks.                                                             *)
Adapters == INSTANCE VendorTokens WITH
  Vendor <- <<"hcm", "apns">>, Credential <- {1, 2}, Account <- <<1, 2>>,
  Worker <- {w1, w2}, Life <- 4, Kept <- 3, Margin <- 1, Early <- 2, Timeout <- 1,
  Capacity <- 1, MaxTime <- 4, MaxMinted <- 2, clock <- vendorClock, cache <- vendorCache,
  doing <- vendorDoing, minted <- vendorMinted, refused <- vendorRefused
Google == INSTANCE VendorTokens WITH
  Vendor <- <<"fcm", "webpush">>, Credential <- {1, 2}, Account <- <<1, 2>>,
  Worker <- {w1, w2}, Life <- 4, Kept <- 3, Margin <- 1, Early <- 2, Timeout <- 1,
  Capacity <- 1, MaxTime <- 4, MaxMinted <- 2, clock <- vendorClock, cache <- vendorCache,
  doing <- vendorDoing, minted <- vendorMinted, refused <- vendorRefused

(* Two consoles at one project; one token of it, made, revoked and used.      *)
Consoles == INSTANCE ProjectAdmin WITH
  Editor <- {e1, e2}, Name <- {1, 2}, Token <- {}, Request <- {}, Caller <- {},
  MaxVersion <- 3, project <- adminProject, screen <- adminScreen, token <- adminToken,
  request <- adminRequest, caller <- adminCaller, assigned <- adminAssigned,
  audit <- adminAudit
Doors == INSTANCE ProjectAdmin WITH
  Editor <- {e1}, Name <- {1}, Token <- {1}, Request <- {1, 2}, Caller <- {1},
  MaxVersion <- 1, project <- adminProject, screen <- adminScreen, token <- adminToken,
  request <- adminRequest, caller <- adminCaller, assigned <- adminAssigned,
  audit <- adminAudit

(* Three calls about two messages, of which one has a key.                    *)
Messages == INSTANCE DeliveryLog WITH
  Row <- {1, 2}, Key <- {k1}, Caller <- {1, 2, 3}, MaxRetries <- 2, log <- logLog,
  call <- logCall, asked <- logAsked, took <- logTook

(* One dispatch to two devices, and two to one device; one send of a kind in  *)
(* a window.                                                                  *)
Fleet == INSTANCE PushDispatch WITH
  Device <- {1, 2}, KindOf <- <<"apns", "apns">>, Dispatch <- {d1}, Wired <- {"apns"},
  User <- {u1}, Max <- 1, token <- fanToken, credential <- fanCredential, spent <- fanSpent,
  dispatch <- fanDispatch, accepted <- fanAccepted, condemned <- fanCondemned
Handset == INSTANCE PushDispatch WITH
  Device <- {1}, KindOf <- <<"apns">>, Dispatch <- {d1, d2}, Wired <- {"apns"},
  User <- {u1}, Max <- 1, token <- fanToken, credential <- fanCredential, spent <- fanSpent,
  dispatch <- fanDispatch, accepted <- fanAccepted, condemned <- fanCondemned

(* Two threads and three maps; a cache that holds two.                        *)
Parses == INSTANCE MapCache WITH
  Key <- {1, 2, 3}, Thread <- {w1, w2}, Capacity <- 2, MaxClock <- 4, held <- mapHeld,
  touched <- mapTouched, clock <- mapClock, gone <- mapGone, flow <- mapFlow

(* Messages of five characters, a UUID of four, and every pair of the events  *)
(* of Grouping.                                                               *)
Cases == INSTANCE Grouping WITH
  Shape <- <<"h", "-", "h", "h">>, MinRun <- 2, MaxLen <- 5, subject <- caseSubject

-----------------------------------------------------------------------------
(* What does not run has no state.                                            *)
WithoutNotification ==
  /\ event = None /\ delivery = None /\ config = None /\ owner = None /\ muted = None
  /\ receipt = None /\ work = None /\ mode = None /\ generation = None /\ backup = None
  /\ spare = None
WithoutOperation ==
  /\ op = None /\ file = None /\ opWork = None /\ lock = None /\ identity = None
WithoutTask ==
  /\ task = None /\ taskIssue = None /\ signals = None /\ taskConfig = None
  /\ clock = None /\ command = None
WithoutCheck ==
  /\ check = None /\ runs = None /\ told = None /\ fence = None /\ paused = None
  /\ checkGeneration = None
WithoutMonitor ==
  /\ monitor = None /\ samples = None /\ monitorTold = None /\ monitorWork = None
  /\ probes = None /\ monitorGeneration = None
WithoutIngest ==
  /\ issue = None /\ stored = None /\ notice = None /\ tx = None /\ answer = None
  /\ deleted = None /\ reopened = None
WithoutAccount ==
  /\ account = None /\ session = None /\ link = None /\ assigned = None
  /\ accountTx = None /\ shell = None /\ lastSet = None
WithoutCloud ==
  /\ remote = None /\ local = None /\ cloudSession = None /\ cloudAssigned = None
  /\ ask = None /\ admitted = None
WithoutAudience ==
  /\ device = None /\ fits = None /\ preview = None /\ row = None /\ console = None
  /\ taken = None /\ got = None /\ sendReceipt = None /\ sendGeneration = None
  /\ sendMode = None /\ sendBackup = None
WithoutDescription ==
  /\ request = None
WithoutCredential ==
  /\ credential = None /\ probe = None /\ credentialReceipt = None /\ answers = None
WithoutTransport ==
  /\ storage = None /\ launch = None /\ started = None /\ timer = None /\ made = None
  /\ queue = None /\ sessions = None /\ dropped = None /\ sending = None
  /\ pending = None /\ drain = None /\ kept = None /\ reported = None /\ lost = None
WithoutReset ==
  /\ resetPending = None /\ rows = None /\ password = None /\ ownerSession = None
  /\ permit = None /\ cleared = None /\ completed = None /\ blobs = None
  /\ resetArchive = None /\ journal = None /\ resetReceipt = None /\ server = None
  /\ tool = None /\ attempts = None /\ acked = None /\ torn = None
  /\ resetGeneration = None
WithoutArchive ==
  /\ live = None /\ disk = None /\ capture = None /\ recovery = None
  /\ recoveryFile = None /\ reader = None /\ target = None /\ faults = None
  /\ puts = None
WithoutQuota ==
  /\ quotaClock = None /\ policy = None /\ heard = None /\ entitlement = None
  /\ usage = None /\ second = None /\ quotaStored = None /\ replays = None
  /\ attached = None /\ settled = None /\ projects = None /\ sent = None
  /\ applied = None /\ refused = None /\ quotaAdmitted = None /\ counted = None
  /\ billed = None
WithoutSymbol ==
  /\ symbolRows = None /\ cache = None /\ frames = None /\ checker = None
  /\ uploads = None /\ renewed = None
WithoutApp ==
  /\ apps = None /\ links = None /\ owned = None /\ releases = None /\ reports = None
  /\ native = None /\ upgraded = None /\ appTx = None /\ operatorView = None
  /\ appsMade = None
WithoutBoard ==
  /\ boardIssue = None /\ boardLog = None /\ boardAssigned = None /\ boardRequest = None
  /\ boardClock = None /\ boardByApi = None
WithoutDevice ==
  /\ appKey = None /\ appTraits = None /\ appHashing = None /\ appVendor = None
  /\ appNative = None /\ appSaid = None /\ appHandle = None /\ appInstall = None
  /\ appListening = None /\ appPumping = None /\ appStored = None /\ appFlow = None
  /\ appRow = None /\ appBodies = None /\ appServed = None /\ appMinted = None
  /\ appBehind = None /\ appMixed = None /\ appCrossed = None /\ appTwice = None
  /\ appGone = None
WithoutReplay ==
  /\ replayScreen = None /\ replayClock = None /\ replayBack = None /\ replayHost = None
  /\ replayPending = None /\ replayStay = None /\ replaySeen = None /\ replayRing = None
  /\ replayTaken = None /\ replayShots = None /\ replayShotEpoch = None
  /\ replayCapturing = None
WithoutBuffer ==
  /\ bufferQueue = None /\ bufferDropped = None /\ bufferAt = None /\ bufferMade = None
  /\ bufferEvicted = None /\ bufferLost = None /\ bufferOutcome = None
  /\ bufferDrained = None /\ bufferCounted = None
WithoutLimit ==
  /\ limitClock = None /\ limitBucket = None /\ limitCall = None /\ limitAdmitted = None
  /\ limitLate = None /\ limitAnswer = None
WithoutVendor ==
  /\ vendorClock = None /\ vendorCache = None /\ vendorDoing = None
  /\ vendorMinted = None /\ vendorRefused = None
WithoutAdmin ==
  /\ adminProject = None /\ adminScreen = None /\ adminToken = None
  /\ adminRequest = None /\ adminCaller = None /\ adminAssigned = None
  /\ adminAudit = None
WithoutLog ==
  /\ logLog = None /\ logCall = None /\ logAsked = None /\ logTook = None
WithoutFan ==
  /\ fanToken = None /\ fanCredential = None /\ fanSpent = None /\ fanDispatch = None
  /\ fanAccepted = None /\ fanCondemned = None
WithoutMap ==
  /\ mapHeld = None /\ mapTouched = None /\ mapClock = None /\ mapGone = None
  /\ mapFlow = None
WithoutCase ==
  /\ caseSubject = None

Init ==
  /\ part \in {"tickets", "hooks", "settings", "processes", "operations", "commits",
               "versions", "moments", "history", "checks", "restores", "monitors", "ingest",
               "twins", "team", "passwords", "cloud", "review", "restored", "api",
               "expressions", "commands", "probes", "pages", "app", "servers", "resets",
               "tools", "defects", "exchanges", "answers", "usage", "bundles", "android",
               "ios", "builds", "upgrades", "labels", "decisions", "releases", "agents",
               "lists", "apiPages", "launches", "calls", "wireframes", "dom", "shots",
               "ring", "rate", "keys", "adapters", "google", "consoles", "doors", "log",
               "fleet", "handset", "parses", "cases"}
  /\ \/ part = "tickets" /\ Tickets!Init
     \/ part = "hooks" /\ Hooks!Init
     \/ part = "settings" /\ Settings!Init
     \/ part \notin {"tickets", "hooks", "settings"} /\ WithoutNotification
  /\ \/ part = "processes" /\ Processes!Init
     \/ part = "operations" /\ Operations!Init
     \/ part \notin {"processes", "operations"} /\ WithoutOperation
  /\ \/ part = "commits" /\ Commits!Init
     \/ part = "versions" /\ Versions!Init
     \/ part = "moments" /\ Moments!Init
     \/ part \notin {"commits", "versions", "moments"} /\ WithoutTask
  /\ \/ part = "history" /\ History!Init
     \/ part = "checks" /\ Checks!Init
     \/ part = "restores" /\ Restores!Init
     \/ part \notin {"history", "checks", "restores"} /\ WithoutCheck
  /\ \/ part = "monitors" /\ Monitors!Init
     \/ part # "monitors" /\ WithoutMonitor
  /\ \/ part = "ingest" /\ Ingest!Init
     \/ part = "twins" /\ Twins!Init
     \/ part \notin {"ingest", "twins"} /\ WithoutIngest
  /\ \/ part = "team" /\ Team!Init
     \/ part = "passwords" /\ Passwords!Init
     \/ part \notin {"team", "passwords"} /\ WithoutAccount
  /\ \/ part = "cloud" /\ Cloud!Init
     \/ part # "cloud" /\ WithoutCloud
  /\ \/ part = "review" /\ Review!Init
     \/ part = "restored" /\ Restored!Init
     \/ part = "api" /\ Api!Init
     \/ part \notin {"review", "restored", "api"} /\ WithoutAudience
  /\ \/ part = "expressions" /\ Expressions!Init
     \/ part # "expressions" /\ WithoutDescription
  /\ \/ part = "commands" /\ Commands!Init
     \/ part = "probes" /\ Probes!Init
     \/ part \notin {"commands", "probes"} /\ WithoutCredential
  /\ \/ part = "pages" /\ Pages!Init
     \/ part = "app" /\ App!Init
     \/ part \notin {"pages", "app"} /\ WithoutTransport
  /\ \/ part = "servers" /\ Servers!Init
     \/ part = "resets" /\ Resets!Init
     \/ part = "tools" /\ Tools!Init
     \/ part \notin {"servers", "resets", "tools"} /\ WithoutReset
  /\ \/ part = "defects" /\ Defects!Init
     \/ part = "exchanges" /\ Exchanges!Init
     \/ part \notin {"defects", "exchanges"} /\ WithoutArchive
  /\ \/ part = "answers" /\ Answers!Init
     \/ part = "usage" /\ Usage!Init
     \/ part \notin {"answers", "usage"} /\ WithoutQuota
  /\ \/ part = "bundles" /\ Bundles!Init
     \/ part = "android" /\ Android!Init
     \/ part = "ios" /\ Ios!Init
     \/ part \notin {"bundles", "android", "ios"} /\ WithoutSymbol
  /\ \/ part = "builds" /\ Builds!Init
     \/ part = "upgrades" /\ Upgrades!Init
     \/ part = "labels" /\ Labels!Init
     \/ part \notin {"builds", "upgrades", "labels"} /\ WithoutApp
  /\ \/ part = "decisions" /\ Decisions!Init
     \/ part = "releases" /\ Releases!Init
     \/ part = "agents" /\ Agents!Init
     \/ part = "lists" /\ Lists!Init
     \/ part = "apiPages" /\ ApiPages!Init
     \/ part \notin {"decisions", "releases", "agents", "lists", "apiPages"} /\ WithoutBoard
  /\ \/ part = "launches" /\ Launches!Init
     \/ part = "calls" /\ Calls!Init
     \/ part \notin {"launches", "calls"} /\ WithoutDevice
  /\ \/ part = "wireframes" /\ Wireframes!Init
     \/ part = "dom" /\ Dom!Init
     \/ part = "shots" /\ Shots!Init
     \/ part \notin {"wireframes", "dom", "shots"} /\ WithoutReplay
  /\ \/ part = "ring" /\ Ring!Init
     \/ part # "ring" /\ WithoutBuffer
  /\ \/ part = "rate" /\ Rate!Init
     \/ part = "keys" /\ Keys!Init
     \/ part \notin {"rate", "keys"} /\ WithoutLimit
  /\ \/ part = "adapters" /\ Adapters!Init
     \/ part = "google" /\ Google!Init
     \/ part \notin {"adapters", "google"} /\ WithoutVendor
  /\ \/ part = "consoles" /\ Consoles!Init
     \/ part = "doors" /\ Doors!Init
     \/ part \notin {"consoles", "doors"} /\ WithoutAdmin
  /\ \/ part = "log" /\ Messages!Init
     \/ part # "log" /\ WithoutLog
  /\ \/ part = "fleet" /\ Fleet!Init
     \/ part = "handset" /\ Handset!Init
     \/ part \notin {"fleet", "handset"} /\ WithoutFan
  /\ \/ part = "parses" /\ Parses!Init
     \/ part # "parses" /\ WithoutMap
  /\ \/ part = "cases" /\ Cases!Init
     \/ part # "cases" /\ WithoutCase

Notify ==
  /\ \/ part = "tickets" /\ Tickets!Next
     \/ part = "hooks" /\ Hooks!Next
     \/ part = "settings" /\ Settings!Next
  /\ UNCHANGED <<part, operationVars, taskVars, checkVars, monitorVars, ingestVars,
                 accountVars, cloudVars, audienceVars, descriptionVars, credentialVars,
                 transportVars, resetVars, archiveVars, quotaVars, symbolVars, appVars,
                 boardVars, deviceVars, replayVars, bufferVars, limitVars, vendorVars,
                 adminVars, logVars, fanVars, mapVars, caseVars>>
Operate ==
  /\ \/ part = "processes" /\ Processes!Next
     \/ part = "operations" /\ Operations!Next
  /\ UNCHANGED <<part, notificationVars, taskVars, checkVars, monitorVars, ingestVars,
                 accountVars, cloudVars, audienceVars, descriptionVars, credentialVars,
                 transportVars, resetVars, archiveVars, quotaVars, symbolVars, appVars,
                 boardVars, deviceVars, replayVars, bufferVars, limitVars, vendorVars,
                 adminVars, logVars, fanVars, mapVars, caseVars>>
Automate ==
  /\ \/ part = "commits" /\ Commits!Next
     \/ part = "versions" /\ Versions!Next
     \/ part = "moments" /\ Moments!Next
  /\ UNCHANGED <<part, notificationVars, operationVars, checkVars, monitorVars, ingestVars,
                 accountVars, cloudVars, audienceVars, descriptionVars, credentialVars,
                 transportVars, resetVars, archiveVars, quotaVars, symbolVars, appVars,
                 boardVars, deviceVars, replayVars, bufferVars, limitVars, vendorVars,
                 adminVars, logVars, fanVars, mapVars, caseVars>>
CheckWeb ==
  /\ \/ part = "history" /\ History!Next
     \/ part = "checks" /\ Checks!Next
     \/ part = "restores" /\ Restores!Next
  /\ UNCHANGED <<part, notificationVars, operationVars, taskVars, monitorVars, ingestVars,
                 accountVars, cloudVars, audienceVars, descriptionVars, credentialVars,
                 transportVars, resetVars, archiveVars, quotaVars, symbolVars, appVars,
                 boardVars, deviceVars, replayVars, bufferVars, limitVars, vendorVars,
                 adminVars, logVars, fanVars, mapVars, caseVars>>
Monitor ==
  /\ part = "monitors" /\ Monitors!Next
  /\ UNCHANGED <<part, notificationVars, operationVars, taskVars, checkVars, ingestVars,
                 accountVars, cloudVars, audienceVars, descriptionVars, credentialVars,
                 transportVars, resetVars, archiveVars, quotaVars, symbolVars, appVars,
                 boardVars, deviceVars, replayVars, bufferVars, limitVars, vendorVars,
                 adminVars, logVars, fanVars, mapVars, caseVars>>
Receive ==
  /\ \/ part = "ingest" /\ Ingest!Next
     \/ part = "twins" /\ Twins!Next
  /\ UNCHANGED <<part, notificationVars, operationVars, taskVars, checkVars, monitorVars,
                 accountVars, cloudVars, audienceVars, descriptionVars, credentialVars,
                 transportVars, resetVars, archiveVars, quotaVars, symbolVars, appVars,
                 boardVars, deviceVars, replayVars, bufferVars, limitVars, vendorVars,
                 adminVars, logVars, fanVars, mapVars, caseVars>>
SignIn ==
  /\ \/ part = "team" /\ Team!Next
     \/ part = "passwords" /\ Passwords!Next
  /\ UNCHANGED <<part, notificationVars, operationVars, taskVars, checkVars, monitorVars,
                 ingestVars, cloudVars, audienceVars, descriptionVars, credentialVars,
                 transportVars, resetVars, archiveVars, quotaVars, symbolVars, appVars,
                 boardVars, deviceVars, replayVars, bufferVars, limitVars, vendorVars,
                 adminVars, logVars, fanVars, mapVars, caseVars>>
SignInCloud ==
  /\ part = "cloud" /\ Cloud!Next
  /\ UNCHANGED <<part, notificationVars, operationVars, taskVars, checkVars, monitorVars,
                 ingestVars, accountVars, audienceVars, descriptionVars, credentialVars,
                 transportVars, resetVars, archiveVars, quotaVars, symbolVars, appVars,
                 boardVars, deviceVars, replayVars, bufferVars, limitVars, vendorVars,
                 adminVars, logVars, fanVars, mapVars, caseVars>>
SendToAudience ==
  /\ \/ part = "review" /\ Review!Next
     \/ part = "restored" /\ Restored!Next
     \/ part = "api" /\ Api!Next
  /\ UNCHANGED <<part, notificationVars, operationVars, taskVars, checkVars, monitorVars,
                 ingestVars, accountVars, cloudVars, descriptionVars, credentialVars,
                 transportVars, resetVars, archiveVars, quotaVars, symbolVars, appVars,
                 boardVars, deviceVars, replayVars, bufferVars, limitVars, vendorVars,
                 adminVars, logVars, fanVars, mapVars, caseVars>>
Describe ==
  /\ part = "expressions" /\ Expressions!Next
  /\ UNCHANGED <<part, notificationVars, operationVars, taskVars, checkVars, monitorVars,
                 ingestVars, accountVars, cloudVars, audienceVars, credentialVars,
                 transportVars, resetVars, archiveVars, quotaVars, symbolVars, appVars,
                 boardVars, deviceVars, replayVars, bufferVars, limitVars, vendorVars,
                 adminVars, logVars, fanVars, mapVars, caseVars>>
Probe ==
  /\ \/ part = "commands" /\ Commands!Next
     \/ part = "probes" /\ Probes!Next
  /\ UNCHANGED <<part, notificationVars, operationVars, taskVars, checkVars, monitorVars,
                 ingestVars, accountVars, cloudVars, audienceVars, descriptionVars,
                 transportVars, resetVars, archiveVars, quotaVars, symbolVars, appVars,
                 boardVars, deviceVars, replayVars, bufferVars, limitVars, vendorVars,
                 adminVars, logVars, fanVars, mapVars, caseVars>>
Transmit ==
  /\ \/ part = "pages" /\ Pages!Next
     \/ part = "app" /\ App!Next
  /\ UNCHANGED <<part, notificationVars, operationVars, taskVars, checkVars, monitorVars,
                 ingestVars, accountVars, cloudVars, audienceVars, descriptionVars,
                 credentialVars, resetVars, archiveVars, quotaVars, symbolVars, appVars,
                 boardVars, deviceVars, replayVars, bufferVars, limitVars, vendorVars,
                 adminVars, logVars, fanVars, mapVars, caseVars>>
ResetInstance ==
  /\ \/ part = "servers" /\ Servers!Next
     \/ part = "resets" /\ Resets!Next
     \/ part = "tools" /\ Tools!Next
  /\ UNCHANGED <<part, notificationVars, operationVars, taskVars, checkVars, monitorVars,
                 ingestVars, accountVars, cloudVars, audienceVars, descriptionVars,
                 credentialVars, transportVars, archiveVars, quotaVars, symbolVars, appVars,
                 boardVars, deviceVars, replayVars, bufferVars, limitVars, vendorVars,
                 adminVars, logVars, fanVars, mapVars, caseVars>>
Recover ==
  /\ \/ part = "defects" /\ Defects!Next
     \/ part = "exchanges" /\ Exchanges!Next
  /\ UNCHANGED <<part, notificationVars, operationVars, taskVars, checkVars, monitorVars,
                 ingestVars, accountVars, cloudVars, audienceVars, descriptionVars,
                 credentialVars, transportVars, resetVars, quotaVars, symbolVars, appVars,
                 boardVars, deviceVars, replayVars, bufferVars, limitVars, vendorVars,
                 adminVars, logVars, fanVars, mapVars, caseVars>>
Charge ==
  /\ \/ part = "answers" /\ Answers!Next
     \/ part = "usage" /\ Usage!Next
  /\ UNCHANGED <<part, notificationVars, operationVars, taskVars, checkVars, monitorVars,
                 ingestVars, accountVars, cloudVars, audienceVars, descriptionVars,
                 credentialVars, transportVars, resetVars, archiveVars, symbolVars, appVars,
                 boardVars, deviceVars, replayVars, bufferVars, limitVars, vendorVars,
                 adminVars, logVars, fanVars, mapVars, caseVars>>
Symbolicate ==
  /\ \/ part = "bundles" /\ Bundles!Next
     \/ part = "android" /\ Android!Next
     \/ part = "ios" /\ Ios!Next
  /\ UNCHANGED <<part, notificationVars, operationVars, taskVars, checkVars, monitorVars,
                 ingestVars, accountVars, cloudVars, audienceVars, descriptionVars,
                 credentialVars, transportVars, resetVars, archiveVars, quotaVars, appVars,
                 boardVars, deviceVars, replayVars, bufferVars, limitVars, vendorVars,
                 adminVars, logVars, fanVars, mapVars, caseVars>>
Discover ==
  /\ \/ part = "builds" /\ Builds!Next
     \/ part = "upgrades" /\ Upgrades!Next
     \/ part = "labels" /\ Labels!Next
  /\ UNCHANGED <<part, notificationVars, operationVars, taskVars, checkVars, monitorVars,
                 ingestVars, accountVars, cloudVars, audienceVars, descriptionVars,
                 credentialVars, transportVars, resetVars, archiveVars, quotaVars,
                 symbolVars, boardVars, deviceVars, replayVars, bufferVars, limitVars,
                 vendorVars, adminVars, logVars, fanVars, mapVars, caseVars>>
Board ==
  /\ \/ part = "decisions" /\ Decisions!Next
     \/ part = "releases" /\ Releases!Next
     \/ part = "agents" /\ Agents!Next
     \/ part = "lists" /\ Lists!Next
     \/ part = "apiPages" /\ ApiPages!Next
  /\ UNCHANGED <<part, notificationVars, operationVars, taskVars, checkVars, monitorVars,
                 ingestVars, accountVars, cloudVars, audienceVars, descriptionVars,
                 credentialVars, transportVars, resetVars, archiveVars, quotaVars,
                 symbolVars, appVars, deviceVars, replayVars, bufferVars, limitVars,
                 vendorVars, adminVars, logVars, fanVars, mapVars, caseVars>>
Device ==
  /\ \/ part = "launches" /\ Launches!Next
     \/ part = "calls" /\ Calls!Next
  /\ UNCHANGED <<part, notificationVars, operationVars, taskVars, checkVars, monitorVars,
                 ingestVars, accountVars, cloudVars, audienceVars, descriptionVars,
                 credentialVars, transportVars, resetVars, archiveVars, quotaVars,
                 symbolVars, appVars, boardVars, replayVars, bufferVars, limitVars,
                 vendorVars, adminVars, logVars, fanVars, mapVars, caseVars>>
Replay ==
  /\ \/ part = "wireframes" /\ Wireframes!Next
     \/ part = "dom" /\ Dom!Next
     \/ part = "shots" /\ Shots!Next
  /\ UNCHANGED <<part, notificationVars, operationVars, taskVars, checkVars, monitorVars,
                 ingestVars, accountVars, cloudVars, audienceVars, descriptionVars,
                 credentialVars, transportVars, resetVars, archiveVars, quotaVars,
                 symbolVars, appVars, boardVars, deviceVars, bufferVars, limitVars,
                 vendorVars, adminVars, logVars, fanVars, mapVars, caseVars>>
Buffer ==
  /\ part = "ring" /\ Ring!Next
  /\ UNCHANGED <<part, notificationVars, operationVars, taskVars, checkVars, monitorVars,
                 ingestVars, accountVars, cloudVars, audienceVars, descriptionVars,
                 credentialVars, transportVars, resetVars, archiveVars, quotaVars,
                 symbolVars, appVars, boardVars, deviceVars, replayVars, limitVars,
                 vendorVars, adminVars, logVars, fanVars, mapVars, caseVars>>
Limits ==
  /\ \/ part = "rate" /\ Rate!Next
     \/ part = "keys" /\ Keys!Next
  /\ UNCHANGED <<part, notificationVars, operationVars, taskVars, checkVars, monitorVars,
                 ingestVars, accountVars, cloudVars, audienceVars, descriptionVars,
                 credentialVars, transportVars, resetVars, archiveVars, quotaVars,
                 symbolVars, appVars, boardVars, deviceVars, replayVars, bufferVars,
                 vendorVars, adminVars, logVars, fanVars, mapVars, caseVars>>
Vendors ==
  /\ \/ part = "adapters" /\ Adapters!Next
     \/ part = "google" /\ Google!Next
  /\ UNCHANGED <<part, notificationVars, operationVars, taskVars, checkVars, monitorVars,
                 ingestVars, accountVars, cloudVars, audienceVars, descriptionVars,
                 credentialVars, transportVars, resetVars, archiveVars, quotaVars,
                 symbolVars, appVars, boardVars, deviceVars, replayVars, bufferVars,
                 limitVars, adminVars, logVars, fanVars, mapVars, caseVars>>
Administer ==
  /\ \/ part = "consoles" /\ Consoles!Next
     \/ part = "doors" /\ Doors!Next
  /\ UNCHANGED <<part, notificationVars, operationVars, taskVars, checkVars, monitorVars,
                 ingestVars, accountVars, cloudVars, audienceVars, descriptionVars,
                 credentialVars, transportVars, resetVars, archiveVars, quotaVars,
                 symbolVars, appVars, boardVars, deviceVars, replayVars, bufferVars,
                 limitVars, vendorVars, logVars, fanVars, mapVars, caseVars>>
Tell ==
  /\ part = "log" /\ Messages!Next
  /\ UNCHANGED <<part, notificationVars, operationVars, taskVars, checkVars, monitorVars,
                 ingestVars, accountVars, cloudVars, audienceVars, descriptionVars,
                 credentialVars, transportVars, resetVars, archiveVars, quotaVars,
                 symbolVars, appVars, boardVars, deviceVars, replayVars, bufferVars,
                 limitVars, vendorVars, adminVars, fanVars, mapVars, caseVars>>
Fan ==
  /\ \/ part = "fleet" /\ Fleet!Next
     \/ part = "handset" /\ Handset!Next
  /\ UNCHANGED <<part, notificationVars, operationVars, taskVars, checkVars, monitorVars,
                 ingestVars, accountVars, cloudVars, audienceVars, descriptionVars,
                 credentialVars, transportVars, resetVars, archiveVars, quotaVars,
                 symbolVars, appVars, boardVars, deviceVars, replayVars, bufferVars,
                 limitVars, vendorVars, adminVars, logVars, mapVars, caseVars>>
ParseMap ==
  /\ part = "parses" /\ Parses!Next
  /\ UNCHANGED <<part, notificationVars, operationVars, taskVars, checkVars, monitorVars,
                 ingestVars, accountVars, cloudVars, audienceVars, descriptionVars,
                 credentialVars, transportVars, resetVars, archiveVars, quotaVars,
                 symbolVars, appVars, boardVars, deviceVars, replayVars, bufferVars,
                 limitVars, vendorVars, adminVars, logVars, fanVars, caseVars>>
Assign ==
  /\ part = "cases" /\ Cases!Next
  /\ UNCHANGED <<part, notificationVars, operationVars, taskVars, checkVars, monitorVars,
                 ingestVars, accountVars, cloudVars, audienceVars, descriptionVars,
                 credentialVars, transportVars, resetVars, archiveVars, quotaVars,
                 symbolVars, appVars, boardVars, deviceVars, replayVars, bufferVars,
                 limitVars, vendorVars, adminVars, logVars, fanVars, mapVars>>

Next ==
  \/ Notify \/ Operate \/ Automate \/ CheckWeb \/ Monitor \/ Receive \/ SignIn
  \/ SignInCloud \/ SendToAudience \/ Describe \/ Probe \/ Transmit \/ ResetInstance
  \/ Recover \/ Charge \/ Symbolicate \/ Discover \/ Board \/ Device \/ Replay
  \/ Buffer \/ Limits \/ Vendors \/ Administer \/ Tell \/ Fan \/ ParseMap \/ Assign
Spec == Init /\ [][Next]_vars

-----------------------------------------------------------------------------
(* The type invariants of the parts.                                          *)
TypeOK ==
  CASE part = "tickets" -> Tickets!TypeOK
    [] part = "hooks" -> Hooks!TypeOK
    [] part = "settings" -> Settings!TypeOK
    [] part = "processes" -> Processes!TypeOK
    [] part = "operations" -> Operations!TypeOK
    [] part = "commits" -> Commits!TypeOK
    [] part = "versions" -> Versions!TypeOK
    [] part = "moments" -> Moments!TypeOK
    [] part = "history" -> History!TypeOK
    [] part = "checks" -> Checks!TypeOK
    [] part = "restores" -> Restores!TypeOK
    [] part = "monitors" -> Monitors!TypeOK
    [] part = "ingest" -> Ingest!TypeOK
    [] part = "twins" -> Twins!TypeOK
    [] part = "team" -> Team!TypeOK
    [] part = "passwords" -> Passwords!TypeOK
    [] part = "cloud" -> Cloud!TypeOK
    [] part = "review" -> Review!TypeOK
    [] part = "restored" -> Restored!TypeOK
    [] part = "api" -> Api!TypeOK
    [] part = "expressions" -> Expressions!TypeOK
    [] part = "commands" -> Commands!TypeOK
    [] part = "probes" -> Probes!TypeOK
    [] part = "pages" -> Pages!TypeOK
    [] part = "app" -> App!TypeOK
    [] part = "servers" -> Servers!TypeOK
    [] part = "resets" -> Resets!TypeOK
    [] part = "tools" -> Tools!TypeOK
    [] part = "defects" -> Defects!TypeOK
    [] part = "exchanges" -> Exchanges!TypeOK
    [] part = "answers" -> Answers!TypeOK
    [] part = "usage" -> Usage!TypeOK
    [] part = "bundles" -> Bundles!TypeOK
    [] part = "android" -> Android!TypeOK
    [] part = "ios" -> Ios!TypeOK
    [] part = "builds" -> Builds!TypeOK
    [] part = "upgrades" -> Upgrades!TypeOK
    [] part = "labels" -> Labels!TypeOK
    [] part = "decisions" -> Decisions!TypeOK
    [] part = "releases" -> Releases!TypeOK
    [] part = "agents" -> Agents!TypeOK
    [] part = "lists" -> Lists!TypeOK
    [] part = "apiPages" -> ApiPages!TypeOK
    [] part = "launches" -> Launches!TypeOK
    [] part = "calls" -> Calls!TypeOK
    [] part = "wireframes" -> Wireframes!TypeOK
    [] part = "dom" -> Dom!TypeOK
    [] part = "shots" -> Shots!TypeOK
    [] part = "ring" -> Ring!TypeOK
    [] part = "rate" -> Rate!TypeOK
    [] part = "keys" -> Keys!TypeOK
    [] part = "adapters" -> Adapters!TypeOK
    [] part = "google" -> Google!TypeOK
    [] part = "consoles" -> Consoles!TypeOK
    [] part = "doors" -> Doors!TypeOK
    [] part = "log" -> Messages!TypeOK
    [] part = "fleet" -> Fleet!TypeOK
    [] part = "handset" -> Handset!TypeOK
    [] part = "parses" -> Parses!TypeOK
    [] part = "cases" -> Cases!TypeOK

(* A tracker gets no second ticket, a device no second copy of a message, and *)
(* a delivery that waits has an attempt left (notification_delivery.rs:1,     *)
(* push_audience.rs:158). A keyed message is dispatched once, and once more   *)
(* for each retry that its row counts (notifier/src/service.rs:79).           *)
NoSecondMessage ==
  CASE part = "tickets" -> Tickets!NoSecondTicket /\ Tickets!NoStrandedDelivery
    [] part = "hooks" -> Hooks!NoStrandedDelivery
    [] part = "settings" -> Settings!NoStrandedDelivery
    [] part = "review" -> Review!NobodyTwice
    [] part = "restored" -> Restored!NobodyTwice
    [] part = "api" -> Api!NobodyTwice
    [] part = "log" -> Messages!OneRowPerKey /\ Messages!SendsAreCounted
    [] OTHER -> TRUE
(* No partial, cancelled or foreign archive is offered                        *)
(* (instance_operations.rs), an instance has the whole of one archive that    *)
(* was verified, or nothing of it (restore.rs:56), and a capture of what is   *)
(* whole is published (capture.rs:397).                                       *)
OnlyWholeBackups ==
  CASE part = "processes" -> Processes!OfferedBackupIsWhole
    [] part = "operations" -> Operations!OfferedBackupIsWhole
    [] part = "defects" -> Defects!OnlyWholeArchives /\ Defects!CapturedIsAccepted
    [] part = "exchanges" -> Exchanges!OnlyWholeArchives /\ Exchanges!CapturedIsAccepted
    [] OTHER -> TRUE
(* Verification has its proof, in whatever order signals come                 *)
(* (handlers/task_signals.rs), an issue that regressed has no task that is    *)
(* done, and a member's command acts on the task that the member saw, a       *)
(* refused one on nothing (handlers/tasks.rs). The audit log tells every      *)
(* change of a project, and a console replaces what it shows                  *)
(* (projects.rs:236); what a log calls delivered was taken (service.rs).      *)
VerifiedIsProved ==
  CASE part = "commits" -> Commits!VerifiedIsProved /\ Commits!RegressedIsNotDone /\ Commits!CurrentViewIsTrue /\ Commits!RefusedChangesNothing
    [] part = "versions" -> Versions!VerifiedIsProved /\ Versions!RegressedIsNotDone /\ Versions!CurrentViewIsTrue /\ Versions!RefusedChangesNothing
    [] part = "moments" -> Moments!VerifiedIsProved /\ Moments!RegressedIsNotDone /\ Moments!CurrentViewIsTrue /\ Moments!RefusedChangesNothing
    [] part = "consoles" -> Consoles!AuditTellsAll /\ Consoles!AuditIsTrue /\ Consoles!VersionNamesRow
    [] part = "doors" -> Doors!AuditTellsAll /\ Doors!AuditIsTrue /\ Doors!VersionNamesRow
    [] part = "log" -> Messages!DeliveredWasTaken
    [] OTHER -> TRUE
(* "An old result cannot overwrite a newer recovery" (web_checks.rs:493), no  *)
(* late probe is counted after a newer one (monitors.rs:1), and a verdict     *)
(* about a credential is never that of an earlier probe or secret. Of checks  *)
(* and of monitors alike, down and recovered alternate.                       *)
ResultsInOrder ==
  CASE part = "history" -> History!HealthFollowsRuns /\ History!IncidentsAlternate
    [] part = "checks" -> Checks!HealthFollowsRuns /\ Checks!IncidentsAlternate
    [] part = "restores" -> Restores!HealthFollowsRuns /\ Restores!IncidentsAlternate
    [] part = "monitors" -> Monitors!ResultsInOrder /\ Monitors!IncidentsAlternate
    [] part = "commands" -> Commands!VerdictsInOrder
    [] part = "probes" -> Probes!VerdictsInOrder
    [] OTHER -> TRUE
(* Each stored event is counted once and charged once, each reopening is told *)
(* once, a replay is charged once (pipeline.rs:429, 536, cloud_quota.rs:226). *)
EachOnce ==
  CASE part = "ingest" -> Ingest!EventsCountedOnce /\ Ingest!ReopeningsAnnounced
    [] part = "twins" -> Twins!EventsCountedOnce /\ Twins!ReopeningsAnnounced
    [] part = "answers" -> Answers!RetransmissionIsFree /\ Answers!ReplayChargedOnce
    [] part = "usage" -> Usage!RetransmissionIsFree /\ Usage!ReplayChargedOnce
    [] OTHER -> TRUE
(* A session outlives no password but the one it belongs to                   *)
(* (bootstrap.rs:126, handlers/auth.rs:422), and nobody enters with what the  *)
(* control service took away (cloud.rs:569), and the newest policy rules      *)
(* (cloud_quota.rs:1). No window admits more than its number                  *)
(* (rate_limit.rs:3). A vendor is asked with a token that is alive and of the *)
(* send's own account, and no cache gives a refused one again (fcm.rs:198,    *)
(* push_worker.rs:498). A revoked token of a project lets nobody in, nor an   *)
(* app's token an agent (ingest-token/src/model.rs).                          *)
OnlyWhoMayEnter ==
  CASE part = "team" -> Team!SessionsFollowPassword
    [] part = "passwords" -> Passwords!SessionsFollowPassword
    [] part = "cloud" -> Cloud!AdmittedIsCurrent
    [] part = "answers" -> Answers!NewestPolicyRules
    [] part = "usage" -> Usage!NewestPolicyRules
    [] part = "rate" -> Rate!RateIsKept /\ Rate!WaitIsEnough
    [] part = "keys" -> Keys!RateIsKept /\ Keys!WaitIsEnough
    [] part = "adapters" -> Adapters!AliveOnArrival /\ Adapters!TokenIsOwn /\ Adapters!RefusedStaysOut /\ Adapters!CachesAreBounded
    [] part = "google" -> Google!AliveOnArrival /\ Google!TokenIsOwn /\ Google!RefusedStaysOut /\ Google!CachesAreBounded
    [] part = "doors" -> Doors!RevokedStaysOut
    [] OTHER -> TRUE
(* A reset clears nothing that its archive does not have, and an instance     *)
(* with blobs of before is fenced (reset.rs:216, 283).                        *)
ResetLosesNothing ==
  CASE part = "servers" -> Servers!NothingLost /\ Servers!FencedWhileDirty
    [] part = "resets" -> Resets!NothingLost /\ Resets!FencedWhileDirty
    [] part = "tools" -> Tools!NothingLost /\ Tools!FencedWhileDirty
    [] OTHER -> TRUE
(* A stored frame keeps its raw position, shows the source of the line that   *)
(* it names, and another pass with the same maps shows nothing new            *)
(* (symbolicate.rs:24, resymbolicate.rs:48); a symbol file shows as readable  *)
(* only if it is, and is then found (artifacts_upload.rs:218). A recording    *)
(* played back is what was on the screen, of one stay in front (replay-       *)
(* ring.ts:15, lifecycle.ts:3). The cache of parsed maps is bounded, and      *)
(* drops what was used least recently (sourcemap-resolver/src/cache.rs).      *)
FramesAreTrue ==
  CASE part = "bundles" -> Bundles!OriginalsAreKept /\ Bundles!ContextIsOfTheFrame /\ Bundles!ReadableIsFound /\ Bundles!SecondPassIsIdle
    [] part = "android" -> Android!OriginalsAreKept /\ Android!ContextIsOfTheFrame /\ Android!ReadableIsFound /\ Android!SecondPassIsIdle
    [] part = "ios" -> Ios!OriginalsAreKept /\ Ios!ContextIsOfTheFrame /\ Ios!ReadableIsFound /\ Ios!SecondPassIsIdle
    [] part = "wireframes" -> Wireframes!PlaybackIsTrue /\ Wireframes!ReachesBack /\ Wireframes!OneStay
    [] part = "dom" -> Dom!PlaybackIsTrue
    [] part = "shots" -> Shots!OneStay
    [] part = "parses" -> Parses!MemoryIsBounded /\ Parses!RecentStay
    [] OTHER -> TRUE
(* "Two explicit package identifiers must never collapse" (apps.rs:191), and  *)
(* what names no package is guessed to be of a package only with a reason.    *)
(* Events share an issue exactly if they are the same case, whatever numbers  *)
(* their messages hold (pipeline.rs:116, normalize.rs).                       *)
AppsAreKeptApart ==
  CASE part = "builds" -> Builds!PackagesNeverCollapse /\ Builds!GuessesAreJustified /\ Builds!BuildsKnowTheirApps
    [] part = "upgrades" -> Upgrades!PackagesNeverCollapse /\ Upgrades!GuessesAreJustified /\ Upgrades!BuildsKnowTheirApps
    [] part = "labels" -> Labels!PackagesNeverCollapse /\ Labels!GuessesAreJustified /\ Labels!BuildsKnowTheirApps
    [] part = "cases" -> Cases!NumbersCollapse /\ Cases!NormalIsFinal /\ Cases!UuidsVanish /\ Cases!CasesAreKeptApart /\ Cases!InputsAreKeptApart
    [] OTHER -> TRUE
(* What was raised before a restore is never sent (notification_queue.rs:72). *)
RestoredStaysQuiet ==
  [][CASE part = "tickets" -> Tickets!QuietStep
       [] part = "hooks" -> Hooks!QuietStep
       [] OTHER -> TRUE]_vars
(* An operation that ended is never revived by a worker that was late, after  *)
(* a regression only newer evidence counts (team.rs, regress), and an app     *)
(* keeps the name that it reported and the label that its operator gave       *)
(* (apps.rs:143).                                                             *)
DecisionsStand ==
  [][CASE part = "processes" -> Processes!EndedStep
       [] part = "operations" -> Operations!EndedStep
       [] part = "commits" -> Commits!SinceStep
       [] part = "versions" -> Versions!SinceStep
       [] part = "moments" -> Moments!SinceStep
       [] part = "builds" -> Builds!KeptStep
       [] part = "upgrades" -> Upgrades!KeptStep
       [] part = "labels" -> Labels!KeptStep
       [] OTHER -> TRUE]_vars
=============================================================================
