# OADP non-admin controllers in TLA+

The OADP non-admin controllers let users without cluster-admin rights back up and
restore their own namespaces. A user writes *NonAdmin* objects (NAB, NAR, NABSL, NADR)
in a namespace of theirs; the controllers turn them into Velero objects in the OADP
namespace, mirror Velero's answers into the status of the user's objects, and take the
Velero objects down again. All state lives in Kubernetes objects; a controller process
has only caches, work queues and one worker per controller. What is hard about such code
is what a unit test with a fake client cannot show: caches that lag behind the API
server, writes that conflict, events that are filtered or coalesced, a crash between two
calls, users and admins who act in between.

This directory models the controllers as they are written.

## Inventory

| component | state | operations | who it meets | hard part |
|---|---|---|---|---|
| NonAdminBackup controller, `nonadminbackup_controller.go` | NABs: phase, conditions, NACUUID, finalizer, mirror; Velero Backups and DeleteBackupRequests labelled with the NACUUID | four paths of `Reconcile`: delete with data (`spec.deleteBackup`), direct deletion, sync, create/update | users, Velero (backups finish, expire, are synced back from object storage; requests are processed or refused), NAR controller, synchronizer | stale caches, conflicts, the two deletion paths mixed, lookups by label |
| NonAdminBackupStorageLocation controller, `nonadminbackupstoragelocation_controller.go` | NABSLs, the admin's request, a Secret and a BSL per NACUUID | create/update path (validate, NACUUID, request, finalizer, decision, Secret, BSL, status), deletion path | users, the cluster admin, Velero's periodic BSL check, NAB controller, garbage collector | four caches of different age, the admin deciding about one spec while the user edits another, two-call creation of the request |
| NonAdminDownloadRequest controller, `nonadmindownloadrequest_controller.go` | NADRs and Velero DownloadRequests named after their UID | `Reconcile`: expire, schedule, copy the URL, create the VDR | users, Velero, NAB and NAR controllers, time | merge patches, predicates that filter status changes, a requeue timer |
| NonAdminRestore controller, `nonadminrestore_controller.go` | NARs, Velero Restores | create path (init, validate, UUID, finalizer, create), deletion path | NAB status, Velero, garbage collector | NAB changing phase underneath, a restore that must not run twice, Velero's own finalizer on a Restore |
| Garbage collector, `garbagecollector_controller.go` | none | every period: delete Secrets, BSLs, Backups, Restores and requests whose owner is gone | all of the above | lists and lookups of different age, owners found by name |
| Synchronizer, `nonadminbackupsynchronizer_controller.go` | none | every period: create the missing NAB of a finished backup | NAB controller, NABSLs | NABs that are just being deleted |
| Predicates and handlers, `internal/predicate`, `internal/handler` | none | which event enqueues which object | every controller | an event that is not accepted and never repeated |
| Validation and lookups, `internal/common/function` | none | spec validation, lookups by label, queue positions, `GenerateNacObjectUUID` | every controller | lookups that fail when two objects carry a label; name lengths |
| Manager, `cmd/main.go` | approval flag and periods, read once | starts the controllers | | the flag changes over a restart |

What makes each component correct:

* **NAB**: a Velero Backup in progress has a NAB with its NACUUID and the finalizer; the
  NACUUID never changes; a backup is created once; restores accepted from a Created NAB are
  deleted before the data, by a worker that sees the stored NAB; a withdrawn deletion takes
  no data; a deletion ends, with `deleteBackup` it takes backup and data with it; the outcome
  of the backup is reported.
* **NABSL**: Velero is only given specs the admin approved; nothing is created for a NABSL
  without finalizer; an approval leads to a BSL and its withdrawal to none; NABs go before
  their location; a deletion ends and leaves no orphans; a NACUUID is given out once.
* **NADR**: a URL that is provided arrives while it is good; a request that can be served
  is put to Velero, about the object it names, or given up; a NADR only shows answers Velero gave to
  requests made for it, and keeps a good one; an expired NADR is deleted.
* **NAR**: a restore is created once, for a NAR that is stored with its NACUUID and the
  finalizer; its end is reported; a deletion ends and what it leaves behind is collected.
* **Garbage collector, synchronizer**: a backup whose NAB has no sync label is not collected
  while that NAB stays, nor the Secret or the BSL of a NABSL that is stored; no backup stays
  without a NAB; the two, working on old findings, do nothing that breaks what the controller
  relies on.
* **Queue positions**: once every event has been served, a NAB whose last reconcile got as far
  as its position shows its place.
* **Names**: a generated object name fits a label value and ends with its whole UUID.

## Modules

| module | models |
|---|---|
| `BackupLifecycle` | abstract: what the NAB controller promises of NABs and the backups it runs for them; its own theorem |
| `NonAdminBackup` | the NAB controller with its informers, users, Velero, and what synchronizer and collector may do to it; maps itself to `BackupLifecycle` (`Lifecycle`) |
| `MCNonAdminBackup` | symmetry of NACUUIDs for TLC |
| `BackupSynchronization` | the passes of the synchronizer and of the collector's backup loop, composed with `NonAdminBackup`, whose specification it implements (`ControllerSpec`) |
| `BackupQueue` | queue positions of NABs, the queue predicate and handler |
| `NacObjectName` | `GenerateNacObjectUUID` over sequences of characters |
| `MCBackupQueue` | the two above on small inputs |
| `NonAdminRestore` | the NAR controller with its informers, users, the NAB as a restore sees it, Velero, the collector's restore loop |
| `NonAdminDownloadRequest` | the NADR controller, its timer and watches, Velero, time |
| `LocationLifecycle` | abstract: what the NABSL controller promises of NABSLs and of what Velero gets for them |
| `NonAdminBackupStorageLocation` | the NABSL controller with its informers, the admin, Velero's checks, the collector's loops over Secrets, BSLs and requests; maps itself to `LocationLifecycle` (`Location`) |
| `MCNonAdminBackupStorageLocation` | symmetry of NACUUIDs and specs for TLC |
| `NonAdminBackupProofs`, `BackupLifecycleProofs`, `BackupSynchronizationProofs` | invariants and theorems about NABs, each module built on the one before |
| `NonAdminRestoreProofs`, `NonAdminBackupStorageLocationProofs`, `NonAdminDownloadRequestProofs`, `BackupQueueProofs` | invariants and theorems about NARs, NABSLs, NADRs, queue positions and names |

How they fit: `BackupLifecycle` <- `NonAdminBackup` <- `BackupSynchronization`, each arrow an
implementation that is model-checked and proved. `NonAdminBackup` has `SyncCreate` and
`CollectBackup` as steps that may happen at any time; `BackupSynchronization` replaces them by
the passes that lead to them and shows that nothing else comes out. `NonAdminRestore` meets the
NAB controller at the phase of the NAB and at `DeletedWithNAB`; the NAB's side of the same
meeting is `CreateRestore`, `DeleteRestores` and `RestoreGone`. Validation reads caches there as
in the code: `CreateRestore` accepts a restore by the cached phase of the NAB, and
`AcceptBackup` a NAB by the cached NABSL and BSL. `LocationLifecycle` <-
`NonAdminBackupStorageLocation` is checked and proved in the same way: the deletion timestamp
and the finalizer of a NABSL are its life, `approved`, `bsl` and `secret` what was granted, the
locations and the credentials; queue, worker, caches and requests are what the abstraction does
without.

### How the code becomes actions

The modules of the controllers are built the same way.

* **API server and caches.** `nab`, `nabsl`, `request`, `vb`, ... are the stored objects.
  `cache`, `vbSeen`, `requestSeen`, ... are what the manager's client reads: the informers'
  copies. A `Deliver...` action lets a copy catch up and hands the event, if a predicate
  accepts it, to the work queue. Events of the same object coalesce, as watch and queue do.
  An informer has one entry per name: where two objects have one name in turn, it shows the
  end of the first before the second (`Shown`, for the VDRs of one NADR).
* **The worker.** controller-runtime runs one worker per controller. `pc`, `cur` and `local`
  are its position, the object it reconciles and its in-memory copy. A reconcile is cut at
  every call that writes, or whose answer is used later, so that everything else interleaves
  there. Steps that only read and compute are part of the next write.
* **Optimistic locking.** `localFresh` says that the worker's copy has the stored
  resourceVersion. `Update` and `Status().Update` succeed only then, otherwise the reconcile
  ends with the conflict and is queued again. Delete calls have no precondition. The merge
  patches (of NADRs and of a request's decision) apply to what has the name.
* **Ends of a step.** `Exit` for success and for a `TerminalError`, which controller-runtime
  does not retry; `Requeue` for any other error and for `Requeue: true`.
* **Failures.** `CallFails` ends a reconcile with an error at any step; after a write that
  took effect it stands for the lost answer. A reconcile of a NADR can end with the call
  whose answer is lost, so there the calls themselves have that outcome (`ExitAfterCall`,
  `RequeueAfterCall`). `Restart` loses worker and queue, lists the
  caches again and enqueues every object, as a new process does.
* **Passes of the collector.** Where something between lookup and Delete could change what the
  Delete does, the two are steps of their own (Backups, Restores). A Secret, BSL or request whose owner
  is gone stays without one, because a NACUUID is never given to a second NABSL and the caches only
  move forward, so for these one step says the same; what the collector looks the owner up in may
  be of any age.
* **External actors** (users, admin, Velero, time) do what the API allows them at any time.

Objects are records with one field per thing a property tells apart. A spec is valid or not, or
a model value; conditions are their status; a Velero Backup is absent, New or Completed; a
restore is live or, accepted when the stored NAB was Created no longer, late. The NACUUID is the
identity of every object labelled with it, and `owner` tells which user object it was generated
for, which is what the origin annotations say.

### Correspondence

| code | actions |
|---|---|
| NAB `Reconcile` | `Reconcile`, `Path` |
| `setStatusAndConditionForDeletionAndCallDelete` | `MarkDelete`, `CallDelete` |
| `deleteNonAdminRestores`, `createVeleroDeleteBackupRequest` | `DeleteRestores`, `RequestDeletion` |
| `setStatusForDirectKubernetesAPIDeletion`, `deleteDeleteBackupRequestObjects`, `deleteVeleroBackupObjects` | `MarkDirect`, `DeleteRequests`, `DeleteBackup` |
| `initNabCreate`, `validateSpec`, `setBackupUUIDInStatus`, `setFinalizerOnNonAdminBackup` | `InitCreate`, `ValidateSpec`, `SetBackupUUID`, `SetFinalizer` |
| `createVeleroBackupAndSyncWithNonAdminBackup` | `CreateBackup`, `SyncStatus` |
| NABSL deletion path | `MarkDelete`, `DeleteRequest`, `DeleteSecret`, `DeleteBSL`, `DeleteBackups`, `RemoveFinalizer` |
| `createNonAdminRequest` | `CreateRequest`, `ApproveRequest`, `InitRequest` |
| `ensureNonAdminRequest` | `Ensure`, `DropSecret`, `DropBSL`, `Refuse` |
| `syncSecrets`, `createVeleroBSL`, `syncStatus` | `SyncSecret`, `MarkSynced`, `CreateBSL`, `MarkCreated`, `SyncStatus` |
| garbage collector | `CollectSecret`, `CollectBSL`, `CollectRequest` (NABSL); `CollectFind`, `CollectDelete` (`BackupSynchronization`, `NonAdminRestore`) |
| synchronizer | `SyncList`, `SyncLookup`, `CreateMissing` |
| NAR `setStatusAndConditionForDeletion`, `deleteVeleroRestoreAndRemoveFinalizer` | `MarkDelete`, `DeleteRestore` |
| NAR `init`, `validateSpec`, `setUUID`, `setFinalizer`, `createVeleroRestore` | `InitCreate`, `ValidateSpec`, `SetUUID`, `SetFinalizer`, `CreateRestore`, `SyncStatus` |
| `GetBackupQueueInfo`, `VeleroBackupQueuePredicate`, `VeleroBackupQueueHandler` | `GetBackupQueueInfo`, `Deliver`, `Handle` |
| `GenerateNacObjectUUID` | `GenerateNacObjectUUID` |
| NADR `Reconcile`, `deleteExpiredDownloadRequest` | `Check`, `Delete`, `Schedule`, `GetVDR` |
| `updateNADRWithURL`, `processDownloadRequest` | `PatchURL`, `PatchPhase`, `GetRestore`, `GetBackup`, `CreateVDR` |

`PROJECT.json` maps every definition to its lines. Operators whose comment begins with
"Mutant" are variants of the definition they stand before, with a plausible bug; they are
in no specification and show that the properties notice it.

## What is checked

A run that passes explores every reachable state of its instance.

| run | question | answer |
|---|---|---|
| `nab_safety` | Can a NAB lose its running backup, its NACUUID or withdrawn data, or a worker that sees the stored NAB delete data under a restore accepted before, with the NAB cache lagging arbitrarily, a failure or restart, refused requests, backups that come back, and NABs and backups that synchronizer and collector create and delete? Does the controller implement `BackupLifecycle`? | no; yes |
| `nab_inductive` | Is `IInv`, on which the proofs rest, true where every cache lags? | yes |
| `nab_liveness` | Do deletions end, taking what they should, and outcomes arrive, does no backup stay without a NAB, and no NAB without sync label lose its backup to the collector, with every cache lagging, a failure or restart, and the two periodic controllers beside? | yes |
| `nab_runs_once` | Is a finalized backup never run again? | **no** |
| `nar_lifecycle` | Is a restore only created for a NAR that is held, and once; do deletions end, orphans get collected, ends get reported, with the cache of Velero Restores lagging? | yes |
| `functions` | Does every NAB whose last reconcile got that far show its place in the queue once all is served? Does every object name fit? | yes |
| `nadr_answers` | Does a URL arrive while it is good, is every request that can be served and was not given up put to Velero, and is a good URL kept? | yes |
| `nadr_expiry` | Is an expired NADR deleted? | **no** |
| `nabsl_safety` | Is a BSL's spec always one that was approved, for a NABSL with finalizer, do NABs accepted by an old copy of the NABSL go before it, and does the collector leave stored NABSLs what they have? Does the controller implement `LocationLifecycle`? | yes |
| `nabsl_liveness` | Do deletions end, withdrawn approvals remove the BSL, orphans get collected? | yes |
| `nabsl_created` | Does an approval lead to a BSL? | **no** |
| `nabsl_request` | Does every request get its status? | **no** |

### Where code and words disagree

* `nab_runs_once`: the Velero Backup of a Created NAB expires; the reconcile answers
  "NonAdminBackup is finalized ... Please create a new NonAdminBackup" and sets BackingOff.
  The refusal depends on the phase Created it has just replaced, so the next reconcile
  validates the NAB and creates the backup again. The Queued condition that would have
  told is still there.
* `nadr_expiry`: the timer for the deletion is set by a reconcile that finds the URL in the
  status; the patch that puts it there is a status change, which the predicate drops.
* `nabsl_created`: `createVeleroBSL` looks the Secret up in the cache right after creating
  it. If it is not there the step returns `err`, which is nil, and the reconcile ends. The
  Secret's arrival in the cache enqueues no NABSL (the handler looks for NABSLs in the
  Secret's namespace), there is no BSL whose events could, and nothing else will.
* `nabsl_request`: the request is created by one call and given its status by a second. When
  the second fails, later reconciles find the request and no longer write the status;
  `ensureNonAdminRequest` asks for a requeue, each time. With the garbage collector enabled
  (`garbageCollectionPeriod` > 0) the request is deleted and created anew, which heals it;
  the run has it disabled.

Met while modelling, without a run of their own:

* `setBackupUUIDInStatus` and its twin, the NAR controller's `setUUID`, go on with an object
  they fetch again after `validateSpec`. When the user edited it, or deleted it and created
  another one, meanwhile, that one is given a Velero Backup or Restore without validation
  (`SetBackupUUID` and `SetUUID` have the step; the next reconcile validates it).
* A NADR is patched and deleted by its name, from a copy that may be of the NADR before it.
  A new NADR can so be given the URL of the one it replaces, until its own arrives, and an
  expired copy can delete it. `OwnURL` therefore speaks of names, and `GoodURLKept` of a URL
  that was provided for the very object that shows it.
* A NADR for a restore whose Velero Restore has no name yet is sent with the backup's name:
  the empty name is taken for the sign of a backup request (`BackupUnlessSet`).
* A collector that looked for a NAB just before the synchronizer created it deletes the
  backup of the NAB that now exists; the NAB is then BackingOff. `BackupKept` therefore
  speaks of NABs without the sync label. The repository's README asks for a sync period below the
  collection period, which makes this rare, not impossible.
* The queue position of a waiting backup that the list did not show yet when an earlier
  completion was handled, or that waits behind a deleted backup, stays too high until its
  own backup changes; of the NABs `PositionsSettle` speaks of it allows exactly these two.
* A NAB whose spec is refused, or that is on a deletion path, ends its reconcile before
  the queue position is worked out and keeps what it showed, also of a backup that has completed
  (`EndEarly`). `PositionsSettle` speaks of the NABs whose last reconcile was not of this kind.
* A restore is validated against the cached NAB. Where that still shows Created after the phase
  Deleting was stored and `deleteNonAdminRestores` has listed the restores, one more is accepted that
  nobody deletes, and it sees its data go. These are the late restores of `CreateRestore`;
  `RestoresGoFirst` speaks of the others.
* In the same way a NAB that names a NABSL is accepted by the cached NABSL and BSL. An old NABSL alone
  does no harm, since the BSL is gone before `deleteNonAdminBackups` looks; where the cache of BSLs
  lags too, a NAB can be accepted after it has looked, and outlives its location.
* A retry by a cache that does not show the DeleteBackupRequest yet creates a second one, and every
  lookup by label is then an error on both deletion paths, until Velero has processed the
  requests. `DeletionCompletes` has these retries.
* With `deleteBackup` set before the cache shows the backup, the first path takes the finalizer
  off and leaves backup and data, which the synchronizer may bring back as a NAB.
  `DeleteBackupCompletes` therefore begins when the cache shows the backup.
* A NADR whose backup has no NaBSL gets two patches. When the first, with the condition, fails that
  is only logged; it has changed the copy, so the second patch is empty and succeeds, and the
  reconcile ends: the user is not told, and when the backup is replaced by one with a NaBSL
  nothing brings the controller back (`GiveUp`). `RequestForwarded` leaves out what was given up.
* A user who withdraws `deleteBackup` between the controller's status write and its Delete
  call, and sets it again, can have a restore running while the data is deleted: `SyncStatus`
  writes Created back over Deleting, a restore is accepted, and a reconcile with a copy that
  still reads Deleting writes nothing (so meets no conflict), runs `DeleteRestores` before the
  restore appears and submits the request after. Five edits are needed. `RestoresGoFirst`
  therefore speaks of a worker whose copy is the stored NAB, which is proved for any number.
* Restores have a queue predicate and handler, but `SetupWithManager` sets no watch up for
  them: positions of waiting restores are refreshed by their own events only.

The design document for NABSLs also says that a changed spec removes BSL and Secret
(`docs/design/non_admin_backupstoragelocation.md`, update flow); the code keeps them
(`preserveVeleroBslSecret`). The model follows the code.

### Bounds, and why they are enough

| bound | value | why |
|---|---|---|
| `Names` | one | a reconcile touches one user object; two share nothing but the queue, which a single worker serves in any order. Whose URL a NADR shows (`OwnURL`) is a question about two, so it is proved instead |
| `UUIDs` | one or two | the second NACUUID is a second incarnation of the object, or the one a stale read would generate |
| `Specs` | one or two | the approved one and the one it is edited to |
| `UIDs`, `VDRs` | two | two incarnations of a NADR; a VDR that expired and its successor |
| `MaxEdits`, `MaxChanges` | 1 to 4 | create, edit or set and withdraw `deleteBackup`, delete |
| `MaxDecisions` | 0 or 1 | one approval, rejection or withdrawal, at any moment |
| `MaxFaults` | 0 or 1 | one failed call or restart, at any step |
| `MaxResyncs` | 0 or 1 | a backup, and a NAB, that come back once |
| `Lagging` (NAR) | the cache of Velero Restores | the one that deletion and orphans hang on; the theorems hold for every lag (`RestoreRunsOnce`: every lag but that of NARs) |
| `Backups`, `MaxTime` | three, one of them the administrator's; three seconds | one ahead, one behind, equal timestamps |
| `Characters`, lengths | two; 8 and 3 | a limit of 8 with UUIDs of 3 leaves room for 3; namespaces and names go from empty to 5, past it on both sides |
| `MaxRequests` | 1 or 2 | in `nab_liveness` a lagging cache of requests can lead to a second one |

`OthersLag` (NAB) and `Lagging` (NABSL) choose which caches may lag while the worker goes
on. `nab_safety` lets only the NABs' cache lag: with the Velero caches lagging as well,
`BackupHasNAB` and `LifecycleKept` are false of the code (the deletion path that does not see
the backup yet drops the finalizer), and the garbage collector exists to clean up after it,
which `NoneStranded` shows in
`nab_liveness`, where every cache lags. `nabsl_safety` has the NABSL
cache lag (with that of BSLs lagging as well `BackupsGoFirst` is false of the code, see above),
`nabsl_liveness` those of Secrets and BSLs; all four at once exceed the time one
run may take, and the request cache is the one that neither lets lag.

`LocationFlaps` lets a valid NAB be refused at any validation: its NABSL is not Created for
a moment at each of its own reconciles.

What a bound on users can hide is shown by `RestoresGoFirst`: it once spoke of every worker,
held with three edits, and is refuted with five (the sequence is under "Where code and words
disagree"). Every safety property of a passing run therefore has a theorem, which needs no
bound.

Deadlock is not checked: when nobody has anything more to ask, the controllers are idle.

### Fairness

The worker (`Step`), the informers (`Deliver...`), timers and the garbage collector are
weakly fair: the process runs, watches deliver, `PeriodicalSource` ticks. `Reconcile(n)` is
strongly fair because the work queue is a FIFO: a queued object gets its turn although the
worker is often busy with another. Velero is fair where it answers: backups finish,
requests are processed (runs with fairness have `VeleroRejects` FALSE), DownloadRequests are
processed, BSLs are checked periodically, a Restore's deletion is finished. The synchronizer's
passes are weakly fair in `BackupSynchronization` (`PeriodicalSource` again), so is the NAR
worker with what it reads. Users, the admin, failures, changes of a NAB as its restores see
it, expiry of backups and URLs owe nothing to anybody. Runs that refute a liveness property use the same
fairness.

## What is proved

For any sets of objects and NACUUIDs, and any bounds on users, failures and resyncs:

| module | theorem | says |
|---|---|---|
| `NonAdminBackupProofs` | `Invariance` | `Spec => []IInv`, the invariant `nab_inductive` checks |
| | `TypeCorrect` | `Spec => []TypeOK` |
| | `AlwaysGuarded` | `Spec => []NABGuarded`: finalizer implies NACUUID; Created implies finalizer and Queued |
| | `NACUUIDIsStable` | `Spec => UUIDStable`: no step replaces a NACUUID |
| `BackupLifecycle` | `RunningIsHeld` | a running backup has a NAB with its NACUUID, which is held |
| `BackupLifecycleProofs` | `RunningBackupHasNAB` | `Spec => []BackupHasNAB`, if `~OthersLag` |
| | `ControllerImplementsLifecycle` | `Spec => Lifecycle!Spec`, if `~OthersLag` |
| | `BackupsHaveHolder` | `Spec => []Lifecycle!RunningHeld`, if `~OthersLag`: the two above put together |
| | `RestoresGoBeforeRequests` | `Spec => RestoresGoFirst`, if `~OthersLag` |
| | `NoRequestIsLeft` | `Spec => RequestWithdrawn`, if `~OthersLag` |
| `BackupSynchronizationProofs` | `SyncImplementsController` | `SyncSpec => Spec` |
| | `PassesTypeCorrect`, `SyncKeepsGuards`, `SyncImplementsLifecycle`, `SyncKeepsDeletionOrder` | `PassesOK`; the results above with synchronizer and collector running |
| | `OriginalBackupsAreKept` | `SyncSpec => BackupKept`, whatever caches lag |
| `NonAdminRestoreProofs` | `TypeCorrect` | `Spec => []TypeOK` |
| | `RestoresAreCreatedForNARs` | `Spec => CreatedForNAR`, whatever caches lag |
| | `PromptRestoreRunsOnce` | `Spec => RestoreRunsOnce`, if `"nar" \notin Lagging` |
| `NonAdminBackupStorageLocationProofs` | `TypeCorrect` | `Spec => []TypeOK` |
| | `OnlyApprovedSpecs` | `Spec => []BSLWasApproved`, whatever caches lag |
| | `CreationsAreGuarded` | `Spec => CreatedForNABSL`, whatever caches lag |
| | `NoBackupIsLeft` | `Spec => BackupsGoFirst`, if `"bsl" \notin Lagging` |
| | `StoredAreSpared` | `Spec => CollectorSparesStored`, whatever caches lag |
| | `ControllerImplementsLocationLifecycle` | `Spec => Location!Spec`, if `"bsl" \notin Lagging` |
| `NonAdminDownloadRequestProofs` | `TypeCorrect` | `Spec => []TypeOK` |
| | `URLsAreOwn` | `Spec => []OwnURL` |
| | `GoodURLsAreKept` | `Spec => GoodURLKept` |
| `BackupQueueProofs` | `QueueTypeCorrect` | `Spec => []TypeOK`: no position beyond the number of backups |
| | `PositionsAlwaysSettle` | `Spec => []PositionsSettle` for any finite set of backups |
| | `EveryNameFits` | `NameFits` for every namespace, name and UUID, and any limit with room for the UUID, two delimiters and a character |
| | `NamesAlwaysFit` | `Spec => []NamesFit`, the form the run `functions` checks |

They rest on the named `ASSUME`s of the modules only. `~OthersLag` says that the caches of
Velero's objects keep up (the cache of NABs may lag as it likes): without it the statements
are false of the code.

**`NonAdminBackup`.** None of its properties is inductive. The argument is the one that makes
optimistic locking work, and `IInv` writes it down:

* `CopiesOK`: a copy with the stored resourceVersion, in the informer or in the worker, *is*
  the stored object. So a write that is not refused starts from the stored object.
* `StoredOK`: stored objects and informer copies are `Guarded` and belong to someone
  (`Owned`). Stale copies once were stored, so they are too.
* `Stage(pc, local)`: what the reconcile has established by the step it has reached: a
  NACUUID before the finalizer, the finalizer before the Velero Backup.
* `BackupsOwned`: only NACUUIDs that were given out have a backup, so events enqueue NABs.

`Invariance` has one lemma per group of actions, each action one step. `UUIDStable` follows
from `IInv` step by step: the only action that writes a NACUUID does so from a fresh copy
that has none.

**`BackupLifecycle`.** `IInv` does not say that the stored NAB still has the finalizer a copy
shows. `JInv` adds the reason: only the worker takes finalizers off, and only from a NAB it has
seen terminating; so a copy that is not terminating and has the finalizer tells the truth
(`Truthful`), and at `createBackup` the stored NAB is held although the copy may be old. With
`JInv` every action maps to a step of `BackupLifecycle` or to a stutter: `SetBackupUUID` is
`Identify`, `SetFinalizer` `Hold`, `CreateBackup` `Run`, the two steps that drop a finalizer
`Vanish` (and what they need, that the backup has ended, is that the cache keeps up).
`SyncCreate` is `Appear`, so the composition needs only `SyncImplementsController`.

**Deletion.** `KInv` adds to `JInv` what the worker has achieved on its way: `deleteBackup` was
set in the copy with which it runs the first path; at `requestDeletion` no restore is live if
that copy is the stored NAB (a live restore was accepted when the stored phase was Created, and a
stored NAB that equals the copy is Deleting); at `deleteBackup` no request is left. A NAB goes only by
`RequestDeletion` or `DeleteBackup` with a fresh copy, and the first needs the stored NAB to
have `deleteBackup`, so one that has not goes by the path that has removed the requests.

**`BackupSynchronization`.** Its steps are steps of `NonAdminBackup` because what the passes
hold are backups with an owner (`PassesOK`, which is invariant together with `IInv`), and the
guards of `SyncCreate` and `CollectBackup` are tested when they act, not when they looked.

`BackupKept` is about the composition and needs more. A NAB with a NACUUID and without sync label
(`Original`) is the very object the NACUUID was drawn for, since every later NAB of its name has
the label or another NACUUID. `OriginsOK` says what follows: it was in the cache when it got the
NACUUID, and a NAB leaves the cache only after it left the store, so it is there as long as it
is stored; and an older copy with its NACUUID is a copy of it, so when the copy is being deleted
the NAB is. Hence the collector, which looks for what the cache lacks, finds no such NAB's backup
(`CollectingOK`, which lasts because a NACUUID is given out once), and `deleteVeleroBackupObjects`
acts for a NAB that really is going. `Drifts` lists the few ways an action can move NABs, caches
and the worker's copy relative to each other; each action has to show only that it is one.

**`NonAdminRestore`.** Its `IInv` is built like `IInv` and `JInv` of the NAB in one: `Holds` (a
stored NAR has the copy's NACUUID and finalizer) takes the place of `Truthful`. It goes
through for every lag of every cache because `CreateRestore` is refused by the API server
when the restore exists. For `RestoreRunsOnce` the worker's copy must know of the Queued
condition, which holds where the cache of NARs keeps up.

**`NonAdminBackupStorageLocation`.** Its `IInv` has two threads. What was approved stays
recorded, so every copy of a request that shows an approval, however old, is right about the past
(`RequestsOK`), and the worker takes that fact from `Ensure` to `CreateBSL` (`WorkerOK`, `Giving`).
And as with NABs, only the worker takes finalizers off, from a NABSL it knows to be terminating:
between two deletions an old copy that has the finalizer tells the truth about finalizer and
NACUUID (`Holds`). `IInv` excludes no lag. `WorkerOK` divides the reconcile into the stretches
`Opening`, `Asking`, `Guarding`, `Dropping`, `Giving` and `Taking` and says what each has
established; while `Dropping` the copy differs from the stored one by a status not yet written.

A fact of `NABSLsOK` is there for `StoredAreSpared`. A NABSL with a NACUUID is one the cache
shows, though perhaps an older version of it: `SetUUID` starts from the cache, and what is
removed from the store leaves the cache later, not before. So the collector, which asks the
cache for the owner, finds that of anything a stored NABSL has (`StoredAreSpared`), and what is
left is the reconcile of the NABSL itself, since a NACUUID has one owner.

`NoBackupIsLeft` and the refinement rest on `LInv`, which adds `LocationOK` to `IInv`: a BSL is
one of a stored NABSL with the finalizer and its NACUUID, and is gone before
`deleteNonAdminBackups` looks. The cached NABSL by which a NAB is accepted may be old, its BSL
may not, where the cache of BSLs keeps up: so the NABSL the NAB uses is held
(`AcceptedLocation`), and once the worker has seen the BSL gone no NAB is accepted. The
refinement goes by what a step writes: a status that is written starts from the stored NABSL and
changes neither its life nor its NACUUID (`StatusWrite`); `SetFinalizer`, `SetUUID`,
`RemoveFinalizer` and the users move a NABSL (`ChangedLife`); any write of a request grants a
spec or nothing (`SetRequestSimulated`); whoever deletes a Secret or a BSL withdraws it; and
what is created is for a held NABSL, of a spec that was granted (`GivingSimulated`).

**`NonAdminDownloadRequest`.** The worker finds a VDR by the UID in its copy of the NADR and
patches what has the copy's name. That the two agree takes facts about every copy: a UID is
remembered under one name only (`UIDsOK`: stored, cached, in the worker's hands or on a VDR), so a
VDR found for a copy was made for a NADR of that name, which is `OwnURL`. For `GoodURLKept` the VDR
found must be the one already shown. A VDR for the NADR that is stored now was asked for by a
worker that had read that very NADR, and neither the cache nor the worker goes back to an older
one (`Known`), and a UID has one live VDR (`VDRsOK`): hence `FoundIsOwn`, and `PatchURL` is the only
step that writes a URL. `WorkerOK` carries the finding from `Check` to `PatchURL`.

**`BackupQueue`.** `QInv` bounds the position a NAB shows, when nobody is about to reconcile it,
from both sides: at least one more than the backups that wait before its own, and at most one more
than those and the completed ones whose event is still to be handled (`Pending`). When nothing is
left to handle the bounds meet. It says so of the NABs whose last reconcile was not an `EndEarly`
(`passed`). Cardinalities are compared as subsets of a finite set.

**Names.** `EveryNameFits` follows `GenerateNacObjectUUID` branch by branch; no induction, since
the lengths of slices and concatenations are all it takes.

Only model-checked: the liveness properties, which with fairness and ENABLED are out of the
prover's reach and stay with TLC. Where a theorem assumes `~OthersLag` or a
prompt cache, the runs use the same value, since without it the code does otherwise. Out of reach as
well would be anything by induction over data or about RECURSIVE operators; no module has one.

## What is not modelled, and why

* Contents: Secret data, enforced specs, prefixes, counters of PodVolumeBackups, DataUploads,
  PodVolumeRestores and DataDownloads, condition messages. Nothing here decides a branch that
  the properties see; their events do enqueue (`OtherEvent`).
* In the synchronizer, the watched locations and the existence of the user's namespace: both
  only exclude backups. In the collector, objects without valid metadata, which it skips.
* Which Velero Backup a restore reads: one NAB per NAR, whose phase is all that matters.
* The restore queue predicate and handler: no controller watches with them.
* Restore positions (`GetRestoreQueueInfo`): the same count as for backups, without the events.
* Namespace and metadata filters of predicates: all modelled objects pass them.
* Two objects with one label, other than DeleteBackupRequests: names are the NACUUID, so the
  API server refuses the second.
* Sync labels that name another NAB's backup. A user may set the label, and `setBackupUUIDInStatus`
  takes any value as the NACUUID; `CreateNAB` lets users name backups that were this NAB's,
  as the synchronizer does. So nothing here claims that no two NABs carry one NACUUID, and the refusal
  of a Backup whose origin annotation is another namespace's is not reached.
* The nil that `deleteVeleroBSL` returns when its lookup fails without a result: the lookup is a
  list from a synced cache, which has no error to return, and no two BSLs have one label.
* Leader election, TLS, metrics, the manager's flags.

## What could come next

1. NABSL with the request cache lagging; `requireApprovalForBSL` switched over a restart on
   both sides of a pending request.
2. The composition of NAR and NAB controllers in one specification, in place of the two sides of
   their meeting.
