--------------------------- MODULE NonAdminBackup ---------------------------
(***************************************************************************)
(* The NonAdminBackup (NAB) controller: one worker that reconciles the     *)
(* NABs users create into Velero Backups in the OADP namespace, mirrors    *)
(* their status back and tears both down again                             *)
(* (internal/controller/nonadminbackup_controller.go).                     *)
(*                                                                         *)
(* The API server, the informer cache the worker reads through, the work   *)
(* queue and the worker are separate pieces of state.  A reconcile is cut  *)
(* into one action per call that reads or writes the API server, so users, *)
(* Velero, the other controllers and failures interleave with it anywhere. *)
(*                                                                         *)
(* Data that no property tells apart is abstracted: a spec is valid or     *)
(* not, a Velero Backup is absent, New or Completed, condition messages    *)
(* are their status.                                                       *)
(***************************************************************************)
EXTENDS Naturals

CONSTANTS
  Names,          \* namespaced names of NABs
  UUIDs,          \* NACUUIDs that GenerateNacObjectUUID can return
  NoName,         \* no NAB
  NoUUID,         \* the empty NACUUID
  OthersLag,      \* may caches of other objects than NABs lag behind?
  VeleroRejects,  \* may Velero refuse a DeleteBackupRequest?
  LocationFlaps,  \* may a valid spec be refused, its location being unready?
  MaxEdits,       \* bound: calls users make
  MaxResyncs,     \* bound: Velero brings a backup back from its store
  MaxFaults,      \* bound: failed API calls and restarts of the manager
  MaxRequests     \* bound: DeleteBackupRequests the cache may not show yet

ASSUME NamesAssumption == NoName \notin Names /\ NoUUID \notin UUIDs
ASSUME FlagsAssumption ==
  OthersLag \in BOOLEAN /\ VeleroRejects \in BOOLEAN /\ LocationFlaps \in BOOLEAN
ASSUME BoundsAssumption ==
  /\ MaxEdits \in Nat /\ MaxResyncs \in Nat /\ MaxFaults \in Nat
  /\ MaxRequests \in Nat \ {0}

VARIABLES
  nab,         \* NAB objects stored by the API server
  cache,       \* the informer's copy of them
  cacheFresh,  \* the copy has the stored resourceVersion
  nabEvent,    \* an event the NAB predicate accepts is on its way
  nar,         \* NonAdminRestores of the NAB's backup; "late": CreateRestore
  owner,       \* NAB that a NACUUID was given to
  vb,          \* Velero Backup labelled with a NACUUID
  vbSeen,      \* the informer's copy of it
  vbEvent,     \* an update or delete event of it is on its way
  dbr,         \* DeleteBackupRequests labelled with a NACUUID
  dbrSeen,     \* the informer's copy of them
  store,       \* the object store holds the backup's data
  queue,       \* work queue
  pc,          \* step the worker is about to take
  cur,         \* NAB it reconciles
  local,       \* its in-memory copy of that NAB
  localFresh,  \* that copy has the stored resourceVersion
  vbRead,      \* Velero Backup the reconcile read or created
  edits, resyncs, faults

nabVars    == <<nab, cache, cacheFresh, nabEvent>>
veleroVars == <<vb, vbSeen, vbEvent, dbr, dbrSeen, store>>
workerVars == <<queue, pc, cur, local, localFresh, vbRead>>
bounds     == <<edits, resyncs, faults>>
vars       == <<nabVars, nar, owner, veleroVars, workerVars, bounds>>

(***************************************************************************)
(* Objects.                                                                *)
(***************************************************************************)
Phases   == {"unset", "New", "BackingOff", "Created", "Deleting"}
VBStates == {"absent", "New", "Completed"}
Restores == {"none", "live", "late", "terminating"}
Requests == [count : Nat, status : {"unset", "Processed"}]

NABs == [exists            : BOOLEAN,
         deletionTimestamp : BOOLEAN,
         finalizer         : BOOLEAN,
         syncLabel         : UUIDs \union {NoUUID},  \* NabSyncLabel
         deleteBackup      : BOOLEAN,                \* spec.deleteBackup
         valid             : BOOLEAN,                \* the rest of the spec
         phase             : Phases,
         accepted          : {"unset", "True", "False"},
         queued            : BOOLEAN,
         deleting          : {"unset", "accepted", "direct"},
         uuid              : UUIDs \union {NoUUID},  \* status...NACUUID
         mirror            : VBStates,               \* status.veleroBackup
         dbrStatus         : {"unset", "Processed"}]      \* status...Request.status

\* A NAB as a client creates it: a spec, perhaps the sync label, no status.
NewNAB(label, valid) ==
  [exists |-> TRUE, deletionTimestamp |-> FALSE, finalizer |-> FALSE,
   syncLabel |-> label, deleteBackup |-> FALSE, valid |-> valid,
   phase |-> "unset", accepted |-> "unset", queued |-> FALSE,
   deleting |-> "unset", uuid |-> NoUUID, mirror |-> "absent",
   dbrStatus |-> "unset"]

NoNAB == [NewNAB(NoUUID, FALSE) EXCEPT !.exists = FALSE]
NoRequest == [count |-> 0, status |-> "unset"]

Steps == {"idle", "markDelete", "callDelete", "deleteRestores",
          "requestDeletion", "markDirect", "deleteRequests", "deleteBackup",
          "init", "validate", "setUUID", "setFinalizer", "createBackup",
          "syncStatus"}

TypeOK ==
  /\ nab \in [Names -> NABs]
  /\ cache \in [Names -> NABs]
  /\ cacheFresh \in [Names -> BOOLEAN]
  /\ nabEvent \in [Names -> BOOLEAN]
  /\ nar \in [Names -> Restores]
  /\ owner \in [UUIDs -> Names \union {NoName}]
  /\ vb \in [UUIDs -> VBStates]
  /\ vbSeen \in [UUIDs -> VBStates]
  /\ vbEvent \in [UUIDs -> BOOLEAN]
  /\ dbr \in [UUIDs -> Requests]
  /\ dbrSeen \in [UUIDs -> Requests]
  /\ store \in [UUIDs -> BOOLEAN]
  /\ queue \subseteq Names
  /\ pc \in Steps
  /\ cur \in Names \union {NoName}
  /\ local \in NABs
  /\ localFresh \in BOOLEAN
  /\ vbRead \in VBStates
  /\ edits \in Nat /\ resyncs \in Nat /\ faults \in Nat

Init ==
  /\ nab = [n \in Names |-> NoNAB]
  /\ cache = [n \in Names |-> NoNAB]
  /\ cacheFresh = [n \in Names |-> TRUE]
  /\ nabEvent = [n \in Names |-> FALSE]
  /\ nar = [n \in Names |-> "none"]
  /\ owner = [u \in UUIDs |-> NoName]
  /\ vb = [u \in UUIDs |-> "absent"]
  /\ vbSeen = [u \in UUIDs |-> "absent"]
  /\ vbEvent = [u \in UUIDs |-> FALSE]
  /\ dbr = [u \in UUIDs |-> NoRequest]
  /\ dbrSeen = [u \in UUIDs |-> NoRequest]
  /\ store = [u \in UUIDs |-> FALSE]
  /\ queue = {}
  /\ pc = "idle"
  /\ cur = NoName
  /\ local = NoNAB
  /\ localFresh = FALSE
  /\ vbRead = "absent"
  /\ edits = 0 /\ resyncs = 0 /\ faults = 0

(***************************************************************************)
(* Calls on the API server.                                                *)
(***************************************************************************)

\* The stored NAB n becomes obj; copies of it are now out of date.  event: the
\* change is one NonAdminBackupPredicate lets through (creation, a new
\* generation, removal), which no status or finalizer write is.
Changed(n, obj, event) ==
  /\ nab' = [nab EXCEPT ![n] = obj]
  /\ cacheFresh' = [cacheFresh EXCEPT ![n] = FALSE]
  /\ nabEvent' = [nabEvent EXCEPT ![n] = @ \/ event]
  /\ UNCHANGED cache

\* What a Delete call makes of an object, and an Update that takes the last
\* finalizer of a terminating one.
Deleted(obj) ==
  IF obj.finalizer THEN [obj EXCEPT !.deletionTimestamp = TRUE] ELSE NoNAB
WithoutFinalizer(obj) ==
  IF obj.deletionTimestamp THEN NoNAB ELSE [obj EXCEPT !.finalizer = FALSE]

\* The Velero Backup u changes; unless caches lag the worker's copy follows
\* and, when VeleroBackupPredicate accepts the event, its NAB is Notified.
SetBackup(u, state, event) ==
  /\ vb' = [vb EXCEPT ![u] = state]
  /\ IF OthersLag
       THEN /\ vbEvent' = [vbEvent EXCEPT ![u] = @ \/ event]
            /\ UNCHANGED vbSeen
       ELSE /\ vbSeen' = [vbSeen EXCEPT ![u] = state]
            /\ UNCHANGED vbEvent
Notified(u) == IF OthersLag THEN {} ELSE {owner[u]}

SetRequests(u, requests) ==
  /\ dbr' = [dbr EXCEPT ![u] = requests]
  /\ dbrSeen' = IF OthersLag THEN dbrSeen ELSE [dbrSeen EXCEPT ![u] = requests]

(***************************************************************************)
(* How a step of the reconcile ends.                                       *)
(***************************************************************************)
Return(q) ==
  /\ pc' = "idle" /\ cur' = NoName
  /\ local' = NoNAB /\ localFresh' = FALSE /\ vbRead' = "absent"
  /\ queue' = q
Exit    == Return(queue)                 \* no error, or a TerminalError
Requeue == Return(queue \union {cur})    \* an error, or Requeue: true

Continue(step, obj) ==
  IF step = "idle" THEN Exit
  ELSE pc' = step /\ local' = obj /\ UNCHANGED <<queue, cur, localFresh, vbRead>>

\* Mutant of Update: a write without the optimistic lock.
UpdateUnlocked(obj, event, step) == Changed(cur, obj, event) /\ Continue(step, obj)

\* Update or Status().Update: refused as a conflict when the copy is stale.
Update(obj, event, step) ==
  \/ localFresh /\ Changed(cur, obj, event) /\ Continue(step, obj)
  \/ ~localFresh /\ Requeue /\ UNCHANGED nabVars
UpdateIfChanged(obj, step) ==
  IF obj = local THEN Continue(step, obj) /\ UNCHANGED nabVars
                 ELSE Update(obj, FALSE, step)

(***************************************************************************)
(* The worker takes a NAB off the queue and chooses the path to run.       *)
(***************************************************************************)
\* Mutant of Path: a synced NAB skips setBackupUUIDInStatus.
PathWithoutUUID(obj) ==
  IF obj.deleteBackup THEN "markDelete"
  ELSE IF obj.deletionTimestamp THEN "markDirect"
  ELSE IF obj.syncLabel # NoUUID THEN "setFinalizer" ELSE "init"

Path(obj) ==
  IF obj.deleteBackup THEN "markDelete"
  ELSE IF obj.deletionTimestamp THEN "markDirect"
  ELSE IF obj.syncLabel # NoUUID THEN "setUUID"
  ELSE "init"

Reconcile(n) ==
  /\ pc = "idle" /\ n \in queue
  /\ queue' = queue \ {n}
  /\ IF cache[n].exists
       THEN /\ pc' = Path(cache[n]) /\ cur' = n
            /\ local' = cache[n] /\ localFresh' = cacheFresh[n]
       ELSE UNCHANGED <<pc, cur, local, localFresh>>
  /\ UNCHANGED <<nabVars, nar, owner, veleroVars, vbRead, bounds>>

(***************************************************************************)
(* Path 1, spec.deleteBackup: delete the backup and its data.              *)
(***************************************************************************)
MarkDelete ==   \* setStatusAndConditionForDeletionAndCallDelete, the status
  /\ pc = "markDelete"
  /\ UpdateIfChanged([local EXCEPT !.phase = "Deleting", !.deleting = "accepted"],
                     IF local.deletionTimestamp THEN "deleteRestores"
                                                ELSE "callDelete")
  /\ UNCHANGED <<nar, owner, veleroVars, bounds>>

CallDelete ==   \* and its Delete call: by name, no precondition
  /\ pc = "callDelete"
  /\ LET after == Deleted(nab[cur]) IN
       IF after = nab[cur] THEN UNCHANGED nabVars ELSE Changed(cur, after, TRUE)
  /\ Requeue
  /\ UNCHANGED <<nar, owner, veleroVars, bounds>>

\* Mutant of DeleteRestores: the restores are left alone.
DeleteRestoresSkipped ==
  /\ pc = "deleteRestores" /\ Continue("requestDeletion", local)
  /\ UNCHANGED <<nabVars, nar, owner, veleroVars, bounds>>

\* Where the list still shows a restore that is gone its Delete fails: CallFails.
DeleteRestores ==   \* deleteNonAdminRestores
  /\ pc = "deleteRestores"
  /\ \/ nar' = [nar EXCEPT ![cur] = IF @ = "none" THEN @ ELSE "terminating"]
     \/ OthersLag /\ UNCHANGED nar            \* the list does not show it yet
  /\ Continue("requestDeletion", local)
  /\ UNCHANGED <<nabVars, owner, veleroVars, bounds>>

\* removeNabFinalizerUponVeleroBackupDeletion
RemoveFinalizer ==
  /\ Update(WithoutFinalizer(local), TRUE, "idle")
  /\ UNCHANGED veleroVars

\* updateNonAdminBackupDeleteBackupRequestStatus and the write it asks for
SyncRequest(status) ==
  UpdateIfChanged([local EXCEPT !.dbrStatus = status], "idle")

\* Mutants of RequestDeletion: the finalizer stays once the backup is gone; it
\* goes without a request.
RequestDeletionOnly ==
  /\ pc = "requestDeletion"
  /\ LET u == local.uuid IN
       IF ~local.finalizer \/ u = NoUUID \/ vbSeen[u] = "absent" \/ dbrSeen[u].count > 0
         THEN Exit /\ UNCHANGED <<nabVars, veleroVars>>
         ELSE /\ dbr[u].count < MaxRequests
              /\ SetRequests(u, [count |-> dbr[u].count + 1, status |-> "unset"])
              /\ Exit /\ UNCHANGED <<nabVars, vb, vbSeen, vbEvent, store>>
  /\ UNCHANGED <<nar, owner, bounds>>
RequestDeletionNever ==
  /\ pc = "requestDeletion"
  /\ IF ~local.finalizer \/ local.uuid = NoUUID THEN Exit /\ UNCHANGED <<nabVars, veleroVars>>
                                                 ELSE RemoveFinalizer
  /\ UNCHANGED <<nar, owner, bounds>>

RequestDeletion ==   \* createVeleroDeleteBackupRequest
  /\ pc = "requestDeletion"
  /\ LET u == local.uuid IN
       IF ~local.finalizer \/ u = NoUUID THEN Exit /\ UNCHANGED <<nabVars, veleroVars>>
       ELSE IF vbSeen[u] = "absent" THEN RemoveFinalizer
       ELSE \/ /\ dbrSeen[u].count > 1
               /\ Requeue /\ UNCHANGED <<nabVars, veleroVars>>
            \/ /\ dbrSeen[u].count = 1
               /\ SyncRequest(dbrSeen[u].status) /\ UNCHANGED veleroVars
            \/ /\ dbrSeen[u].count = 0 /\ dbr[u].count < MaxRequests
               /\ SetRequests(u, [count |-> dbr[u].count + 1, status |-> "unset"])
               /\ Exit /\ UNCHANGED <<nabVars, vb, vbSeen, vbEvent, store>>
  /\ UNCHANGED <<nar, owner, bounds>>

(***************************************************************************)
(* Path 2, a deletion timestamp: drop the Velero objects, keep the data.   *)
(***************************************************************************)
\* Mutants of MarkDirect: the phase the documents name but the API lacks; the
\* requests are not deleted.
MarkDirectDeletion ==
  /\ pc = "markDirect"
  /\ UpdateIfChanged([local EXCEPT !.phase = "Deletion", !.deleting = "direct"],
                     "deleteRequests")
  /\ UNCHANGED <<nar, owner, veleroVars, bounds>>
MarkDirectOnly ==
  /\ pc = "markDirect"
  /\ UpdateIfChanged([local EXCEPT !.phase = "Deleting", !.deleting = "direct"],
                     "deleteBackup")
  /\ UNCHANGED <<nar, owner, veleroVars, bounds>>

MarkDirect ==   \* setStatusForDirectKubernetesAPIDeletion
  /\ pc = "markDirect"
  /\ UpdateIfChanged([local EXCEPT !.phase = "Deleting", !.deleting = "direct"],
                     "deleteRequests")
  /\ UNCHANGED <<nar, owner, veleroVars, bounds>>

DeleteRequests ==   \* deleteDeleteBackupRequestObjects
  /\ pc = "deleteRequests"
  /\ LET u == local.uuid IN
       IF u = NoUUID \/ dbrSeen[u].count = 0
         THEN Continue("deleteBackup", local) /\ UNCHANGED veleroVars
       ELSE IF dbrSeen[u].count > 1 \/ dbr[u].count = 0    \* error, NotFound
         THEN Requeue /\ UNCHANGED veleroVars
       ELSE /\ SetRequests(u, IF dbr[u].count = 1 THEN NoRequest
                              ELSE [dbr[u] EXCEPT !.count = @ - 1])
            /\ Continue("deleteBackup", local)
            /\ UNCHANGED <<vb, vbSeen, vbEvent, store>>
  /\ UNCHANGED <<nabVars, nar, owner, bounds>>

\* Mutant of DeleteBackup: the finalizer goes while the backup is there.
DeleteBackupLeft ==
  /\ pc = "deleteBackup"
  /\ IF local.uuid = NoUUID THEN Exit /\ UNCHANGED <<nabVars, veleroVars>>
                            ELSE RemoveFinalizer
  /\ UNCHANGED <<nar, owner, bounds>>

DeleteBackup ==   \* deleteVeleroBackupObjects
  /\ pc = "deleteBackup"
  /\ LET u == local.uuid IN
       IF u = NoUUID THEN Exit /\ UNCHANGED <<nabVars, veleroVars>>
       ELSE IF vbSeen[u] = "absent" THEN RemoveFinalizer
       ELSE /\ UNCHANGED <<nabVars, dbr, dbrSeen, store>>
            /\ IF vb[u] = "absent" THEN Requeue /\ UNCHANGED <<vb, vbSeen, vbEvent>>
               ELSE SetBackup(u, "absent", TRUE) /\ Return(queue \union Notified(u))
  /\ UNCHANGED <<nar, owner, bounds>>

(***************************************************************************)
(* Paths 3 and 4, a NAB the synchronizer created and a user's: create the  *)
(* Velero Backup and follow it.                                            *)
(***************************************************************************)
InitCreate ==   \* initNabCreate
  /\ pc = "init"
  /\ IF local.phase # "unset" THEN Continue("validate", local) /\ UNCHANGED nabVars
     ELSE Update([local EXCEPT !.phase = "New"], FALSE, "validate")
  /\ UNCHANGED <<nar, owner, veleroVars, bounds>>

ValidateSpec ==   \* validateSpec
  /\ pc = "validate"
  /\ \/ /\ local.valid
        /\ UpdateIfChanged([local EXCEPT !.accepted = "True"], "setUUID")
     \/ /\ ~local.valid \/ LocationFlaps
        /\ UpdateIfChanged([local EXCEPT !.phase = "BackingOff",
                                         !.accepted = "False"], "idle")
  /\ UNCHANGED <<nar, owner, veleroVars, bounds>>

\* setBackupUUIDInStatus: works on a copy it fetches again, from the cache
SetBackupUUID ==
  /\ pc = "setUUID"
  /\ LET again == cache[cur] IN
       \/ /\ ~again.exists \/ (again.uuid = NoUUID /\ ~cacheFresh[cur])
          /\ Requeue /\ UNCHANGED <<nabVars, owner>>
       \/ /\ again.exists /\ again.uuid # NoUUID
          /\ pc' = "setFinalizer"
          /\ local' = again /\ localFresh' = cacheFresh[cur]
          /\ UNCHANGED <<nabVars, owner, queue, cur, vbRead>>
       \/ /\ again.exists /\ again.uuid = NoUUID /\ cacheFresh[cur]
          /\ \E u \in IF again.syncLabel # NoUUID THEN {again.syncLabel}
                      ELSE {u \in UUIDs : owner[u] = NoName} :
               /\ Changed(cur, [again EXCEPT !.uuid = u], FALSE)
               /\ owner' = [owner EXCEPT ![u] = cur]
               /\ local' = [again EXCEPT !.uuid = u]
          /\ pc' = "setFinalizer" /\ localFresh' = TRUE
          /\ UNCHANGED <<queue, cur, vbRead>>
  /\ UNCHANGED <<nar, veleroVars, bounds>>

\* Mutant of SetFinalizer: it is added to the copy, never written.
SetFinalizerUnwritten ==
  /\ pc = "setFinalizer"
  /\ Continue("createBackup", [local EXCEPT !.finalizer = TRUE])
  /\ UNCHANGED <<nabVars, nar, owner, veleroVars, bounds>>

SetFinalizer ==   \* setFinalizerOnNonAdminBackup
  /\ pc = "setFinalizer"
  /\ UpdateIfChanged([local EXCEPT !.finalizer = TRUE], "createBackup")
  /\ UNCHANGED <<nar, owner, veleroVars, bounds>>

\* createVeleroBackupAndSyncWithNonAdminBackup, up to the backup it reads or
\* creates.  A missing backup is created anew unless the NAB is synced or Created.
\* A backup that names another namespace is refused: labels being truthful
\* (CreateNAB), there is none.
CreateBackup ==
  /\ pc = "createBackup"
  /\ LET u == local.uuid IN
       \/ /\ vbSeen[u] # "absent"
          /\ pc' = "syncStatus" /\ vbRead' = vbSeen[u]
          /\ UNCHANGED <<nabVars, veleroVars, queue, cur, local, localFresh>>
       \/ /\ vbSeen[u] = "absent" /\ (local.syncLabel # NoUUID \/ local.phase = "Created")
          /\ UpdateIfChanged([local EXCEPT !.phase = "BackingOff",
                                           !.accepted = "False"], "idle")
          /\ UNCHANGED veleroVars
       \/ /\ vbSeen[u] = "absent" /\ local.syncLabel = NoUUID /\ local.phase # "Created"
          /\ IF vb[u] # "absent" THEN Requeue /\ UNCHANGED veleroVars   \* AlreadyExists
             ELSE /\ SetBackup(u, "New", FALSE)
                  /\ pc' = "syncStatus" /\ vbRead' = "New"
                  /\ UNCHANGED <<dbr, dbrSeen, store, queue, cur, local, localFresh>>
          /\ UNCHANGED nabVars
  /\ UNCHANGED <<nar, owner, bounds>>

\* Mutant of SyncStatus: the Queued condition is forgotten.
SyncStatusUnqueued ==
  /\ pc = "syncStatus"
  /\ Update([local EXCEPT !.phase = "Created", !.mirror = vbRead], FALSE, "idle")
  /\ UNCHANGED <<nar, owner, veleroVars, bounds>>

SyncStatus ==   \* and its status write: always made, for the queue position
  /\ pc = "syncStatus"
  /\ Update([local EXCEPT !.phase = "Created", !.queued = TRUE, !.mirror = vbRead],
            FALSE, "idle")
  /\ UNCHANGED <<nar, owner, veleroVars, bounds>>

Step ==
  \/ MarkDelete   \/ CallDelete     \/ DeleteRestores \/ RequestDeletion
  \/ MarkDirect   \/ DeleteRequests \/ DeleteBackup
  \/ InitCreate   \/ ValidateSpec   \/ SetBackupUUID  \/ SetFinalizer
  \/ CreateBackup \/ SyncStatus

(***************************************************************************)
(* Failures.  An API call fails, or succeeds and its answer is lost: the   *)
(* reconcile ends with an error before or after the call.  A restart loses *)
(* the worker and the queue; the caches are listed again and every NAB is  *)
(* enqueued.                                                               *)
(***************************************************************************)
CallFails ==
  /\ pc # "idle" /\ faults < MaxFaults
  /\ faults' = faults + 1
  /\ Requeue
  /\ UNCHANGED <<nabVars, nar, owner, veleroVars, edits, resyncs>>

Restart ==
  /\ faults < MaxFaults
  /\ faults' = faults + 1
  /\ Return({n \in Names : nab[n].exists})
  /\ cache' = nab /\ vbSeen' = vb /\ dbrSeen' = dbr
  /\ cacheFresh' = [n \in Names |-> TRUE]
  /\ nabEvent' = [n \in Names |-> FALSE]
  /\ vbEvent' = [u \in UUIDs |-> FALSE]
  /\ UNCHANGED <<nab, nar, owner, vb, dbr, store, edits, resyncs>>

(***************************************************************************)
(* Informers: a copy catches up, and the event is handed to the queue.     *)
(***************************************************************************)
DeliverNAB(n) ==
  /\ ~cacheFresh[n]
  /\ cache' = [cache EXCEPT ![n] = nab[n]]
  /\ cacheFresh' = [cacheFresh EXCEPT ![n] = TRUE]
  /\ nabEvent' = [nabEvent EXCEPT ![n] = FALSE]
  /\ queue' = IF nabEvent[n] THEN queue \union {n} ELSE queue
  /\ UNCHANGED <<nab, nar, owner, veleroVars, pc, cur, local, localFresh, vbRead, bounds>>

\* Mutants of DeliverBackup: its events enqueue nothing; they enqueue the NAB
\* only when the backup goes.
DeliverBackupDropped(u) ==
  /\ vbSeen[u] # vb[u] \/ vbEvent[u]
  /\ vbSeen' = [vbSeen EXCEPT ![u] = vb[u]]
  /\ vbEvent' = [vbEvent EXCEPT ![u] = FALSE]
  /\ UNCHANGED <<nabVars, nar, owner, vb, dbr, dbrSeen, store, workerVars, bounds>>
DeliverBackupDeletes(u) ==
  /\ vbSeen[u] # vb[u] \/ vbEvent[u]
  /\ vbSeen' = [vbSeen EXCEPT ![u] = vb[u]]
  /\ vbEvent' = [vbEvent EXCEPT ![u] = FALSE]
  /\ queue' = IF vbEvent[u] /\ vb[u] = "absent" THEN queue \union {owner[u]} ELSE queue
  /\ UNCHANGED <<nabVars, nar, owner, vb, dbr, dbrSeen, store,
                 pc, cur, local, localFresh, vbRead, bounds>>

DeliverBackup(u) ==
  /\ vbSeen[u] # vb[u] \/ vbEvent[u]
  /\ vbSeen' = [vbSeen EXCEPT ![u] = vb[u]]
  /\ vbEvent' = [vbEvent EXCEPT ![u] = FALSE]
  /\ queue' = IF vbEvent[u] THEN queue \union {owner[u]} ELSE queue
  /\ UNCHANGED <<nabVars, nar, owner, vb, dbr, dbrSeen, store,
                 pc, cur, local, localFresh, vbRead, bounds>>

DeliverRequests(u) ==   \* DeleteBackupRequests are cached but not watched
  /\ dbrSeen[u] # dbr[u]
  /\ dbrSeen' = [dbrSeen EXCEPT ![u] = dbr[u]]
  /\ UNCHANGED <<nabVars, nar, owner, vb, vbSeen, vbEvent, dbr, store, workerVars, bounds>>

\* A PodVolumeBackup or DataUpload of the backup, another backup ahead of it in
\* Velero's queue, or the informers' periodic resync enqueues the NAB.
OtherEvent(u) ==
  /\ vbSeen[u] # "absent" /\ owner[u] \notin queue
  /\ queue' = queue \union {owner[u]}
  /\ UNCHANGED <<nabVars, nar, owner, veleroVars, pc, cur, local, localFresh, vbRead, bounds>>

(***************************************************************************)
(* Users.                                                                  *)
(***************************************************************************)
UserWrites(n, obj) ==
  /\ edits < MaxEdits
  /\ edits' = edits + 1
  /\ Changed(n, obj, TRUE)
  /\ localFresh' = (localFresh /\ cur # n)
  /\ UNCHANGED <<nar, owner, veleroVars, queue, pc, cur, local, vbRead, resyncs, faults>>

\* A label a user gives names a backup that was this NAB's.  The code takes any
\* value: what becomes of a NAB whose label names another's is not modelled.
CreateNAB(n, label, valid) ==
  /\ ~nab[n].exists /\ (label # NoUUID => owner[label] = n)
  /\ UserWrites(n, NewNAB(label, valid))
EditSpec(n)         == nab[n].exists /\ UserWrites(n, [nab[n] EXCEPT !.valid = ~@])
SetDeleteBackup(n)  ==
  nab[n].exists /\ UserWrites(n, [nab[n] EXCEPT !.deleteBackup = ~@])
DeleteNAB(n)        ==
  /\ nab[n].exists /\ ~nab[n].deletionTimestamp
  /\ UserWrites(n, Deleted(nab[n]))

\* A NonAdminRestore counts once ValidateRestoreSpec accepts it, by the cached
\* phase of its NAB.  It is late when the stored phase is Created no longer.
CreateRestore(n) ==
  /\ cache[n].phase = "Created" /\ nar[n] = "none" /\ edits < MaxEdits
  /\ edits' = edits + 1
  /\ nar' = [nar EXCEPT ![n] = IF nab[n].phase = "Created" THEN "live" ELSE "late"]
  /\ UNCHANGED <<nabVars, owner, veleroVars, workerVars, resyncs, faults>>

User(n) ==
  \/ \E label \in UUIDs \union {NoUUID}, valid \in BOOLEAN : CreateNAB(n, label, valid)
  \/ EditSpec(n) \/ SetDeleteBackup(n) \/ DeleteNAB(n) \/ CreateRestore(n)

(***************************************************************************)
(* The other controllers and Velero.                                       *)
(***************************************************************************)
RestoreGone(n) ==   \* the NonAdminRestore controller finishes a deletion
  /\ nar[n] = "terminating"
  /\ nar' = [nar EXCEPT ![n] = "none"]
  /\ UNCHANGED <<nabVars, owner, veleroVars, workerVars, bounds>>

\* u is the backup an action of Velero is about; it ends as state and the
\* worker hears of it when the change is an update or a deletion.
VeleroSets(u, state, event) ==
  /\ SetBackup(u, state, event)
  /\ queue' = IF event THEN queue \union Notified(u) ELSE queue
  /\ UNCHANGED <<nabVars, nar, owner, pc, cur, local, localFresh, vbRead, edits, faults>>

CompleteBackup(u) ==
  /\ vb[u] = "New"
  /\ VeleroSets(u, "Completed", TRUE)
  /\ store' = [store EXCEPT ![u] = TRUE]
  /\ UNCHANGED <<dbr, dbrSeen, resyncs>>

Purge(u) ==   \* the backup, its data and its requests go
  /\ VeleroSets(u, "absent", TRUE)
  /\ store' = [store EXCEPT ![u] = FALSE]
  /\ SetRequests(u, NoRequest)
  /\ UNCHANGED resyncs

ProcessRequest(u) == vb[u] = "Completed" /\ dbr[u].count > 0 /\ Purge(u)
ExpireBackup(u)   == vb[u] = "Completed" /\ Purge(u)      \* spec.ttl

\* Velero refuses a request (backup in progress, store unavailable): the
\* request stays, with its errors, until Velero expires it.
RejectRequest(u) ==
  /\ VeleroRejects
  /\ vb[u] # "absent" /\ dbr[u].count > 0 /\ dbr[u].status = "unset"
  /\ SetRequests(u, [dbr[u] EXCEPT !.status = "Processed"])
  /\ VeleroSets(u, vb[u], TRUE)
  /\ UNCHANGED <<store, resyncs>>

ExpireRequest(u) ==
  /\ dbr[u].status = "Processed"
  /\ SetRequests(u, NoRequest)
  /\ UNCHANGED <<nabVars, nar, owner, vb, vbSeen, vbEvent, store, workerVars, bounds>>

\* Velero's backup sync brings a backup back from its object store.
ResyncBackup(u) ==
  /\ store[u] /\ vb[u] = "absent" /\ resyncs < MaxResyncs
  /\ VeleroSets(u, "Completed", FALSE)
  /\ resyncs' = resyncs + 1
  /\ UNCHANGED <<dbr, dbrSeen, store>>

\* Mutant of SyncCreate: the NAB predicate drops the creation.
SyncCreateUnnoticed(n, u) ==
  /\ owner[u] = n /\ ~nab[n].exists
  /\ Changed(n, NewNAB(u, TRUE), FALSE)
  /\ localFresh' = (localFresh /\ cur # n)
  /\ UNCHANGED <<nar, owner, veleroVars, queue, pc, cur, local, vbRead, bounds>>

\* The synchronizer and the garbage collector act on what they found some time
\* before (BackupSynchronization has the passes): a NAB is created for a backup
\* when its name is free, a Velero Backup is deleted, its data kept.
SyncCreate(n, u) ==
  /\ owner[u] = n /\ ~nab[n].exists
  /\ Changed(n, NewNAB(u, TRUE), TRUE)
  /\ localFresh' = (localFresh /\ cur # n)
  /\ UNCHANGED <<nar, owner, veleroVars, queue, pc, cur, local, vbRead, bounds>>

CollectBackup(u) ==
  /\ vb[u] # "absent"
  /\ VeleroSets(u, "absent", TRUE)
  /\ UNCHANGED <<dbr, dbrSeen, store, resyncs>>

Velero(u) ==
  \/ CompleteBackup(u) \/ ProcessRequest(u) \/ ExpireBackup(u)
  \/ RejectRequest(u)  \/ ExpireRequest(u)  \/ ResyncBackup(u)

(***************************************************************************)
(* The system.  The worker, the informers and Velero's answers are fair;   *)
(* users, expiry and failures are not obliged to anything.                 *)
(***************************************************************************)
Operation ==   \* the worker, its informers, users and Velero
  \/ \E n \in Names : Reconcile(n) \/ DeliverNAB(n) \/ User(n) \/ RestoreGone(n)
  \/ \E u \in UUIDs : DeliverBackup(u) \/ DeliverRequests(u) \/ OtherEvent(u) \/ Velero(u)
  \/ Step
  \/ CallFails

Next ==
  \/ Operation
  \/ \E n \in Names, u \in UUIDs : SyncCreate(n, u)
  \/ \E u \in UUIDs : CollectBackup(u)
  \/ Restart

Spec == Init /\ [][Next]_vars

Fairness ==
  /\ WF_vars(Step)
  /\ \A n \in Names : SF_vars(Reconcile(n)) /\ WF_vars(DeliverNAB(n))
  /\ \A u \in UUIDs : /\ WF_vars(DeliverBackup(u)) /\ WF_vars(DeliverRequests(u))
                      /\ WF_vars(CompleteBackup(u)) /\ WF_vars(ProcessRequest(u))

FairSpec == Spec /\ Fairness

(***************************************************************************)
(* Safety.                                                                 *)
(***************************************************************************)

\* A NAB is tied to its Velero Backup before anything can be lost: one that
\* carries the controller's finalizer has a NACUUID, without which neither
\* deletion path would ever take the finalizer off again, and one whose phase
\* is Created has the finalizer and the Queued condition, without which the
\* missing-backup branch of createVeleroBackupAndSyncWithNonAdminBackup calls
\* Error() on a nil error.
Guarded(obj) ==
  /\ obj.finalizer => obj.uuid # NoUUID
  /\ obj.phase = "Created" => obj.finalizer /\ obj.queued
NABGuarded == \A n \in Names : Guarded(nab[n])

\* A Velero Backup in progress has its NAB: stored, with the NACUUID of the
\* backup and with the finalizer, so it cannot be orphaned ("to ensure we won't
\* risk having orphant Velero Backup resource", setFinalizerOnNonAdminBackup).
BackupHasNAB ==
  \A u \in UUIDs : vb[u] = "New" =>
    /\ owner[u] \in Names
    /\ nab[owner[u]].uuid = u /\ nab[owner[u]].finalizer

\* Once a NAB has a NACUUID it keeps it: a second one would leave the backup
\* that carries the first without a NAB (setBackupUUIDInStatus decides by a
\* cache that may not show the NACUUID it wrote a moment ago).
UUIDKept ==
  \A n \in Names : nab[n].exists /\ nab'[n].exists /\ nab[n].uuid # NoUUID
                     => nab'[n].uuid = nab[n].uuid
UUIDStable == [][UUIDKept]_vars

\* A worker whose copy is the stored NAB submits no DeleteBackupRequest while a
\* NonAdminRestore accepted from a NAB that was Created is live:
\* deleteNonAdminRestores comes first, and the phase Deleting precedes both.  It
\* says nothing of a late restore: where the cached NAB still shows Created after
\* that write, ValidateRestoreSpec accepts one that nobody deletes any more, and
\* it sees its data go.
\* A stale copy proves nothing: a user who withdraws spec.deleteBackup between
\* the status write and the Delete call, and sets it again, has the phase go back
\* to Created while a later reconcile still reads Deleting.
RestoresGoFirst ==
  [][\A u \in UUIDs : dbr'[u].count > dbr[u].count /\ localFresh
                        => nar[owner[u]] # "live"]_vars

\* A NAB that goes away without spec.deleteBackup (set and withdrawn, perhaps)
\* leaves no DeleteBackupRequest behind that would take the data with it.
RequestWithdrawn ==
  [][\A n \in Names :
       /\ nab[n].exists /\ ~nab'[n].exists
       /\ nab[n].finalizer /\ ~nab[n].deleteBackup
       => dbr[nab[n].uuid].count = 0]_vars

\* What all of this is for, as BackupLifecycle states it: a NAB is identified,
\* then held, and only then does its backup run; it does not go before the backup
\* has ended.
Life(obj) == IF ~obj.exists THEN "none"
             ELSE IF ~obj.finalizer THEN "open"
             ELSE IF obj.deletionTimestamp THEN "leaving" ELSE "held"
Lifecycle == INSTANCE BackupLifecycle
               WITH life    <- [n \in Names |-> Life(nab[n])],
                    id      <- [n \in Names |-> nab[n].uuid],
                    running <- {u \in UUIDs : vb[u] = "New"}
LifecycleKept == Lifecycle!Spec

(***************************************************************************)
(* What comments and documents say of the controller.                      *)
(***************************************************************************)

\* A NAB that is Queued has had its backup: the controller, seeing that, creates
\* no second one ("NonAdminBackup is finalized ... Please create a new
\* NonAdminBackup to initiate a new backup").
BackupRunsOnce ==
  [][\A u \in UUIDs : vb[u] = "absent" /\ vb'[u] = "New" /\ localFresh
                        => ~local.queued]_vars

(***************************************************************************)
(* Liveness.                                                               *)
(***************************************************************************)

\* A NAB being deleted goes: neither its finalizer, nor a request, nor a lost
\* event keeps it.  So does one with spec.deleteBackup, unless that is withdrawn
\* before the Delete call.
DeletionCompletes ==
  \A n \in Names :
    nab[n].exists /\ (nab[n].deletionTimestamp \/ nab[n].deleteBackup)
      ~> (nab[n].exists => ~nab[n].deletionTimestamp /\ ~nab[n].deleteBackup)

\* With it go the backup and its data ("DeleteBackup removes the NonAdminBackup
\* and its associated NonAdminRestores and VeleroBackup", NonAdminBackupSpec),
\* unless spec.deleteBackup is withdrawn: from when the cache shows the backup,
\* for a NAB without the sync label that is not already being deleted.  Where the
\* cache does not show the backup yet the finalizer goes, and backup and data
\* stay.  (A backup a stale reconcile creates anew once the first has expired
\* may stay in the same way.)
DeleteBackupCompletes ==
  \A n \in Names, u \in UUIDs :
    /\ nab[n].uuid = u /\ nab[n].syncLabel = NoUUID /\ nab[n].deleteBackup
    /\ ~nab[n].deletionTimestamp /\ vbSeen[u] # "absent"
    ~> \/ vb[u] = "absent" /\ ~store[u]
       \/ nab[n].exists /\ nab[n].syncLabel = NoUUID /\ ~nab[n].deleteBackup

\* The end of a Velero Backup reaches the status of its NAB, unless the NAB is
\* being deleted or is refused.
Followed(u) ==
  LET n == owner[u] IN
  nab[n].uuid = u =>
    \/ nab[n].mirror = vb[u]
    \/ nab[n].deletionTimestamp \/ nab[n].deleteBackup
    \/ nab[n].phase = "BackingOff" \/ ~nab[n].valid
CompletionReported ==
  \A u \in UUIDs : vb[u] = "Completed" ~> (vb[u] # "Completed" \/ Followed(u))
=============================================================================
