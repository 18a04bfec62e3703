-------------------------- MODULE NonAdminRestore --------------------------
(***************************************************************************)
(* The NonAdminRestore (NAR) controller: one worker that validates the     *)
(* NARs users create against the NonAdminBackup (NAB) they name, turns     *)
(* them into Velero Restores, mirrors their status and takes them down     *)
(* (internal/controller/nonadminrestore_controller.go), together with the  *)
(* garbage collector's loop over Velero Restores.                          *)
(*                                                                         *)
(* The API server, the three informer caches the worker reads through, its *)
(* work queue and the worker are separate state; a reconcile is cut at     *)
(* every call that writes.                                                 *)
(*                                                                         *)
(* A spec is valid or not; the NAB is reduced to what a restore asks of    *)
(* it; a Velero Restore is absent, New or Completed.                       *)
(***************************************************************************)
EXTENDS Naturals

CONSTANTS
  Names,       \* namespaced names of NARs, all of one NAB
  UUIDs,       \* NACUUIDs that GenerateNacObjectUUID can return
  NoName,      \* no NAR
  NoUUID,      \* the empty NACUUID
  Lagging,     \* the caches that may lag behind: of "nar", "vr", "nab"
  MaxEdits,    \* bound: calls users make
  MaxChanges,  \* bound: changes of the NAB
  MaxFaults    \* bound: failed API calls and restarts of the manager

ASSUME NamesAssumption == NoName \notin Names /\ NoUUID \notin UUIDs
ASSUME LaggingAssumption == Lagging \subseteq {"nar", "vr", "nab"}
ASSUME BoundsAssumption == MaxEdits \in Nat /\ MaxChanges \in Nat /\ MaxFaults \in Nat

VARIABLES
  nar,         \* NAR objects stored by the API server
  cache,       \* the informer's copy of them
  cacheFresh,  \* the copy has the stored resourceVersion
  narEvent,    \* an event the NAR predicate accepts is on its way
  owner,       \* NAR that a NACUUID was given to
  vr,          \* Velero Restore labelled with a NACUUID
  vrSeen,      \* the informer's copy of it
  vrEvent,     \* an update or delete event of it is on its way
  nab,         \* the NAB the restores are from
  nabSeen,     \* the informer's copy of it
  queue,       \* work queue
  pc,          \* step the worker is about to take
  cur,         \* NAR it reconciles
  local,       \* its in-memory copy of that NAR
  localFresh,  \* that copy has the stored resourceVersion
  vrRead,      \* state of the Velero Restore it read or created
  collecting,  \* Velero Restore the garbage collector is about to delete
  edits, changes, faults

narVars    == <<nar, cache, cacheFresh, narEvent>>
vrVars     == <<vr, vrSeen, vrEvent>>
nabVars    == <<nab, nabSeen>>
workerVars == <<queue, pc, cur, local, localFresh, vrRead>>
bounds     == <<edits, changes, faults>>
vars       == <<narVars, owner, vrVars, nabVars, workerVars, collecting, bounds>>

(***************************************************************************)
(* Objects.                                                                *)
(***************************************************************************)
VRStates == {"absent", "New", "Completed"}
VRs      == [state : VRStates, terminating : BOOLEAN]
NoVR     == [state |-> "absent", terminating |-> FALSE]

NARs == [exists            : BOOLEAN,
         deletionTimestamp : BOOLEAN,
         finalizer         : BOOLEAN,
         valid             : BOOLEAN,                \* its spec
         phase             : {"unset", "New", "BackingOff", "Created", "Deleting"},
         accepted          : {"unset", "True", "False"},
         queued            : BOOLEAN,
         uuid              : UUIDs \union {NoUUID},  \* status...NACUUID
         mirror            : VRStates]               \* status.veleroRestore.status

NewNAR(valid) ==
  [exists |-> TRUE, deletionTimestamp |-> FALSE, finalizer |-> FALSE, valid |-> valid,
   phase |-> "unset", accepted |-> "unset", queued |-> FALSE, uuid |-> NoUUID,
   mirror |-> "absent"]
NoNAR == [NewNAR(FALSE) EXCEPT !.exists = FALSE]

\* The NAB as a restore sees it: "unnamed" has no status.veleroBackup yet,
\* "refused" has one and is in another phase than Created.
NABStates == {"absent", "unnamed", "refused", "Created", "Deleting"}

Steps == {"idle", "markDelete", "deleteRestore", "init", "validate", "setUUID",
          "setFinalizer", "createRestore", "syncStatus"}

TypeOK ==
  /\ nar \in [Names -> NARs] /\ cache \in [Names -> NARs]
  /\ cacheFresh \in [Names -> BOOLEAN] /\ narEvent \in [Names -> BOOLEAN]
  /\ owner \in [UUIDs -> Names \union {NoName}]
  /\ vr \in [UUIDs -> VRs] /\ vrSeen \in [UUIDs -> VRs] /\ vrEvent \in [UUIDs -> BOOLEAN]
  /\ nab \in NABStates /\ nabSeen \in NABStates
  /\ queue \subseteq Names /\ pc \in Steps /\ cur \in Names \union {NoName}
  /\ local \in NARs /\ localFresh \in BOOLEAN /\ vrRead \in VRStates
  /\ collecting \in UUIDs \union {NoUUID}
  /\ edits \in Nat /\ changes \in Nat /\ faults \in Nat

Init ==
  /\ nar = [n \in Names |-> NoNAR] /\ cache = nar
  /\ cacheFresh = [n \in Names |-> TRUE] /\ narEvent = [n \in Names |-> FALSE]
  /\ owner = [u \in UUIDs |-> NoName]
  /\ vr = [u \in UUIDs |-> NoVR] /\ vrSeen = vr /\ vrEvent = [u \in UUIDs |-> FALSE]
  /\ nab \in {"absent", "Created"} /\ nabSeen = nab
  /\ queue = {} /\ pc = "idle" /\ cur = NoName
  /\ local = NoNAR /\ localFresh = FALSE /\ vrRead = "absent"
  /\ collecting = NoUUID
  /\ edits = 0 /\ changes = 0 /\ faults = 0

(***************************************************************************)
(* Calls on the API server, and how a step of the reconcile ends.          *)
(***************************************************************************)

\* The stored NAR n becomes obj.  event: the change is a creation, a new
\* generation or a removal, which NonAdminRestorePredicate lets through.
Changed(n, obj, event) ==
  /\ nar' = [nar EXCEPT ![n] = obj]
  /\ cacheFresh' = [cacheFresh EXCEPT ![n] = FALSE]
  /\ narEvent' = [narEvent EXCEPT ![n] = @ \/ event]
  /\ UNCHANGED cache

Deleted(obj) ==
  IF obj.finalizer THEN [obj EXCEPT !.deletionTimestamp = TRUE] ELSE NoNAR
WithoutFinalizer(obj) ==
  IF obj.deletionTimestamp THEN NoNAR ELSE [obj EXCEPT !.finalizer = FALSE]

\* The Velero Restore u changes.  VeleroRestorePredicate and its handler act on
\* updates and deletions, not on the creation.
SetRestore(u, obj) ==
  /\ vr' = [vr EXCEPT ![u] = obj]
  /\ vrEvent' = [vrEvent EXCEPT ![u] = @ \/ vr[u].state # "absent"]
  /\ UNCHANGED vrSeen

\* A Delete call: Velero puts a finalizer of its own on a Restore it works on.
DeleteVR(u) ==
  \/ vr[u].state = "New" /\ ~vr[u].terminating /\ SetRestore(u, NoVR)
  \/ ~vr[u].terminating /\ SetRestore(u, [vr[u] EXCEPT !.terminating = TRUE])
  \/ vr[u].terminating /\ UNCHANGED vrVars

Return(q) ==
  /\ pc' = "idle" /\ cur' = NoName
  /\ local' = NoNAR /\ localFresh' = FALSE /\ vrRead' = "absent"
  /\ queue' = q
Exit    == Return(queue)                 \* no error, or a TerminalError
Requeue == Return(queue \union {cur})    \* an error

Continue(step, obj) ==
  IF step = "idle" THEN Exit
  ELSE pc' = step /\ local' = obj /\ UNCHANGED <<queue, cur, localFresh, vrRead>>

\* Update or Status().Update: refused as a conflict when the copy is stale.
Update(obj, event, step) ==
  \/ localFresh /\ Changed(cur, obj, event) /\ Continue(step, obj)
  \/ ~localFresh /\ Requeue /\ UNCHANGED narVars
UpdateIfChanged(obj, step) ==
  IF obj = local THEN Continue(step, obj) /\ UNCHANGED narVars
                 ELSE Update(obj, FALSE, step)

Reconcile(n) ==
  /\ pc = "idle" /\ n \in queue
  /\ queue' = queue \ {n}
  /\ IF cache[n].exists
       THEN /\ pc' = IF cache[n].deletionTimestamp THEN "markDelete" ELSE "init"
            /\ cur' = n /\ local' = cache[n] /\ localFresh' = cacheFresh[n]
       ELSE UNCHANGED <<pc, cur, local, localFresh>>
  /\ UNCHANGED <<narVars, owner, vrVars, nabVars, vrRead, collecting, bounds>>

(***************************************************************************)
(* The deletion path.                                                      *)
(***************************************************************************)
\* Mutant of MarkDelete: the phase the documents name but the API lacks.
MarkDeletion ==
  /\ pc = "markDelete"
  /\ UpdateIfChanged([local EXCEPT !.phase = "Deletion"], "deleteRestore")
  /\ UNCHANGED <<owner, vrVars, nabVars, collecting, bounds>>

MarkDelete ==   \* setStatusAndConditionForDeletion
  /\ pc = "markDelete"
  /\ UpdateIfChanged([local EXCEPT !.phase = "Deleting"], "deleteRestore")
  /\ UNCHANGED <<owner, vrVars, nabVars, collecting, bounds>>

\* Mutant of DeleteRestore: the finalizer goes together with the Velero Restore
\* only if there was one.
DeleteRestoreOnly ==
  /\ pc = "deleteRestore"
  /\ LET u == local.uuid IN
       \/ /\ u = NoUUID \/ vrSeen[u].state = "absent"
          /\ Exit /\ UNCHANGED <<narVars, vrVars>>
       \/ /\ u # NoUUID /\ vrSeen[u].state # "absent" /\ vr[u].state # "absent"
          /\ DeleteVR(u) /\ Exit /\ UNCHANGED narVars
       \/ /\ u # NoUUID /\ vrSeen[u].state # "absent" /\ vr[u].state = "absent"
          /\ Requeue /\ UNCHANGED <<narVars, vrVars>>
  /\ UNCHANGED <<owner, nabVars, collecting, bounds>>

\* deleteVeleroRestoreAndRemoveFinalizer: the restore found in the cache is
\* deleted; the finalizer goes when a later reconcile does not find it.
DeleteRestore ==
  /\ pc = "deleteRestore"
  /\ LET u == local.uuid IN
       \/ u = NoUUID /\ Exit /\ UNCHANGED <<narVars, vrVars>>
       \/ /\ u # NoUUID /\ vrSeen[u].state = "absent"
          /\ Update(WithoutFinalizer(local), TRUE, "idle") /\ UNCHANGED vrVars
       \/ /\ u # NoUUID /\ vrSeen[u].state # "absent" /\ vr[u].state # "absent"
          /\ DeleteVR(u) /\ Exit /\ UNCHANGED narVars
       \/ /\ u # NoUUID /\ vrSeen[u].state # "absent" /\ vr[u].state = "absent"
          /\ Requeue /\ UNCHANGED <<narVars, vrVars>>                 \* NotFound
  /\ UNCHANGED <<owner, nabVars, collecting, bounds>>

(***************************************************************************)
(* The creation path.                                                      *)
(***************************************************************************)
InitCreate ==   \* init
  /\ pc = "init"
  /\ IF local.phase # "unset" THEN Continue("validate", local) /\ UNCHANGED narVars
     ELSE Update([local EXCEPT !.phase = "New"], FALSE, "validate")
  /\ UNCHANGED <<owner, vrVars, nabVars, collecting, bounds>>

\* ValidateRestoreSpec: the spec itself, and the phase of the cached NAB
Valid(obj) == obj.valid /\ nabSeen = "Created"

ValidateSpec ==   \* validateSpec; a refusal is a TerminalError
  /\ pc = "validate"
  /\ IF Valid(local)
       THEN UpdateIfChanged([local EXCEPT !.accepted = "True"], "setUUID")
       ELSE UpdateIfChanged([local EXCEPT !.phase = "BackingOff",
                                          !.accepted = "False"], "idle")
  /\ UNCHANGED <<owner, vrVars, nabVars, collecting, bounds>>

\* setUUID: goes on with a copy it fetches again, from the cache
SetUUID ==
  /\ pc = "setUUID"
  /\ LET again == cache[cur] IN
       \/ /\ ~again.exists \/ (again.uuid = NoUUID /\ ~cacheFresh[cur])
          /\ Requeue /\ UNCHANGED <<narVars, owner>>
       \/ /\ again.exists /\ again.uuid # NoUUID
          /\ pc' = "setFinalizer"
          /\ local' = again /\ localFresh' = cacheFresh[cur]
          /\ UNCHANGED <<narVars, owner, queue, cur, vrRead>>
       \/ /\ again.exists /\ again.uuid = NoUUID /\ cacheFresh[cur]
          /\ \E u \in {v \in UUIDs : owner[v] = NoName} :
               /\ Changed(cur, [again EXCEPT !.uuid = u], FALSE)
               /\ owner' = [owner EXCEPT ![u] = cur]
               /\ local' = [again EXCEPT !.uuid = u]
          /\ pc' = "setFinalizer" /\ localFresh' = TRUE
          /\ UNCHANGED <<queue, cur, vrRead>>
  /\ UNCHANGED <<vrVars, nabVars, collecting, bounds>>

\* Mutant of SetFinalizer: it is added to the copy, never written.
SetFinalizerUnwritten ==
  /\ pc = "setFinalizer"
  /\ Continue("createRestore", [local EXCEPT !.finalizer = TRUE])
  /\ UNCHANGED <<narVars, owner, vrVars, nabVars, collecting, bounds>>

SetFinalizer ==   \* setFinalizer
  /\ pc = "setFinalizer"
  /\ UpdateIfChanged([local EXCEPT !.finalizer = TRUE], "createRestore")
  /\ UNCHANGED <<owner, vrVars, nabVars, collecting, bounds>>

\* Mutant of Finalized: the test the NAB controller makes, of the phase.
FinalizedByPhase(obj) == obj.phase = "Created"

Finalized(obj) == obj.queued

\* createVeleroRestore up to the restore it reads or creates.  A NAB that is
\* gone is an error, one without status.veleroBackup a nil dereference, which
\* controller-runtime recovers and treats as an error.
CreateRestore ==
  /\ pc = "createRestore"
  /\ LET u == local.uuid IN
       \/ /\ vrSeen[u].state # "absent"
          /\ pc' = "syncStatus" /\ vrRead' = vrSeen[u].state
          /\ UNCHANGED <<narVars, vrVars, queue, cur, local, localFresh>>
       \/ /\ vrSeen[u].state = "absent" /\ Finalized(local)
          /\ UpdateIfChanged([local EXCEPT !.phase = "BackingOff",
                                           !.accepted = "False"], "idle")
          /\ UNCHANGED vrVars
       \/ /\ vrSeen[u].state = "absent" /\ ~Finalized(local)
          /\ nabSeen \in {"absent", "unnamed"} \/ vr[u].state # "absent"
          /\ Requeue /\ UNCHANGED <<narVars, vrVars>>
       \/ /\ vrSeen[u].state = "absent" /\ ~Finalized(local)
          /\ nabSeen \notin {"absent", "unnamed"} /\ vr[u].state = "absent"
          /\ SetRestore(u, [state |-> "New", terminating |-> FALSE])
          /\ pc' = "syncStatus" /\ vrRead' = "New"
          /\ UNCHANGED <<narVars, queue, cur, local, localFresh>>
  /\ UNCHANGED <<owner, nabVars, collecting, bounds>>

SyncStatus ==   \* and its status write: always made, for the queue position
  /\ pc = "syncStatus"
  /\ Update([local EXCEPT !.phase = "Created", !.queued = TRUE, !.mirror = vrRead],
            FALSE, "idle")
  /\ UNCHANGED <<owner, vrVars, nabVars, collecting, bounds>>

Step ==
  \/ MarkDelete \/ DeleteRestore
  \/ InitCreate \/ ValidateSpec \/ SetUUID \/ SetFinalizer \/ CreateRestore \/ SyncStatus

(***************************************************************************)
(* Failures: a reconcile ends with an error before or after any call; a    *)
(* restarted manager lists everything again and enqueues every NAR.        *)
(***************************************************************************)
CallFails ==
  /\ pc # "idle" /\ faults < MaxFaults
  /\ faults' = faults + 1
  /\ Requeue
  /\ UNCHANGED <<narVars, owner, vrVars, nabVars, collecting, edits, changes>>

Restart ==
  /\ faults < MaxFaults
  /\ faults' = faults + 1
  /\ Return({n \in Names : nar[n].exists})
  /\ cache' = nar /\ vrSeen' = vr /\ nabSeen' = nab
  /\ cacheFresh' = [n \in Names |-> TRUE]
  /\ narEvent' = [n \in Names |-> FALSE] /\ vrEvent' = [u \in UUIDs |-> FALSE]
  /\ collecting' = NoUUID
  /\ UNCHANGED <<nar, owner, vr, nab, edits, changes>>

(***************************************************************************)
(* Informers: a copy catches up and the event is handed to the queue.      *)
(***************************************************************************)
DeliverNAR(n) ==
  /\ ~cacheFresh[n]
  /\ cache' = [cache EXCEPT ![n] = nar[n]]
  /\ cacheFresh' = [cacheFresh EXCEPT ![n] = TRUE]
  /\ narEvent' = [narEvent EXCEPT ![n] = FALSE]
  /\ queue' = IF narEvent[n] THEN queue \union {n} ELSE queue
  /\ UNCHANGED <<nar, owner, vrVars, nabVars, pc, cur, local, localFresh, vrRead,
                 collecting, bounds>>

\* Mutant of DeliverRestore: the handler serves deletions only.
DeliverRestoreDeletes(u) ==
  /\ vrSeen[u] # vr[u] \/ vrEvent[u]
  /\ vrSeen' = [vrSeen EXCEPT ![u] = vr[u]]
  /\ vrEvent' = [vrEvent EXCEPT ![u] = FALSE]
  /\ queue' = IF vrEvent[u] /\ vr[u].state = "absent" THEN queue \union {owner[u]} ELSE queue
  /\ UNCHANGED <<narVars, owner, vr, nabVars, pc, cur, local, localFresh, vrRead,
                 collecting, bounds>>

DeliverRestore(u) ==
  /\ vrSeen[u] # vr[u] \/ vrEvent[u]
  /\ vrSeen' = [vrSeen EXCEPT ![u] = vr[u]]
  /\ vrEvent' = [vrEvent EXCEPT ![u] = FALSE]
  /\ queue' = IF vrEvent[u] THEN queue \union {owner[u]} ELSE queue
  /\ UNCHANGED <<narVars, owner, vr, nabVars, pc, cur, local, localFresh, vrRead,
                 collecting, bounds>>

DeliverNAB ==   \* NABs are cached for the worker's reads but not watched
  /\ nabSeen # nab
  /\ nabSeen' = nab
  /\ UNCHANGED <<narVars, owner, vrVars, nab, workerVars, collecting, bounds>>

\* A PodVolumeRestore or DataDownload of the restore, or the informers'
\* periodic resync, enqueues the NAR.
OtherEvent(u) ==
  /\ vrSeen[u].state # "absent" /\ owner[u] \notin queue
  /\ queue' = queue \union {owner[u]}
  /\ UNCHANGED <<narVars, owner, vrVars, nabVars, pc, cur, local, localFresh, vrRead,
                 collecting, bounds>>

(***************************************************************************)
(* The garbage collector: finds a Velero Restore whose NAR its cache does  *)
(* not have, then deletes it by name.                                      *)
(***************************************************************************)
\* Mutant of CollectFind: finished restores are left alone.
CollectFindUnfinished(u) ==
  /\ collecting = NoUUID
  /\ vrSeen[u].state = "New" /\ ~cache[owner[u]].exists
  /\ collecting' = u
  /\ UNCHANGED <<narVars, owner, vrVars, nabVars, workerVars, bounds>>

CollectFind(u) ==
  /\ collecting = NoUUID
  /\ vrSeen[u].state # "absent" /\ ~cache[owner[u]].exists
  /\ collecting' = u
  /\ UNCHANGED <<narVars, owner, vrVars, nabVars, workerVars, bounds>>

CollectDelete ==
  /\ collecting # NoUUID
  /\ collecting' = NoUUID
  /\ IF vr[collecting].state = "absent" THEN UNCHANGED vrVars ELSE DeleteVR(collecting)
  /\ UNCHANGED <<narVars, owner, nabVars, workerVars, bounds>>

(***************************************************************************)
(* Users, the NAB controller, Velero.                                      *)
(***************************************************************************)
WriteNAR(n, obj) ==
  /\ Changed(n, obj, TRUE)
  /\ localFresh' = (localFresh /\ cur # n)
  /\ UNCHANGED <<owner, vrVars, nabVars, queue, pc, cur, local, vrRead, collecting,
                 changes, faults>>

User(n) ==
  /\ edits < MaxEdits /\ edits' = edits + 1
  /\ \/ ~nar[n].exists /\ \E valid \in BOOLEAN : WriteNAR(n, NewNAR(valid))
     \/ nar[n].exists /\ WriteNAR(n, [nar[n] EXCEPT !.valid = ~@])
     \/ nar[n].exists /\ ~nar[n].deletionTimestamp /\ WriteNAR(n, Deleted(nar[n]))

DeletedWithNAB(n) ==   \* the NAB controller's deleteNonAdminRestores
  /\ nab = "Deleting" /\ nar[n].exists /\ ~nar[n].deletionTimestamp
  /\ WriteNAR(n, Deleted(nar[n]))
  /\ UNCHANGED edits

\* The NAB is created, gets its Velero Backup, is refused for a moment or for
\* good, is deleted, and may be created anew under its name.
NABChanges ==
  /\ changes < MaxChanges /\ changes' = changes + 1
  /\ \E now \in NABStates :
       /\ <<nab, now>> \in {<<"absent", "unnamed">>, <<"absent", "Created">>,
            <<"unnamed", "Created">>, <<"Created", "refused">>, <<"refused", "Created">>,
            <<"Created", "Deleting">>, <<"refused", "Deleting">>, <<"Deleting", "absent">>,
            <<"Deleting", "unnamed">>}
       /\ nab' = now
  /\ UNCHANGED <<narVars, owner, vrVars, nabSeen, workerVars, collecting, edits, faults>>

CompleteRestore(u) ==
  /\ vr[u].state = "New"
  /\ SetRestore(u, [vr[u] EXCEPT !.state = "Completed"])
  /\ UNCHANGED <<narVars, owner, nabVars, workerVars, collecting, bounds>>

RemoveRestore(u) ==   \* an admin deletes it, or Velero does with its backup
  /\ vr[u].state # "absent" /\ ~vr[u].terminating
  /\ DeleteVR(u)
  /\ UNCHANGED <<narVars, owner, nabVars, workerVars, collecting, bounds>>

FinishDeletion(u) ==   \* Velero takes its finalizer off
  /\ vr[u].terminating
  /\ SetRestore(u, NoVR)
  /\ UNCHANGED <<narVars, owner, nabVars, workerVars, collecting, bounds>>

(***************************************************************************)
(* The system.  The worker, the informers, the collector and Velero's      *)
(* answers are fair; users, the NAB, removals and failures are not.        *)
(***************************************************************************)
Informers ==
  \/ \E n \in Names : DeliverNAR(n)
  \/ \E u \in UUIDs : DeliverRestore(u)
  \/ DeliverNAB

Others ==
  \/ \E n \in Names : User(n) \/ DeletedWithNAB(n)
  \/ \E u \in UUIDs : OtherEvent(u) \/ CompleteRestore(u) \/ RemoveRestore(u) \/ FinishDeletion(u)
  \/ NABChanges

Collector == CollectDelete \/ \E u \in UUIDs : CollectFind(u)

\* Caches that do not lag follow before anything else happens.
Prompt ==
  /\ "nar" \in Lagging \/ \A n \in Names : cacheFresh[n]
  /\ "vr" \in Lagging \/ \A u \in UUIDs : vrSeen[u] = vr[u] /\ ~vrEvent[u]
  /\ "nab" \in Lagging \/ nabSeen = nab

Next ==
  \/ Informers
  \/ Prompt /\ (\/ Others \/ Collector \/ CallFails \/ Restart
                 \/ Step \/ \E n \in Names : Reconcile(n))

Spec == Init /\ [][Next]_vars

Fairness ==
  /\ WF_vars(Prompt /\ Step)
  /\ \A n \in Names : SF_vars(Prompt /\ Reconcile(n)) /\ WF_vars(DeliverNAR(n))
  /\ \A u \in UUIDs : /\ WF_vars(DeliverRestore(u))
                      /\ WF_vars(Prompt /\ CollectFind(u))
                      /\ WF_vars(Prompt /\ CompleteRestore(u))
                      /\ WF_vars(Prompt /\ FinishDeletion(u))
  /\ WF_vars(DeliverNAB) /\ WF_vars(Prompt /\ CollectDelete)

FairSpec == Spec /\ Fairness

(***************************************************************************)
(* Safety.                                                                 *)
(***************************************************************************)
Created(u) == vr[u].state = "absent" /\ vr'[u].state = "New"

\* A Velero Restore is created only while its NAR is stored with the NACUUID it
\* is labelled with and with the finalizer, although the worker works on copies
\* and the NAR may have been deleted, and created anew, since it read one.
CreatedForNAR ==
  [][\A u \in UUIDs : Created(u) =>
       LET obj == nar[owner[u]] IN obj.exists /\ obj.uuid = u /\ obj.finalizer]_vars

\* A NAR that is Queued has had its restore and is given no second one over the
\* user's namespace ("NonAdminRestore is finalized ... Please create a new
\* NonAdminRestore", createVeleroRestore), whatever became of the first and of
\* the spec.  It takes a cache of NARs that keeps up.
RestoreRunsOnce == [][\A u \in UUIDs : Created(u) => ~nar[owner[u]].queued]_vars

(***************************************************************************)
(* Liveness.                                                               *)
(***************************************************************************)

\* A NAR being deleted goes: neither a stale view of its Velero Restore nor the
\* end of that restore in the meantime keeps the finalizer.
DeletionCompletes ==
  \A n \in Names : nar[n].exists /\ nar[n].deletionTimestamp ~> ~nar[n].exists

\* A Velero Restore left behind by a NAR, which the deletion path does when its
\* cache does not show the restore yet, is collected, unless a NAR of the same
\* name hides it.
Orphaned(u) == vr[u].state # "absent" /\ ~nar[owner[u]].exists
OrphansCollected == \A u \in UUIDs : Orphaned(u) ~> ~Orphaned(u)

\* The end of a Velero Restore reaches the status of its NAR, unless the NAR is
\* being deleted or is refused.
Followed(u) ==
  LET obj == nar[owner[u]] IN
  obj.uuid = u =>
    obj.mirror = vr[u].state \/ obj.deletionTimestamp \/ obj.phase = "BackingOff" \/ ~obj.valid
CompletionReported ==
  \A u \in UUIDs : vr[u].state = "Completed" ~> (vr[u].state # "Completed" \/ Followed(u))
=============================================================================
