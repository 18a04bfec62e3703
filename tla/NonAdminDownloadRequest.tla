----------------------- MODULE NonAdminDownloadRequest -----------------------
(***************************************************************************)
(* The NonAdminDownloadRequest (NADR) controller: it asks Velero for a     *)
(* download URL by a Velero DownloadRequest (VDR), copies the answer to    *)
(* the NADR and deletes the NADR when the URL has expired                  *)
(* (internal/controller/nonadmindownloadrequest_controller.go).            *)
(*                                                                         *)
(* The requests are about one backup and one restore of it.  Status writes *)
(* are merge patches: they carry no resourceVersion, so they apply to      *)
(* whatever object has the name when they arrive.                          *)
(***************************************************************************)
EXTENDS Naturals

CONSTANTS
  Names,       \* names of NADRs
  UIDs,        \* UIDs the API server can give a NADR, one per incarnation
  VDRs,        \* VDRs that can be created, one per creation
  NoUID, NoVDR, NoName,
  MaxChanges,  \* bound: changes to the backup and the restore
  MaxFaults    \* bound: failed API calls and restarts of the manager

ASSUME NoneAssumption == NoUID \notin UIDs /\ NoVDR \notin VDRs /\ NoName \notin Names
ASSUME BoundsAssumption == MaxChanges \in Nat /\ MaxFaults \in Nat

VARIABLES
  nadr,        \* NADR objects stored by the API server
  cache,       \* the informer's copy
  created,     \* an event the NADR predicate accepts is on its way
  nab, nar,    \* what the controller finds of the backup and the restore
  vdr,         \* the VDRs
  vdrSeen,     \* VDRs the informer shows, as last delivered
  late,        \* VDRs whose expiration has passed
  queue, timers,
  pc, cur, req,  \* the worker: step, NADR and its in-memory copy
  target,      \* what the VDR it builds targets so far
  gaveUp,      \* history: NADRs whose last reconcile met a backup without NaBSL
  changes, faults

world    == <<nab, nar, changes>>
velero   == <<vdr, vdrSeen, late>>
worker   == <<pc, cur, req, target>>
vars     == <<nadr, cache, created, world, velero, queue, timers, worker, gaveUp, faults>>

Kinds      == {"backup", "restore"}
Conditions == {"none", "Processed", "BackupNotAvailable", "RestoreNotAvailable", "NotUsed"}
NADRs == [uid       : UIDs \union {NoUID},     \* NoUID: there is no such NADR
          kind      : Kinds,                   \* spec.target.kind
          url       : VDRs \union {NoVDR},     \* VDR its status was copied from
          phase     : {"unset", "BackingOff", "Created"},
          condition : Conditions]
NewNADR(uid, kind) == [uid |-> uid, kind |-> kind, url |-> NoVDR,
                       phase |-> "unset", condition |-> "none"]
NoNADR == NewNADR(NoUID, "backup")

\* target: the kind of object spec.target.name names, if it names any.
VDRObjects == [state  : {"unused", "New", "Processed", "gone"},
               uid    : UIDs \union {NoUID},
               name   : Names \union {NoName},
               kind   : Kinds,
               target : Kinds \union {"none"}]
Unused == [state |-> "unused", uid |-> NoUID, name |-> NoName, kind |-> "backup", target |-> "none"]
Live(object) == object.state \in {"New", "Processed"}

\* The backup and the restore: absent, without their Velero names yet, or with
\* them; "noNaBSL": a backup that uses no NonAdminBackupStorageLocation.
BackupStates  == {"absent", "noNaBSL", "unnamed", "named"}
RestoreStates == {"absent", "unnamed", "named"}

TypeOK ==
  /\ nadr \in [Names -> NADRs] /\ cache \in [Names -> NADRs]
  /\ created \in [Names -> BOOLEAN]
  /\ nab \in BackupStates /\ nar \in RestoreStates
  /\ vdr \in [VDRs -> VDRObjects] /\ vdrSeen \in [VDRs -> VDRObjects]
  /\ late \subseteq VDRs
  /\ queue \subseteq Names /\ timers \subseteq Names
  /\ pc \in {"idle", "check", "delete", "schedule", "get", "patchURL", "patchPhase",
             "getRestore", "getBackup", "create"}
  /\ cur \in Names \union {NoName} /\ req \in NADRs /\ target \in Kinds \union {"none"}
  /\ gaveUp \subseteq Names
  /\ changes \in Nat /\ faults \in Nat

Init ==
  /\ nadr = [n \in Names |-> NoNADR] /\ cache = nadr
  /\ created = [n \in Names |-> FALSE]
  /\ nab = "absent" /\ nar = "absent"
  /\ vdr = [v \in VDRs |-> Unused] /\ vdrSeen = vdr
  /\ late = {} /\ queue = {} /\ timers = {}
  /\ pc = "idle" /\ cur = NoName /\ req = NoNADR /\ target = "none"
  /\ gaveUp = {} /\ changes = 0 /\ faults = 0

(***************************************************************************)
(* How a step ends, and the status patch.                                  *)
(***************************************************************************)
Return(q) ==
  pc' = "idle" /\ cur' = NoName /\ req' = NoNADR /\ target' = "none" /\ queue' = q
Exit    == Return(queue)
Requeue == Return(queue \union {cur})

\* After the last call, whose answer can be lost: it took effect, the reconcile
\* ends with an error and is retried.
ExitAfterCall ==
  \/ Exit /\ UNCHANGED faults
  \/ faults < MaxFaults /\ faults' = faults + 1 /\ Requeue
RequeueAfterCall == Requeue /\ UNCHANGED faults
ExitIfStored ==   \* a second patch
  IF nadr[cur].uid = NoUID THEN RequeueAfterCall ELSE ExitAfterCall

Goto(step) == pc' = step /\ UNCHANGED <<cur, req, target, queue>>

\* The VDR under construction is to target an object named like that, if at all.
Aim(step, object) == pc' = step /\ target' = object /\ UNCHANGED <<cur, req, queue>>

\* Stored, when the name still exists; the answer becomes the worker's copy.
Patched(obj, url, phase, condition) ==
  [obj EXCEPT !.url = url, !.phase = phase, !.condition = condition]
Patch(url, phase, condition) ==
  nadr' = [nadr EXCEPT ![cur] = Patched(@, url, phase, condition)]

(***************************************************************************)
(* Reconcile.                                                              *)
(***************************************************************************)
Reconcile(n) ==   \* AsReconciler: reads the NADR, returns when there is none
  /\ pc = "idle" /\ n \in queue
  /\ queue' = queue \ {n}
  /\ IF cache[n].uid = NoUID THEN UNCHANGED worker
     ELSE pc' = "check" /\ cur' = n /\ req' = cache[n] /\ UNCHANGED target
  /\ gaveUp' = gaveUp \ {n}
  /\ UNCHANGED <<nadr, cache, created, world, velero, timers, faults>>

Check ==
  /\ pc = "check"
  /\ Goto(IF req.url = NoVDR THEN "get" ELSE IF req.url \in late THEN "delete"
          ELSE "schedule")
  /\ UNCHANGED <<nadr, cache, created, world, velero, timers, faults, gaveUp>>

Delete ==   \* deleteExpiredDownloadRequest
  /\ pc = "delete" /\ ExitAfterCall
  /\ nadr' = [nadr EXCEPT ![cur] = NoNADR]
  /\ created' = [created EXCEPT ![cur] = TRUE]
  /\ UNCHANGED <<cache, world, velero, timers, gaveUp>>

\* RequeueAfter time.Until(expiration): no requeue if that is not positive.
Schedule ==
  /\ pc = "schedule" /\ Exit
  /\ timers' = IF req.url \in late THEN timers ELSE timers \union {cur}
  /\ UNCHANGED <<nadr, cache, created, world, velero, faults, gaveUp>>

\* Mutant of Found: the VDR is looked up by the controller's label, not by the UID.
FoundByLabel == {v \in VDRs : Live(vdrSeen[v])}

Found == {v \in VDRs : Live(vdrSeen[v]) /\ vdrSeen[v].uid = req.uid}

GetVDR ==   \* the VDR is named after the UID; then updateNADRWithURL's condition
  /\ pc = "get"
  /\ \/ Found = {} /\ Goto(IF req.kind = "restore" THEN "getRestore" ELSE "getBackup")
     \/ \E v \in Found :
          IF vdrSeen[v].state = "Processed" /\ v \notin late
            THEN pc' = "patchURL" /\ req' = [req EXCEPT !.url = v] /\ UNCHANGED <<cur, target, queue>>
            ELSE Exit
  /\ UNCHANGED <<nadr, cache, created, world, velero, timers, faults, gaveUp>>

PatchURL ==   \* updateNADRWithURL, its first patch: the VDR's status
  /\ pc = "patchURL"
  /\ IF nadr[cur].uid = NoUID THEN Requeue /\ UNCHANGED nadr
     ELSE /\ Patch(req.url, nadr[cur].phase, nadr[cur].condition)
          /\ Goto("patchPhase")
  /\ UNCHANGED <<cache, created, world, velero, timers, faults, gaveUp>>

\* Mutant of PatchPhase: phase and condition change places.
PatchPhaseSwapped ==
  /\ pc = "patchPhase"
  /\ IF nadr[cur].uid = NoUID THEN RequeueAfterCall /\ UNCHANGED nadr
     ELSE Patch(nadr[cur].url, "Processed", "Created") /\ ExitAfterCall
  /\ UNCHANGED <<cache, created, world, velero, timers, gaveUp>>

PatchPhase ==   \* its second patch
  /\ pc = "patchPhase"
  /\ IF nadr[cur].uid = NoUID THEN RequeueAfterCall /\ UNCHANGED nadr
     ELSE Patch(nadr[cur].url, "Created", "Processed") /\ ExitAfterCall
  /\ UNCHANGED <<cache, created, world, velero, timers, gaveUp>>

\* patchAddErrorStatusTrueConditionBackoff; its own error is only logged.
BackOff(condition) ==
  IF nadr[cur].uid = NoUID THEN UNCHANGED nadr
  ELSE Patch(nadr[cur].url, "BackingOff", condition)

GetRestore ==   \* processDownloadRequest, a target that belongs to a restore
  /\ pc = "getRestore"
  /\ IF nar = "absent" THEN BackOff("RestoreNotAvailable") /\ Requeue
     ELSE UNCHANGED nadr /\ Aim("getBackup", IF nar = "named" THEN "restore" ELSE "none")
  /\ UNCHANGED <<cache, created, world, velero, timers, faults, gaveUp>>

\* The restore's name when it has one, else the backup's.
BackupUnlessSet == IF target = "none" /\ nab = "named" THEN "backup" ELSE target

\* A backup without NaBSL: the condition is patched in, then the phase, which that
\* patch set in the copy already, so the second patch is empty.  Where only the
\* first is lost, which is only logged, the reconcile ends well with nothing told.
GiveUp ==
  /\ gaveUp' = gaveUp \union {cur}
  /\ \/ BackOff("NotUsed") /\ ExitIfStored
     \/ /\ nadr[cur].uid # NoUID /\ faults < MaxFaults
        /\ faults' = faults + 1
        /\ Exit /\ UNCHANGED nadr

\* Mutant of GetBackup: a backup that is not there is not an error.
GetBackupOnce ==
  /\ pc = "getBackup"
  /\ \/ /\ nab = "absent"
        /\ BackOff("BackupNotAvailable") /\ Exit /\ UNCHANGED <<gaveUp, faults>>
     \/ nab = "noNaBSL" /\ GiveUp
     \/ /\ nab \in {"unnamed", "named"}
        /\ Aim("create", BackupUnlessSet) /\ UNCHANGED <<nadr, gaveUp, faults>>
  /\ UNCHANGED <<cache, created, world, velero, timers>>

GetBackup ==
  /\ pc = "getBackup"
  /\ \/ /\ nab = "absent"
        /\ BackOff("BackupNotAvailable") /\ RequeueAfterCall /\ UNCHANGED gaveUp
     \/ nab = "noNaBSL" /\ GiveUp
     \/ /\ nab \in {"unnamed", "named"}
        /\ Aim("create", BackupUnlessSet) /\ UNCHANGED <<nadr, gaveUp, faults>>
  /\ UNCHANGED <<cache, created, world, velero, timers>>

Spent == \A v \in VDRs : vdr[v].state # "unused"    \* bound
NextVDR == CHOOSE v \in VDRs : vdr[v].state = "unused"

CreateVDR ==
  /\ pc = "create"
  /\ IF \/ \E v \in VDRs : Live(vdr[v]) /\ vdr[v].uid = req.uid    \* AlreadyExists
        \/ Spent
       THEN RequeueAfterCall /\ UNCHANGED vdr
       ELSE /\ vdr' = [vdr EXCEPT ![NextVDR] =
                        [state |-> "New", uid |-> req.uid, name |-> cur,
                         kind |-> req.kind, target |-> target]]
            /\ ExitAfterCall
  /\ UNCHANGED <<nadr, cache, created, world, vdrSeen, late, timers, gaveUp>>

Step ==
  \/ Check \/ Delete \/ Schedule \/ GetVDR \/ PatchURL \/ PatchPhase
  \/ GetRestore \/ GetBackup \/ CreateVDR

\* A call fails before its effect, or after it when another was to follow; at
\* getRestore and getBackup all patches fail (GiveUp has the first failing alone).
CallFails ==
  /\ pc \notin {"idle", "check", "schedule"} /\ faults < MaxFaults
  /\ faults' = faults + 1
  /\ Requeue
  /\ UNCHANGED <<nadr, cache, created, world, velero, timers, gaveUp>>

Restart ==
  /\ faults < MaxFaults
  /\ faults' = faults + 1
  /\ Return({n \in Names : nadr[n].uid # NoUID})
  /\ cache' = nadr /\ created' = [n \in Names |-> FALSE]
  /\ vdrSeen' = vdr /\ timers' = {}
  /\ UNCHANGED <<nadr, world, vdr, late, gaveUp>>

(***************************************************************************)
(* Informers, handlers and the requeue timer.                              *)
(***************************************************************************)
DeliverNADR(n) ==
  /\ cache[n] # nadr[n] \/ created[n]
  /\ cache' = [cache EXCEPT ![n] = nadr[n]]
  /\ created' = [created EXCEPT ![n] = FALSE]
  /\ queue' = IF created[n] THEN queue \union {n} ELSE queue
  /\ UNCHANGED <<nadr, world, velero, timers, worker, faults, gaveUp>>

\* A VDR asked for again has the name of the one before it, so the informer first
\* shows that that one is gone.
Shown(v) ==
  /\ vdrSeen[v] # vdr[v]
  /\ \A w \in VDRs \ {v} : Live(vdrSeen[w]) => vdr[w].uid # vdr[v].uid

\* Mutant of DeliverVDR: the handler waits for an update after the URL.
DeliverVDRSilently(v) ==
  /\ Shown(v)
  /\ vdrSeen' = [vdrSeen EXCEPT ![v] = vdr[v]]
  /\ UNCHANGED <<nadr, cache, created, world, vdr, late, queue, timers, worker, faults, gaveUp>>

DeliverVDR(v) ==   \* the handler listens to updates of processed VDRs only
  /\ Shown(v)
  /\ vdrSeen' = [vdrSeen EXCEPT ![v] = vdr[v]]
  /\ queue' = IF vdr[v].state = "Processed" THEN queue \union {vdr[v].name} ELSE queue
  /\ UNCHANGED <<nadr, cache, created, world, vdr, late, timers, worker, faults, gaveUp>>

\* A timer outlives the NADR it was set for; it then finds nothing.
TimerFires(n) ==
  /\ n \in timers /\ nadr[n].url \in late \union {NoVDR}
  /\ timers' = timers \ {n}
  /\ queue' = queue \union {n}
  /\ UNCHANGED <<nadr, cache, created, world, velero, worker, faults, gaveUp>>

(***************************************************************************)
(* Users, the other controllers, Velero and time.                          *)
(***************************************************************************)
\* UIDs are never reused: one is free when nothing remembers it.
FreeUIDs ==
  {uid \in UIDs : /\ \A m \in Names : nadr[m].uid # uid /\ cache[m].uid # uid
                  /\ req.uid # uid /\ \A v \in VDRs : vdr[v].uid # uid}

CreateNADR(n, kind) ==
  /\ nadr[n].uid = NoUID /\ FreeUIDs # {}
  /\ nadr' = [nadr EXCEPT ![n] = NewNADR(CHOOSE uid \in FreeUIDs : TRUE, kind)]
  /\ created' = [created EXCEPT ![n] = TRUE]
  /\ gaveUp' = gaveUp \ {n}
  /\ UNCHANGED <<cache, world, velero, queue, timers, worker, faults>>

DeleteNADR(n) ==
  /\ nadr[n].uid # NoUID /\ changes < MaxChanges
  /\ changes' = changes + 1
  /\ nadr' = [nadr EXCEPT ![n] = NoNADR]
  /\ created' = [created EXCEPT ![n] = TRUE]
  /\ UNCHANGED <<cache, nab, nar, velero, queue, timers, worker, faults, gaveUp>>

\* The predicate lets a spec change through unless the NADR is terminal.
EditNADR(n) ==
  /\ nadr[n].uid # NoUID /\ changes < MaxChanges
  /\ changes' = changes + 1
  /\ nadr' = [nadr EXCEPT ![n].kind = IF @ = "backup" THEN "restore" ELSE "backup"]
  /\ created' = [created EXCEPT ![n] = @ \/ nadr[n].condition # "NotUsed"]
  /\ UNCHANGED <<cache, nab, nar, velero, queue, timers, worker, faults, gaveUp>>

BackupChanges ==
  /\ changes < MaxChanges /\ changes' = changes + 1
  /\ \/ nab = "absent" /\ nab' \in {"noNaBSL", "unnamed"}
     \/ nab = "unnamed" /\ nab' = "named"
     \/ nab # "absent" /\ nab' = "absent"
  /\ UNCHANGED <<nadr, cache, created, nar, velero, queue, timers, worker, faults, gaveUp>>

RestoreChanges ==
  /\ changes < MaxChanges /\ changes' = changes + 1
  /\ \/ nar = "absent" /\ nar' = "unnamed"
     \/ nar = "unnamed" /\ nar' = "named"
     \/ nar # "absent" /\ nar' = "absent"
  /\ UNCHANGED <<nadr, cache, created, nab, velero, queue, timers, worker, faults, gaveUp>>

VeleroProcesses(v) ==
  /\ vdr[v].state = "New" /\ vdr[v].target = vdr[v].kind
  /\ vdr' = [vdr EXCEPT ![v].state = "Processed"]
  /\ UNCHANGED <<nadr, cache, created, world, vdrSeen, late, queue, timers, worker, faults, gaveUp>>

URLExpires(v) ==
  /\ vdr[v].state \in {"Processed", "gone"} /\ v \notin late
  /\ late' = late \union {v}
  /\ UNCHANGED <<nadr, cache, created, world, vdr, vdrSeen, queue, timers, worker, faults, gaveUp>>

VeleroDeletes(v) ==   \* Velero deletes the VDRs that have expired
  /\ vdr[v].state = "Processed" /\ v \in late
  /\ vdr' = [vdr EXCEPT ![v].state = "gone"]
  /\ UNCHANGED <<nadr, cache, created, world, vdrSeen, late, queue, timers, worker, faults, gaveUp>>

Next ==
  \/ \E n \in Names : \/ Reconcile(n) \/ DeliverNADR(n) \/ TimerFires(n)
                      \/ DeleteNADR(n) \/ EditNADR(n)
                      \/ \E kind \in Kinds : CreateNADR(n, kind)
  \/ \E v \in VDRs : DeliverVDR(v) \/ VeleroProcesses(v) \/ URLExpires(v) \/ VeleroDeletes(v)
  \/ BackupChanges \/ RestoreChanges
  \/ Step \/ CallFails \/ Restart

Spec == Init /\ [][Next]_vars

\* The worker, the informers, the timer and Velero go on; users, failures and
\* the expiry of a URL are not obliged to anything.
Fairness ==
  /\ WF_vars(Step)
  /\ \A n \in Names : /\ SF_vars(Reconcile(n)) /\ WF_vars(DeliverNADR(n))
                      /\ WF_vars(TimerFires(n))
  /\ \A v \in VDRs : /\ WF_vars(DeliverVDR(v)) /\ WF_vars(VeleroProcesses(v))
                     /\ WF_vars(VeleroDeletes(v))
FairSpec == Spec /\ Fairness

(***************************************************************************)
(* Properties.                                                             *)
(***************************************************************************)
Provided(v) == vdr[v].state \in {"Processed", "gone"}

\* A NADR shows no URL but one that Velero provided to a VDR made for a NADR of
\* that name, so no user gets the URL of another's backup: the controller finds
\* the VDR by a UID it read from a cache, and patches whatever has the name.
OwnURL ==
  \A n \in Names : nadr[n].url # NoVDR =>
    vdr[nadr[n].url].name = n /\ Provided(nadr[n].url)

\* The NADR shows a URL that is good, provided for this very incarnation.
Shows(n, v) == nadr[n].url = v /\ vdr[v].uid = nadr[n].uid /\ v \notin late

\* As long as that object stays, so does its good URL: no stale copy of the NADR
\* or of a VDR makes the controller put another in its place.
GoodURLKept ==
  [][\A n \in Names, v \in VDRs :
       Shows(n, v) /\ nadr'[n].uid = nadr[n].uid => nadr'[n].url = v]_vars

VDRsOf(n) == {v \in VDRs : Live(vdr[v]) /\ vdr[v].uid = nadr[n].uid}

\* A URL Velero provides reaches the NADR while it is good: the update event of
\* the VDR is the only thing that brings the controller back.
URLArrives ==
  \A n \in Names, v \in VDRs :
    (v \in VDRsOf(n) /\ vdr[v].state = "Processed")
      ~> (v \notin VDRsOf(n) \/ v \in late \/ nadr[n].url # NoVDR)

\* A request whose backup (and restore) is there, or appears later, is put to
\* Velero: until then the reconcile keeps failing and is retried.  Only a request
\* whose last reconcile met a backup without NaBSL is given up, until something
\* else brings the controller back to it: its user is told so by the condition or,
\* where that patch was lost, not told.
Wanted(n) ==
  /\ nadr[n].uid # NoUID /\ nadr[n].url = NoVDR /\ n \notin gaveUp
  /\ nab \in {"unnamed", "named"} /\ (nadr[n].kind = "restore" => nar # "absent")
  /\ ~Spent /\ \A v \in VDRs : vdr[v].uid # nadr[n].uid
RequestForwarded == \A n \in Names : Wanted(n) ~> ~Wanted(n)

(***************************************************************************)
(* What comments say.                                                      *)
(***************************************************************************)

\* A NADR with a URL is cleaned up when the URL has expired ("requeue when
\* expired to cleanup", "eventually this will NADR will expire and get deleted
\* anyway").
ExpiredIsDeleted ==
  \A n \in Names : nadr[n].url \in late ~> nadr[n].url \notin late
=============================================================================
