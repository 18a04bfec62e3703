----------------------- MODULE BackupSynchronization -----------------------
(***************************************************************************)
(* The NonAdminBackup synchronizer and the garbage collector beside the    *)
(* NonAdminBackup controller, in one manager process                       *)
(* (internal/controller/nonadminbackupsynchronizer_controller.go, and the  *)
(* loop over Backups of garbagecollector_controller.go).                   *)
(*                                                                         *)
(* Both run at a period and in passes: they list Velero Backups, look the  *)
(* NAB of each up by name, and act on what was missing, each pass on what  *)
(* the pass before it found.  The backup, the NAB and either of the other  *)
(* controllers can have moved on in between.                               *)
(***************************************************************************)
EXTENDS NonAdminBackup

VARIABLES
  listed,      \* finished backups the synchronizer has yet to look up
  missing,     \* backupsToSync: the ones whose NAB it did not find
  collecting   \* Velero Backup the collector is about to delete

passes  == <<listed, missing, collecting>>
allVars == <<vars, passes>>

\* The backups the synchronizer holds are of NABs, however late it acts on them.
PassesOK == /\ listed \subseteq UUIDs /\ missing \subseteq UUIDs
            /\ collecting \in UUIDs \union {NoUUID}
            /\ \A u \in listed \union missing : owner[u] \in Names

(***************************************************************************)
(* The synchronizer.                                                       *)
(***************************************************************************)
\* Mutant of SyncList: the NonAdmin metadata of a backup is not looked at.
SyncListAll ==
  /\ listed = {} /\ missing = {}
  /\ listed' = {u \in UUIDs : vbSeen[u] # "New"}
  /\ UNCHANGED <<vars, missing, collecting>>

SyncList ==
  /\ listed = {} /\ missing = {}
  /\ listed' = {u \in UUIDs : vbSeen[u] = "Completed"}
  /\ UNCHANGED <<vars, missing, collecting>>

SyncLookup(u) ==
  /\ u \in listed
  /\ listed' = listed \ {u}
  /\ missing' = IF cache[owner[u]].exists THEN missing ELSE missing \union {u}
  /\ UNCHANGED <<vars, collecting>>

\* Create, or an error (AlreadyExists) that ends the pass
CreateMissing(u) ==
  /\ listed = {} /\ u \in missing
  /\ \/ SyncCreate(owner[u], u) /\ missing' = missing \ {u}
     \/ nab[owner[u]].exists /\ missing' = {} /\ UNCHANGED vars
  /\ UNCHANGED <<listed, collecting>>

(***************************************************************************)
(* The garbage collector.                                                  *)
(***************************************************************************)

\* Mutant of CollectFind: it asks for a NAB with the backup's NACUUID.
CollectFindByUUID(u) ==
  /\ collecting = NoUUID
  /\ vbSeen[u] # "absent" /\ cache[owner[u]].uuid # u
  /\ collecting' = u
  /\ UNCHANGED <<vars, listed, missing>>

CollectFind(u) ==
  /\ collecting = NoUUID
  /\ vbSeen[u] # "absent" /\ ~cache[owner[u]].exists
  /\ collecting' = u
  /\ UNCHANGED <<vars, listed, missing>>

\* Mutant of CollectDelete: the data goes too.
CollectPurge ==
  /\ collecting # NoUUID /\ collecting' = NoUUID
  /\ IF vb[collecting] = "absent" THEN UNCHANGED vars ELSE Purge(collecting)
  /\ UNCHANGED <<listed, missing>>

CollectDelete ==
  /\ collecting # NoUUID /\ collecting' = NoUUID
  /\ IF vb[collecting] = "absent" THEN UNCHANGED vars ELSE CollectBackup(collecting)
  /\ UNCHANGED <<listed, missing>>

(***************************************************************************)
(* The system: a restart of the manager ends every pass.                   *)
(***************************************************************************)
SyncInit == Init /\ listed = {} /\ missing = {} /\ collecting = NoUUID

SyncNext ==
  \/ Operation /\ UNCHANGED passes
  \/ Restart /\ listed' = {} /\ missing' = {} /\ collecting' = NoUUID
  \/ SyncList \/ CollectDelete
  \/ \E u \in UUIDs : SyncLookup(u) \/ CreateMissing(u) \/ CollectFind(u)

SyncSpec == SyncInit /\ [][SyncNext]_allVars

\* What Fairness asks of the controller, and that passes follow one another.
SyncFairness ==
  /\ WF_allVars(Step /\ UNCHANGED passes)
  /\ \A n \in Names : /\ SF_allVars(Reconcile(n) /\ UNCHANGED passes)
                      /\ WF_allVars(DeliverNAB(n) /\ UNCHANGED passes)
  /\ \A u \in UUIDs : /\ WF_allVars(DeliverBackup(u) /\ UNCHANGED passes)
                      /\ WF_allVars(DeliverRequests(u) /\ UNCHANGED passes)
                      /\ WF_allVars(CompleteBackup(u) /\ UNCHANGED passes)
                      /\ WF_allVars(ProcessRequest(u) /\ UNCHANGED passes)
                      /\ WF_allVars(SyncLookup(u)) /\ WF_allVars(CreateMissing(u))
                      /\ WF_allVars(CollectFind(u))
  /\ WF_allVars(SyncList) /\ WF_allVars(CollectDelete)

FairSyncSpec == SyncSpec /\ SyncFairness

(***************************************************************************)
(* Properties.                                                             *)
(***************************************************************************)

\* Whatever the synchronizer and the collector do, on findings however old, is a
\* step the NonAdminBackup specification allows for: what holds of it (a NACUUID
\* never changes, a Created NAB has its finalizer, ...) holds with the two
\* running.
ControllerSpec == Spec

\* The Velero Backup of a NAB without the sync label is only taken away, its data
\* kept, when that NAB is being deleted: the collector, which tells an orphan by
\* what the cache does not have, never meets it.  (A NAB with the label, such as
\* the synchronizer makes, can be met by a collector that looked before: README.)
BackupKept ==
  [][\A u \in UUIDs :
       vb[u] # "absent" /\ vb'[u] = "absent" /\ store'[u] = store[u] =>
         LET obj == nab[owner[u]] IN
         obj.uuid = u /\ obj.syncLabel = NoUUID => obj.deletionTimestamp]_allVars

\* A Velero Backup without a NAB does not stay so: a NAB is created and takes its
\* NACUUID, or it is collected, although the two undo each other's work and users
\* delete the NAB again at any moment.
Stranded(u) ==
  LET obj == nab[owner[u]] IN
  vb[u] # "absent" /\ (~obj.exists \/ (obj.syncLabel = u /\ obj.uuid # u))
NoneStranded == \A u \in UUIDs : Stranded(u) ~> ~Stranded(u)
=============================================================================
