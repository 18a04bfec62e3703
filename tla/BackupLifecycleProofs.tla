----------------------- MODULE BackupLifecycleProofs -----------------------
(***************************************************************************)
(* The NonAdminBackup controller implements BackupLifecycle, and so runs   *)
(* no Velero Backup without the NAB that holds it, for any set of NABs and *)
(* NACUUIDs and any number of failures, restarts and edits, when caches of *)
(* Velero Backups do not lag (OthersLag = FALSE; the cache of NABs may).   *)
(* With a lag it does not: a backup the cache does not show yet is taken   *)
(* for one that is gone, and the finalizer goes.                           *)
(*                                                                         *)
(* The invariant adds to IInv why the worker, deciding by copies that may  *)
(* be old, is right about the finalizer: it alone takes finalizers off,    *)
(* and only from a NAB that it has seen terminating.  The second half of   *)
(* the module is about the requests and restores that go before a backup.  *)
(***************************************************************************)
EXTENDS NonAdminBackupProofs

Truthful(n) == cache[n].finalizer => nab[n].finalizer /\ nab[n].uuid = cache[n].uuid

NABOK(n) ==
  /\ ~nab[n].exists => /\ ~nab[n].finalizer /\ ~nab[n].deletionTimestamp
                       /\ nab[n].uuid = NoUUID /\ nab[n].syncLabel = NoUUID
  /\ nab[n].deletionTimestamp => nab[n].finalizer
  /\ nab[n].uuid # NoUUID => owner[nab[n].uuid] = n
  /\ nab[n].syncLabel # NoUUID => owner[nab[n].syncLabel] = n
  /\ ~cache[n].deletionTimestamp => Truthful(n)
NABsOK == \A n \in Names : NABOK(n)

WorkerOK ==
  /\ localFresh => local.exists /\ (local.deletionTimestamp => cache[cur].deletionTimestamp)
  /\ pc \in {"markDirect", "deleteRestores", "requestDeletion", "deleteRequests", "deleteBackup"}
       => local.deletionTimestamp
  /\ pc \in {"init", "validate", "setUUID"} => Truthful(cur)
  /\ (pc = "setFinalizer" /\ local.finalizer) \/ pc = "createBackup"
       => nab[cur].finalizer /\ nab[cur].uuid = local.uuid

BackupsOK == vbSeen = vb /\ BackupHasNAB

JInv == IInv /\ NABsOK /\ WorkerOK /\ BackupsOK

LEMMA JInitOK == Init => JInv
<1>1. NoNAB.uuid = NoUUID /\ ~NoNAB.finalizer /\ ~NoNAB.deletionTimestamp
      /\ NoNAB.syncLabel = NoUUID
  BY DEF NoNAB, NewNAB
<1>2. QED
  BY <1>1, InitOK DEF Init, JInv, NABsOK, NABOK, WorkerOK, BackupsOK, BackupHasNAB, Truthful

-----------------------------------------------------------------------------
(***************************************************************************)
(* What steps have in common.                                              *)
(***************************************************************************)
SameLife(a, b) ==
  /\ a.exists = b.exists /\ a.deletionTimestamp = b.deletionTimestamp
  /\ a.finalizer = b.finalizer /\ a.uuid = b.uuid /\ a.syncLabel = b.syncLabel

\* No NAB is created, identified, held, deleted or removed.
NABsSame == \A n \in Names : SameLife(nab'[n], nab[n])

\* A NAB that is held stays held.
HeldKept ==
  \A n \in Names : nab[n].finalizer => nab'[n].finalizer /\ nab'[n].uuid = nab[n].uuid

CacheFollows == \A n \in Names : cache'[n] = cache[n] \/ cache'[n] = nab'[n]

LEMMA SameHeld == ASSUME NABsSame PROVE HeldKept
BY DEF NABsSame, SameLife, HeldKept

LEMMA NABsSameOK ==
  ASSUME JInv, NABsSame, CacheFollows, owner' = owner PROVE NABsOK'
BY DEF JInv, NABsOK, NABOK, NABsSame, SameLife, CacheFollows, Truthful

LEMMA ReturnOK == ASSUME NEW q, Return(q) PROVE WorkerOK'
BY DEF Return, WorkerOK

\* Others move, the worker does not: what it knows stays true.
LEMMA BystanderOK ==
  ASSUME JInv, IInv', HeldKept, CacheFollows, UNCHANGED <<pc, cur, local>>,
         localFresh' => localFresh
  PROVE  WorkerOK'
<1>1. pc # "idle" => cur \in Names
  BY DEF JInv, IInv, CopiesOK
<1>2. localFresh' => local' = nab'[cur'] /\ pc' # "idle"
  BY DEF IInv, CopiesOK
<1>3. QED
  BY <1>1, <1>2 DEF JInv, WorkerOK, HeldKept, CacheFollows, Truthful

\* Backups end, or none starts.
LEMMA BackupsKept ==
  ASSUME JInv, HeldKept, vbSeen' = vb',
         \A u \in UUIDs : vb'[u] = "New" => vb[u] = "New",
         \A u \in UUIDs : owner[u] \in Names => owner'[u] = owner[u]
  PROVE  BackupsOK'
BY DEF JInv, BackupsOK, BackupHasNAB, HeldKept

-----------------------------------------------------------------------------
(***************************************************************************)
(* Steps of the worker after which every NAB has the life it had.          *)
(***************************************************************************)
Advances(step, obj) == pc' = step /\ local' = obj /\ UNCHANGED <<cur, localFresh>>

LEMMA WriteSame ==
  ASSUME JInv, pc # "idle", NEW obj, NEW step, NEW event, SameLife(obj, local),
         \/ Update(obj, event, step)
         \/ UpdateIfChanged(obj, step)
         \/ Continue(step, obj) /\ UNCHANGED nabVars
  PROVE  NABsSame /\ cache' = cache /\ (WorkerOK' \/ Advances(step, obj))
<1>1. cur \in Names /\ (localFresh => local = nab[cur])
  BY DEF JInv, IInv, CopiesOK
<1>2. ASSUME Continue(step, obj) PROVE WorkerOK' \/ Advances(step, obj)
  BY <1>2, ReturnOK DEF Continue, Exit, Advances
<1>3. ASSUME NEW e, localFresh, Changed(cur, obj, e) PROVE NABsSame /\ cache' = cache
  BY <1>1, <1>3 DEF Changed, NABsSame, SameLife, JInv, IInv, TypeOK
<1>4. ASSUME UNCHANGED nabVars PROVE NABsSame /\ cache' = cache
  BY <1>4 DEF nabVars, NABsSame, SameLife
<1>5. ASSUME NEW e, Update(obj, e, step)
      PROVE  NABsSame /\ cache' = cache /\ (WorkerOK' \/ Advances(step, obj))
  BY <1>2, <1>3, <1>4, <1>5, ReturnOK DEF Update, Requeue
<1>6. QED
  BY <1>2, <1>4, <1>5 DEF UpdateIfChanged

\* The steps a write or a read that changes no life leads to.
LEMMA AdvanceOK ==
  ASSUME JInv, NABsSame, cache' = cache, NEW obj, SameLife(obj, local),
         NEW step, Advances(step, obj),
         \/ step \in {"callDelete", "syncStatus"}
         \/ step \in {"deleteRestores", "requestDeletion", "deleteRequests", "deleteBackup"}
              /\ local.deletionTimestamp
         \/ step \in {"validate", "setUUID"} /\ pc \in {"init", "validate"}
  PROVE  WorkerOK'
<1>1. pc # "idle" => cur \in Names
  BY DEF JInv, IInv, CopiesOK
<1>2. localFresh => pc # "idle"
  BY DEF JInv, IInv, CopiesOK
<1>3. QED
  BY <1>1, <1>2 DEF JInv, WorkerOK, NABsSame, SameLife, Advances, Truthful

LEMMA SameEdits ==
  ASSUME NEW obj \in NABs
  PROVE  /\ SameLife([obj EXCEPT !.phase = "Deleting", !.deleting = "accepted"], obj)
         /\ SameLife([obj EXCEPT !.phase = "Deleting", !.deleting = "direct"], obj)
         /\ SameLife([obj EXCEPT !.phase = "BackingOff", !.accepted = "False"], obj)
         /\ SameLife([obj EXCEPT !.phase = "New"], obj)
         /\ SameLife([obj EXCEPT !.accepted = "True"], obj)
         /\ \A status : SameLife([obj EXCEPT !.dbrStatus = status], obj)
         /\ SameLife([obj EXCEPT !.valid = ~@], obj)
         /\ SameLife([obj EXCEPT !.deleteBackup = ~@], obj)
         /\ \A seen :
              SameLife([obj EXCEPT !.phase = "Created", !.queued = TRUE, !.mirror = seen], obj)
         /\ SameLife(obj, obj)
BY DEF NABs, SameLife

\* A step that changes no life, no Velero Backup and no owner.
Quiet == NABsSame /\ CacheFollows /\ UNCHANGED <<owner, vb, vbSeen>>

LEMMA QuietWorker ==
  ASSUME JInv, MarkDelete \/ MarkDirect \/ DeleteRestores \/ DeleteRequests
               \/ InitCreate \/ ValidateSpec \/ SyncStatus
  PROVE  Quiet /\ WorkerOK'
<1>1. local \in NABs
  BY DEF JInv, IInv, TypeOK
<1>2. UNCHANGED <<owner, vb, vbSeen>>
  BY DEF MarkDelete, MarkDirect, DeleteRestores, DeleteRequests, InitCreate, ValidateSpec,
         SyncStatus, veleroVars, SetRequests
<1>3. CASE MarkDelete
  <2>. DEFINE obj == [local EXCEPT !.phase = "Deleting", !.deleting = "accepted"]
              step == IF local.deletionTimestamp THEN "deleteRestores" ELSE "callDelete"
  <2>1. pc = "markDelete" /\ UpdateIfChanged(obj, step) /\ SameLife(obj, local)
    BY <1>1, <1>3, SameEdits DEF MarkDelete
  <2>2. step = "callDelete" \/ (step = "deleteRestores" /\ local.deletionTimestamp)
    <3>1. CASE local.deletionTimestamp
      BY <3>1
    <3>2. CASE ~local.deletionTimestamp
      BY <3>2
    <3>3. QED
      BY <3>1, <3>2
  <2>. HIDE DEF obj, step
  <2>3. NABsSame /\ cache' = cache /\ (WorkerOK' \/ Advances(step, obj))
    BY <2>1, WriteSame
  <2>4. QED
    BY <1>2, <2>1, <2>2, <2>3, AdvanceOK DEF Quiet, CacheFollows
<1>4. CASE MarkDirect
  <2>. DEFINE obj == [local EXCEPT !.phase = "Deleting", !.deleting = "direct"]
  <2>1. /\ pc = "markDirect" /\ local.deletionTimestamp
        /\ UpdateIfChanged(obj, "deleteRequests") /\ SameLife(obj, local)
    BY <1>1, <1>4, SameEdits DEF MarkDirect, JInv, WorkerOK
  <2>. HIDE DEF obj
  <2>2. NABsSame /\ cache' = cache /\ (WorkerOK' \/ Advances("deleteRequests", obj))
    BY <2>1, WriteSame
  <2>3. QED
    BY <1>2, <2>1, <2>2, AdvanceOK DEF Quiet, CacheFollows
<1>5. CASE DeleteRestores \/ DeleteRequests
  <2>1. /\ local.deletionTimestamp /\ UNCHANGED nabVars /\ pc # "idle"
        /\ \/ Requeue
           \/ \E step \in {"requestDeletion", "deleteBackup"} : Continue(step, local)
    BY <1>5 DEF DeleteRestores, DeleteRequests, JInv, WorkerOK
  <2>2. NABsSame /\ cache' = cache
    BY <2>1 DEF nabVars, NABsSame, SameLife
  <2>3. ASSUME NEW step \in {"requestDeletion", "deleteBackup"}, Continue(step, local)
        PROVE  WorkerOK'
    BY <1>1, <2>1, <2>2, <2>3, WriteSame, AdvanceOK, SameEdits
  <2>4. QED
    BY <1>2, <2>1, <2>2, <2>3, ReturnOK DEF Quiet, CacheFollows, Requeue
<1>6. CASE InitCreate
  <2>. DEFINE obj == [local EXCEPT !.phase = "New"]
  <2>1. pc = "init" /\ SameLife(obj, local) /\ SameLife(local, local)
    BY <1>1, <1>6, SameEdits DEF InitCreate
  <2>2. (Continue("validate", local) /\ UNCHANGED nabVars) \/ Update(obj, FALSE, "validate")
    BY <1>6 DEF InitCreate
  <2>. HIDE DEF obj
  <2>3. /\ NABsSame /\ cache' = cache
        /\ WorkerOK' \/ Advances("validate", obj) \/ Advances("validate", local)
    BY <2>1, <2>2, WriteSame
  <2>4. QED
    BY <1>2, <2>1, <2>3, AdvanceOK DEF Quiet, CacheFollows
<1>7. CASE ValidateSpec
  <2>. DEFINE acc == [local EXCEPT !.accepted = "True"]
              off == [local EXCEPT !.phase = "BackingOff", !.accepted = "False"]
  <2>1. pc = "validate" /\ SameLife(acc, local) /\ SameLife(off, local)
    BY <1>1, <1>7, SameEdits DEF ValidateSpec
  <2>2. UpdateIfChanged(acc, "setUUID") \/ UpdateIfChanged(off, "idle")
    BY <1>7 DEF ValidateSpec
  <2>. HIDE DEF acc, off
  <2>3. /\ NABsSame /\ cache' = cache
        /\ WorkerOK' \/ Advances("setUUID", acc) \/ Advances("idle", off)
    BY <2>1, <2>2, WriteSame
  <2>4. UpdateIfChanged(off, "idle") => WorkerOK'
    BY ReturnOK DEF UpdateIfChanged, Update, Continue, Exit, Requeue
  <2>5. CASE UpdateIfChanged(acc, "setUUID")
    BY <1>2, <2>1, <2>5, WriteSame, AdvanceOK DEF Quiet, CacheFollows
  <2>6. QED
    BY <1>2, <2>2, <2>3, <2>4, <2>5 DEF Quiet, CacheFollows
<1>8. CASE SyncStatus
  <2>. DEFINE obj == [local EXCEPT !.phase = "Created", !.queued = TRUE, !.mirror = vbRead]
  <2>1. pc = "syncStatus" /\ SameLife(obj, local) /\ Update(obj, FALSE, "idle")
    BY <1>1, <1>8, SameEdits DEF SyncStatus
  <2>2. WorkerOK'
    BY <2>1, ReturnOK DEF Update, Continue, Exit, Requeue
  <2>. HIDE DEF obj
  <2>3. NABsSame /\ cache' = cache
    BY <2>1, WriteSame
  <2>4. QED
    BY <1>2, <2>2, <2>3 DEF Quiet, CacheFollows
<1>9. QED
  BY <1>3, <1>4, <1>5, <1>6, <1>7, <1>8

-----------------------------------------------------------------------------
(***************************************************************************)
(* Steps that change a life.  Each is an action of BackupLifecycle.        *)
(***************************************************************************)
LEMMA SetFinalizerOK ==
  ASSUME JInv, SetFinalizer
  PROVE  /\ HeldKept /\ CacheFollows /\ WorkerOK' /\ NABsOK' /\ UNCHANGED <<owner, vb, vbSeen>>
         /\ NABsSame \/ Lifecycle!Hold(cur)
<1>1. /\ cur \in Names /\ local \in NABs /\ nab \in [Names -> NABs]
      /\ localFresh => local = nab[cur]
  BY DEF SetFinalizer, JInv, IInv, TypeOK, CopiesOK
<1>2. UNCHANGED <<owner, vb, vbSeen>> /\ pc = "setFinalizer" /\ local.uuid # NoUUID
  BY DEF SetFinalizer, veleroVars, JInv, IInv, Stage
<1>. DEFINE obj == [local EXCEPT !.finalizer = TRUE]
<1>3. /\ obj.finalizer /\ obj.uuid = local.uuid /\ obj.exists = local.exists
      /\ obj.deletionTimestamp = local.deletionTimestamp /\ obj.syncLabel = local.syncLabel
      /\ obj = local => local.finalizer
  BY <1>1 DEF NABs
<1>4. UpdateIfChanged(obj, "createBackup")
  BY DEF SetFinalizer
<1>. HIDE DEF obj
<1>5. CASE obj = local
  <2>1. NABsSame /\ HeldKept /\ CacheFollows /\ NABsOK'
    BY <1>2, <1>4, <1>5, NABsSameOK, SameHeld
       DEF UpdateIfChanged, nabVars, NABsSame, SameLife, CacheFollows
  <2>2. WorkerOK'
    BY <1>2, <1>3, <1>4, <1>5 DEF UpdateIfChanged, Continue, nabVars, JInv, WorkerOK
  <2>3. QED
    BY <1>2, <2>1, <2>2
<1>6. CASE Requeue /\ UNCHANGED nabVars
  <2>1. NABsSame /\ HeldKept /\ CacheFollows /\ NABsOK'
    BY <1>2, <1>6, NABsSameOK, SameHeld DEF nabVars, NABsSame, SameLife, CacheFollows
  <2>2. QED
    BY <1>2, <1>6, <2>1, ReturnOK DEF Requeue
<1>7. CASE localFresh /\ Changed(cur, obj, FALSE) /\ Continue("createBackup", obj)
  <2>1. nab' = [nab EXCEPT ![cur] = obj] /\ cache' = cache
    BY <1>7 DEF Changed
  <2>2. local.exists /\ (local.deletionTimestamp => local.finalizer)
    BY <1>1, <1>7 DEF JInv, WorkerOK, NABsOK, NABOK
  <2>3. HeldKept /\ CacheFollows
    BY <1>1, <1>3, <1>7, <2>1 DEF HeldKept, CacheFollows
  <2>4. WorkerOK'
    BY <1>1, <1>2, <1>3, <1>7, <2>1 DEF Continue, JInv, WorkerOK
  <2>5. NABsOK'
    <3>1. \A n \in Names \ {cur} : nab'[n] = nab[n]
      BY <1>1, <2>1
    <3>2. nab'[cur] = obj
      BY <1>1, <2>1
    <3>3. QED
      <4>1. NABsOK /\ owner' = owner /\ cache' = cache
        BY <1>2, <2>1 DEF JInv
      <4>2. ASSUME NEW n \in Names, n # cur
            PROVE  NABOK(n)'
        BY <3>1, <4>1, <4>2 DEF NABsOK, NABOK, Truthful
      <4>3. ASSUME NEW n \in Names, n = cur
            PROVE  NABOK(n)'
        <5>1. nab'[n] = obj /\ local = nab[n] /\ NABOK(n)
          BY <1>1, <1>7, <3>2, <4>1, <4>3 DEF NABsOK
        <5>2. QED
          BY <1>3, <2>2, <4>1, <5>1 DEF NABOK, Truthful
      <4>4. QED
        BY <4>2, <4>3 DEF NABsOK
  <2>6. CASE local.finalizer
    <3>1. NABsSame
      BY <1>1, <1>3, <1>7, <2>1, <2>6 DEF NABsSame, SameLife
    <3>2. QED
      BY <1>2, <2>3, <2>4, <2>5, <3>1
  <2>7. CASE ~local.finalizer
    <3>1. Life(nab[cur]) = "open" /\ Life(obj) = "held"
      BY <1>1, <1>3, <1>7, <2>2, <2>7 DEF Life
    <3>2. \A n \in Names : nab'[n].uuid = nab[n].uuid
      BY <1>1, <1>3, <1>7, <2>1
    <3>3. Lifecycle!Hold(cur)
      BY <1>1, <1>2, <1>7, <2>1, <3>1, <3>2 DEF Lifecycle!Hold, Lifecycle!Moves
    <3>4. QED
      BY <1>2, <2>3, <2>4, <2>5, <3>3
  <2>8. QED
    BY <2>6, <2>7
<1>8. QED
  BY <1>4, <1>5, <1>6, <1>7 DEF UpdateIfChanged, Update

LEMMA OneNABOK ==
  ASSUME JInv, NEW n \in Names, NEW obj,
         nab' = [nab EXCEPT ![n] = obj], cache' = cache,
         \A u \in UUIDs : owner[u] \in Names => owner'[u] = owner[u],
         ~obj.exists => /\ ~obj.finalizer /\ ~obj.deletionTimestamp
                        /\ obj.uuid = NoUUID /\ obj.syncLabel = NoUUID,
         obj.deletionTimestamp => obj.finalizer,
         obj.uuid # NoUUID => owner'[obj.uuid] = n,
         obj.syncLabel # NoUUID => owner'[obj.syncLabel] = n,
         cache[n].finalizer /\ ~cache[n].deletionTimestamp
           => obj.finalizer /\ obj.uuid = cache[n].uuid
  PROVE  NABsOK'
<1>1. nab \in [Names -> NABs] /\ nab'[n] = obj
  BY DEF JInv, IInv, TypeOK
<1>2. ASSUME NEW m \in Names, m # n PROVE NABOK(m)'
  <2>1. nab'[m] = nab[m] /\ nab[m] \in NABs /\ NABOK(m)
    BY <1>1, <1>2 DEF JInv, NABsOK
  <2>2. nab[m].uuid \in UUIDs \union {NoUUID} /\ nab[m].syncLabel \in UUIDs \union {NoUUID}
    BY <2>1 DEF NABs
  <2>3. QED
    BY <2>1, <2>2 DEF NABOK, Truthful
<1>3. ASSUME NEW m \in Names, m = n PROVE NABOK(m)'
  BY <1>1, <1>3 DEF NABOK, Truthful
<1>4. QED
  BY <1>2, <1>3 DEF NABsOK

LEMMA NoNABLife ==
  /\ NoNAB.exists = FALSE /\ NoNAB.finalizer = FALSE /\ NoNAB.deletionTimestamp = FALSE
  /\ NoNAB.uuid = NoUUID /\ NoNAB.syncLabel = NoUUID /\ Life(NoNAB) = "none"
BY DEF NoNAB, NewNAB, Life

\* A Delete call, by the worker or a user.
LEMMA DeletedLife ==
  ASSUME JInv, NEW n \in Names, Changed(n, Deleted(nab[n]), TRUE), owner' = owner,
         UNCHANGED vb
  PROVE  /\ HeldKept /\ CacheFollows /\ NABsOK'
         /\ NABsSame \/ Lifecycle!Leave(n) \/ Lifecycle!Vanish(n)
<1>. DEFINE obj == Deleted(nab[n])
<1>1. /\ nab \in [Names -> NABs] /\ nab[n] \in NABs /\ NABOK(n)
      /\ nab' = [nab EXCEPT ![n] = obj] /\ cache' = cache
  BY DEF JInv, IInv, TypeOK, NABsOK, Changed
<1>2. \A m \in Names \ {n} : nab'[m] = nab[m]
  BY <1>1
<1>3. nab'[n] = obj
  BY <1>1
<1>4. CASE nab[n].finalizer
  <2>1. /\ obj.finalizer = nab[n].finalizer /\ obj.deletionTimestamp = TRUE
        /\ obj.exists = nab[n].exists
        /\ obj.uuid = nab[n].uuid /\ obj.syncLabel = nab[n].syncLabel
    BY <1>1, <1>4 DEF Deleted, NABs
  <2>. HIDE DEF obj
  <2>2. nab[n].exists
    BY <1>1, <1>4 DEF NABOK
  <2>3. NABsOK'
    <3>1. obj.exists /\ obj.finalizer
      BY <1>4, <2>1, <2>2
    <3>2. /\ obj.uuid # NoUUID => owner'[obj.uuid] = n
          /\ obj.syncLabel # NoUUID => owner'[obj.syncLabel] = n
          /\ cache[n].finalizer /\ ~cache[n].deletionTimestamp => obj.uuid = cache[n].uuid
      BY <1>1, <2>1 DEF NABOK, Truthful
    <3>3. QED
      BY <1>1, <3>1, <3>2, OneNABOK
  <2>4. HeldKept /\ CacheFollows
    BY <1>1, <1>2, <1>3, <2>1 DEF HeldKept, CacheFollows
  <2>5. CASE nab[n].deletionTimestamp
    <3>1. NABsSame
      <4>1. nab[n].deletionTimestamp = TRUE
        BY <1>1, <2>5 DEF NABs
      <4>2. QED
        BY <1>2, <1>3, <2>1, <4>1 DEF NABsSame, SameLife
    <3>2. QED
      BY <2>3, <2>4, <3>1
  <2>6. CASE ~nab[n].deletionTimestamp
    <3>1. Life(nab[n]) = "held" /\ Life(obj) = "leaving"
      BY <1>4, <2>1, <2>2, <2>6 DEF Life
    <3>2. \A m \in Names : nab'[m].uuid = nab[m].uuid
      BY <1>2, <1>3, <2>1
    <3>3. Lifecycle!Leave(n)
      BY <1>1, <3>1, <3>2 DEF Lifecycle!Leave, Lifecycle!Moves
    <3>4. QED
      BY <2>3, <2>4, <3>3
  <2>7. QED
    BY <2>5, <2>6
<1>5. CASE ~nab[n].finalizer
  <2>1. obj = NoNAB
    BY <1>5 DEF Deleted
  <2>. HIDE DEF obj
  <2>2. NABsOK'
    BY <1>1, <1>5, <2>1, NoNABLife, OneNABOK DEF NABOK, Truthful
  <2>3. HeldKept /\ CacheFollows
    BY <1>1, <1>2, <1>5 DEF HeldKept, CacheFollows
  <2>4. CASE nab[n].exists
    <3>1. Life(nab[n]) = "open" /\ Life(obj) = "none" /\ obj.uuid = NoUUID
      BY <1>5, <2>1, <2>4, NoNABLife DEF Life
    <3>2. Lifecycle!Vanish(n)
      BY <1>1, <3>1 DEF Lifecycle!Vanish, Lifecycle!Moves
    <3>3. QED
      BY <2>2, <2>3, <3>2
  <2>5. CASE ~nab[n].exists
    <3>1. NABsSame
      <4>1. /\ nab[n].exists = FALSE /\ nab[n].finalizer = FALSE
            /\ nab[n].deletionTimestamp = FALSE
            /\ nab[n].uuid = NoUUID /\ nab[n].syncLabel = NoUUID
        BY <1>1, <2>5 DEF NABOK, NABs
      <4>2. QED
        BY <1>2, <1>3, <2>1, <4>1, NoNABLife DEF NABsSame, SameLife
    <3>2. QED
      BY <2>2, <2>3, <3>1
  <2>6. QED
    BY <2>4, <2>5
<1>6. QED
  BY <1>4, <1>5

\* The NACUUID is given to a NAB that no copy takes for another.
LEMMA SetBackupUUIDOK ==
  ASSUME JInv, SetBackupUUID
  PROVE  /\ HeldKept /\ CacheFollows /\ WorkerOK' /\ NABsOK' /\ UNCHANGED <<vb, vbSeen>>
         /\ \A u \in UUIDs : owner[u] \in Names => owner'[u] = owner[u]
         /\ NABsSame \/ \E u \in UUIDs : Lifecycle!Identify(cur, u)
<1>1. /\ cur \in Names /\ nab \in [Names -> NABs] /\ cache[cur] \in NABs
      /\ owner \in [UUIDs -> Names \union {NoName}] /\ pc = "setUUID"
      /\ cacheFresh[cur] => cache[cur] = nab[cur]
      /\ Truthful(cur) /\ NABOK(cur)
  BY DEF SetBackupUUID, JInv, IInv, TypeOK, CopiesOK, WorkerOK, NABsOK
<1>2. UNCHANGED <<vb, vbSeen>>
  BY DEF SetBackupUUID, veleroVars
<1>3. CASE UNCHANGED <<nabVars, owner>> /\ Requeue
  <2>1. NABsSame /\ CacheFollows /\ WorkerOK'
    BY <1>3, ReturnOK DEF nabVars, NABsSame, SameLife, CacheFollows, Requeue
  <2>2. QED
    BY <1>2, <1>3, <2>1, NABsSameOK, SameHeld
<1>4. CASE /\ UNCHANGED <<nabVars, owner>> /\ cache[cur].exists /\ cur' = cur
           /\ pc' = "setFinalizer" /\ local' = cache[cur] /\ localFresh' = cacheFresh[cur]
  <2>1. NABsSame /\ CacheFollows
    BY <1>4 DEF nabVars, NABsSame, SameLife, CacheFollows
  <2>2. WorkerOK'
    BY <1>1, <1>4 DEF WorkerOK, Truthful, nabVars
  <2>3. QED
    BY <1>2, <1>4, <2>1, <2>2, NABsSameOK, SameHeld
<1>5. ASSUME NEW u \in UUIDs, cache[cur].exists, cache[cur].uuid = NoUUID, cacheFresh[cur],
             (cache[cur].syncLabel # NoUUID /\ u = cache[cur].syncLabel) \/ owner[u] = NoName,
             Changed(cur, [cache[cur] EXCEPT !.uuid = u], FALSE),
             owner' = [owner EXCEPT ![u] = cur],
             local' = [cache[cur] EXCEPT !.uuid = u],
             pc' = "setFinalizer", localFresh' = TRUE, cur' = cur
      PROVE  /\ HeldKept /\ CacheFollows /\ WorkerOK' /\ NABsOK'
             /\ \A v \in UUIDs : owner[v] \in Names => owner'[v] = owner[v]
             /\ Lifecycle!Identify(cur, u)
  <2>. DEFINE obj == [cache[cur] EXCEPT !.uuid = u]
  <2>1. /\ cache[cur] = nab[cur] /\ nab[cur] \in NABs /\ u # NoUUID
        /\ Guarded(nab[cur])
    BY <1>1, <1>5, NamesAssumption DEF JInv, IInv, StoredOK
  <2>2. ~nab[cur].finalizer /\ ~nab[cur].deletionTimestamp /\ nab[cur].exists
    BY <1>1, <1>5, <2>1 DEF Guarded, NABOK
  <2>3. /\ obj.uuid = u /\ obj.exists = nab[cur].exists /\ obj.finalizer = nab[cur].finalizer
        /\ obj.deletionTimestamp = nab[cur].deletionTimestamp
        /\ obj.syncLabel = nab[cur].syncLabel
    BY <2>1 DEF NABs
  <2>4. nab' = [nab EXCEPT ![cur] = obj] /\ cache' = cache /\ local' = obj
    BY <1>5 DEF Changed
  <2>. HIDE DEF obj
  <2>5. \A v \in UUIDs : owner[v] \in Names => owner'[v] = owner[v]
    BY <1>1, <1>5, <2>1, NamesAssumption DEF NABOK
  <2>6. owner'[u] = cur /\ (obj.syncLabel # NoUUID => owner'[obj.syncLabel] = cur)
    <3>1. nab[cur].syncLabel \in UUIDs \union {NoUUID}
      BY <2>1 DEF NABs
    <3>2. QED
      BY <1>1, <1>5, <2>1, <2>3, <2>5, <3>1 DEF NABOK
  <2>7. NABsOK'
    BY <1>1, <2>1, <2>2, <2>3, <2>4, <2>5, <2>6, OneNABOK
  <2>8. HeldKept /\ CacheFollows
    BY <1>1, <2>2, <2>4 DEF HeldKept, CacheFollows
  <2>9. WorkerOK'
    BY <1>1, <1>5, <2>1, <2>2, <2>3, <2>4 DEF WorkerOK
  <2>10. Lifecycle!Identify(cur, u)
    <3>1. \A m \in Names : nab[m].uuid # u
      BY <1>1, <1>5, <2>1, NamesAssumption DEF JInv, NABsOK, NABOK
    <3>2. Life(nab[cur]) = "open" /\ Life(obj) = "open" /\ nab[cur].uuid = NoUUID
      BY <1>5, <2>1, <2>2, <2>3 DEF Life
    <3>3. [n \in Names |-> Life(nab'[n])] = [n \in Names |-> Life(nab[n])]
      BY <1>1, <2>4, <3>2
    <3>4. [n \in Names |-> nab'[n].uuid] = [[n \in Names |-> nab[n].uuid] EXCEPT ![cur] = u]
      BY <1>1, <2>3, <2>4
    <3>5. QED
      BY <1>1, <1>2, <3>1, <3>2, <3>3, <3>4 DEF Lifecycle!Identify
  <2>11. QED
    BY <2>5, <2>7, <2>8, <2>9, <2>10
<1>6. PICK u : \/ UNCHANGED <<nabVars, owner>> /\ Requeue
               \/ /\ UNCHANGED <<nabVars, owner>> /\ cache[cur].exists /\ cur' = cur
                  /\ pc' = "setFinalizer" /\ local' = cache[cur]
                  /\ localFresh' = cacheFresh[cur]
               \/ /\ cache[cur].exists /\ cache[cur].uuid = NoUUID /\ cacheFresh[cur]
                  /\ \/ cache[cur].syncLabel # NoUUID /\ u = cache[cur].syncLabel
                     \/ u \in UUIDs /\ owner[u] = NoName
                  /\ Changed(cur, [cache[cur] EXCEPT !.uuid = u], FALSE)
                  /\ owner' = [owner EXCEPT ![u] = cur]
                  /\ local' = [cache[cur] EXCEPT !.uuid = u]
                  /\ pc' = "setFinalizer" /\ localFresh' = TRUE /\ cur' = cur
  BY DEF SetBackupUUID
<1>7. cache[cur].syncLabel \in UUIDs \union {NoUUID}
  BY <1>1 DEF NABs
<1>8. QED
  BY <1>2, <1>3, <1>4, <1>5, <1>6, <1>7

LEMMA CallDeleteOK ==
  ASSUME JInv, CallDelete
  PROVE  /\ HeldKept /\ CacheFollows /\ WorkerOK' /\ NABsOK' /\ UNCHANGED <<owner, vb, vbSeen>>
         /\ NABsSame \/ \E n \in Names : Lifecycle!Leave(n) \/ Lifecycle!Vanish(n)
<1>1. cur \in Names /\ UNCHANGED <<owner, vb, vbSeen>> /\ WorkerOK'
  BY ReturnOK DEF CallDelete, JInv, IInv, CopiesOK, veleroVars, Requeue
<1>2. CASE UNCHANGED nabVars
  <2>1. NABsSame /\ CacheFollows
    BY <1>2 DEF nabVars, NABsSame, SameLife, CacheFollows
  <2>2. QED
    BY <1>1, <2>1, NABsSameOK, SameHeld
<1>3. ASSUME NEW n \in Names, n = cur, Changed(n, Deleted(nab[n]), TRUE)
      PROVE  /\ HeldKept /\ CacheFollows /\ NABsOK'
             /\ NABsSame \/ Lifecycle!Leave(n) \/ Lifecycle!Vanish(n)
  <2>1. owner' = owner /\ vb' = vb
    BY <1>1
  <2>2. QED
    BY <1>3, <2>1, DeletedLife
<1>4. UNCHANGED nabVars \/ \E n \in Names : n = cur /\ Changed(n, Deleted(nab[n]), TRUE)
  BY <1>1 DEF CallDelete
<1>5. QED
  BY <1>1, <1>2, <1>3, <1>4

\* The finalizer goes, with the NAB, when the backup is seen to be gone.
LEMMA RemoveFinalizerOK ==
  ASSUME JInv, pc \in {"requestDeletion", "deleteBackup"}, RemoveFinalizer,
         local.uuid \in UUIDs, vbSeen[local.uuid] = "absent", owner' = owner
  PROVE  /\ CacheFollows /\ WorkerOK' /\ NABsOK' /\ BackupsOK' /\ UNCHANGED <<vb, vbSeen>>
         /\ NABsSame \/ Lifecycle!Vanish(cur)
<1>1. /\ cur \in Names /\ nab \in [Names -> NABs] /\ local.deletionTimestamp
      /\ localFresh => local = nab[cur] /\ cache[cur].deletionTimestamp
  BY DEF JInv, IInv, TypeOK, CopiesOK, WorkerOK
<1>2. WithoutFinalizer(local) = NoNAB
  BY <1>1 DEF WithoutFinalizer
<1>3. UNCHANGED <<vb, vbSeen>> /\ Update(NoNAB, TRUE, "idle")
  BY <1>2 DEF RemoveFinalizer, veleroVars
<1>4. WorkerOK'
  BY <1>3, ReturnOK DEF Update, Continue, Exit, Requeue
<1>5. CASE UNCHANGED nabVars
  <2>1. NABsSame /\ CacheFollows
    BY <1>5 DEF nabVars, NABsSame, SameLife, CacheFollows
  <2>2. NABsOK' /\ BackupsOK'
    BY <1>3, <2>1, NABsSameOK, SameHeld, BackupsKept DEF JInv, BackupsOK
  <2>3. QED
    BY <1>3, <1>4, <2>1, <2>2
<1>6. CASE localFresh /\ Changed(cur, NoNAB, TRUE)
  <2>1. nab' = [nab EXCEPT ![cur] = NoNAB] /\ cache' = cache
    BY <1>6 DEF Changed
  <2>2. NABsOK' /\ CacheFollows
    BY <1>1, <1>6, <2>1, NoNABLife, OneNABOK DEF CacheFollows
  <2>3. vb[local.uuid] = "absent" /\ local = nab[cur]
    BY <1>1, <1>6 DEF JInv, BackupsOK
  <2>4. BackupsOK'
    BY <1>1, <1>3, <2>1, <2>3 DEF JInv, BackupsOK, BackupHasNAB
  <2>5. Life(nab[cur]) = "leaving"
    BY <1>1, <2>3 DEF JInv, NABsOK, NABOK, Life
  <2>6. Lifecycle!Vanish(cur)
    <3>1. Life(NoNAB) = "none" /\ NoNAB.uuid = NoUUID
      BY NoNABLife
    <3>2. nab[cur].uuid \notin {u \in UUIDs : vb[u] = "New"}
      BY <2>3
    <3>3. /\ [n \in Names |-> Life(nab'[n])]
               = [[n \in Names |-> Life(nab[n])] EXCEPT ![cur] = "none"]
          /\ [n \in Names |-> nab'[n].uuid]
               = [[n \in Names |-> nab[n].uuid] EXCEPT ![cur] = NoUUID]
      BY <1>1, <2>1, <3>1
    <3>4. QED
      BY <1>1, <1>3, <2>5, <3>2, <3>3 DEF Lifecycle!Vanish, Lifecycle!Moves
  <2>7. QED
    BY <1>3, <1>4, <2>2, <2>4, <2>6
<1>7. QED
  BY <1>3, <1>5, <1>6 DEF Update

LEMMA RequestDeletionOK ==
  ASSUME JInv, RequestDeletion
  PROVE  /\ CacheFollows /\ WorkerOK' /\ NABsOK' /\ BackupsOK' /\ UNCHANGED <<owner, vb, vbSeen>>
         /\ NABsSame \/ Lifecycle!Vanish(cur)
<1>1. /\ pc = "requestDeletion" /\ local \in NABs /\ UNCHANGED owner
  BY DEF RequestDeletion, JInv, IInv, TypeOK
<1>2. local.uuid \in UUIDs \union {NoUUID}
  BY <1>1 DEF NABs
<1>3. CASE RemoveFinalizer /\ local.uuid # NoUUID /\ vbSeen[local.uuid] = "absent"
  BY <1>1, <1>2, <1>3, RemoveFinalizerOK
<1>4. ASSUME UNCHANGED <<vb, vbSeen>>, NABsSame, cache' = cache, WorkerOK'
      PROVE  /\ CacheFollows /\ WorkerOK' /\ NABsOK' /\ BackupsOK'
             /\ UNCHANGED <<owner, vb, vbSeen>> /\ NABsSame
  <2>1. CacheFollows
    BY <1>4 DEF CacheFollows
  <2>2. NABsOK' /\ BackupsOK'
    BY <1>1, <1>4, <2>1, NABsSameOK, SameHeld, BackupsKept DEF JInv, BackupsOK
  <2>3. QED
    BY <1>1, <1>4, <2>1, <2>2
<1>5. CASE (Exit \/ Requeue) /\ UNCHANGED <<nabVars, vb, vbSeen>>
  <2>1. NABsSame /\ cache' = cache /\ UNCHANGED <<vb, vbSeen>> /\ WorkerOK'
    BY <1>5, ReturnOK DEF nabVars, NABsSame, SameLife, Exit, Requeue
  <2>2. QED
    BY <1>4, <2>1
<1>6. ASSUME NEW status, SyncRequest(status), UNCHANGED <<vb, vbSeen>>
      PROVE  NABsSame /\ cache' = cache /\ WorkerOK' /\ UNCHANGED <<vb, vbSeen>>
  <2>. DEFINE obj == [local EXCEPT !.dbrStatus = status]
  <2>1. SameLife(obj, local) /\ UpdateIfChanged(obj, "idle")
    BY <1>1, <1>6, SameEdits DEF SyncRequest
  <2>. HIDE DEF obj
  <2>2. WorkerOK'
    BY <2>1, ReturnOK DEF UpdateIfChanged, Update, Continue, Exit, Requeue
  <2>3. QED
    BY <1>1, <1>6, <2>1, <2>2, WriteSame
<1>7. \/ RemoveFinalizer /\ local.uuid # NoUUID /\ vbSeen[local.uuid] = "absent"
      \/ (Exit \/ Requeue) /\ UNCHANGED <<nabVars, vb, vbSeen>>
      \/ UNCHANGED <<vb, vbSeen>> /\ \E status : SyncRequest(status)
  BY DEF RequestDeletion, veleroVars
<1>8. QED
  BY <1>3, <1>4, <1>5, <1>6, <1>7

LEMMA DeleteBackupOK ==
  ASSUME JInv, DeleteBackup, ~OthersLag
  PROVE  /\ CacheFollows /\ WorkerOK' /\ NABsOK' /\ BackupsOK' /\ UNCHANGED owner
         /\ \/ UNCHANGED vb /\ (NABsSame \/ Lifecycle!Vanish(cur))
            \/ NABsSame /\ \E u \in UUIDs : vb' = [vb EXCEPT ![u] = "absent"]
<1>1. /\ pc = "deleteBackup" /\ local \in NABs /\ UNCHANGED owner
      /\ vb \in [UUIDs -> VBStates] /\ vbSeen = vb
  BY DEF DeleteBackup, JInv, IInv, TypeOK, BackupsOK
<1>2. local.uuid \in UUIDs \union {NoUUID}
  BY <1>1 DEF NABs
<1>3. CASE RemoveFinalizer /\ local.uuid # NoUUID /\ vbSeen[local.uuid] = "absent"
  BY <1>1, <1>2, <1>3, RemoveFinalizerOK
<1>4. ASSUME UNCHANGED nabVars, Exit \/ Requeue \/ Return(queue \union Notified(local.uuid)),
             \/ UNCHANGED <<vb, vbSeen>>
             \/ local.uuid # NoUUID /\ SetBackup(local.uuid, "absent", TRUE)
      PROVE  /\ CacheFollows /\ WorkerOK' /\ NABsOK' /\ BackupsOK' /\ NABsSame
             /\ UNCHANGED vb \/ \E u \in UUIDs : vb' = [vb EXCEPT ![u] = "absent"]
  <2>1. NABsSame /\ CacheFollows /\ WorkerOK'
    BY <1>4, ReturnOK DEF nabVars, NABsSame, SameLife, CacheFollows, Exit, Requeue
  <2>2. /\ vbSeen' = vb' /\ \A u \in UUIDs : vb'[u] = "New" => vb[u] = "New"
        /\ UNCHANGED vb \/ \E u \in UUIDs : vb' = [vb EXCEPT ![u] = "absent"]
    BY <1>1, <1>2, <1>4 DEF SetBackup
  <2>3. NABsOK' /\ BackupsOK'
    BY <1>1, <2>1, <2>2, NABsSameOK, SameHeld, BackupsKept
  <2>4. QED
    BY <2>1, <2>2, <2>3
<1>5. QED
  BY <1>1, <1>3, <1>4 DEF DeleteBackup, veleroVars

\* The worker creates a backup only for a NAB that is held, however old its copy.
LEMMA CreateBackupOK ==
  ASSUME JInv, CreateBackup, ~OthersLag
  PROVE  /\ CacheFollows /\ WorkerOK' /\ NABsOK' /\ BackupsOK' /\ UNCHANGED owner
         /\ NABsSame
         /\ UNCHANGED vb \/ Lifecycle!Run(cur)
<1>1. /\ pc = "createBackup" /\ local \in NABs /\ cur \in Names /\ UNCHANGED owner
      /\ vb \in [UUIDs -> VBStates] /\ vbSeen = vb /\ local.uuid # NoUUID
      /\ nab[cur].finalizer /\ nab[cur].uuid = local.uuid
  BY DEF CreateBackup, JInv, IInv, TypeOK, BackupsOK, CopiesOK, Stage, WorkerOK
<1>2. local.uuid \in UUIDs
  BY <1>1 DEF NABs
<1>3. CASE /\ UNCHANGED <<nabVars, vb, vbSeen>>
           /\ Requeue \/ (pc' = "syncStatus" /\ UNCHANGED <<cur, local, localFresh>>)
  <2>1. NABsSame /\ CacheFollows /\ cache' = cache
    BY <1>3 DEF nabVars, NABsSame, SameLife, CacheFollows
  <2>2. WorkerOK'
    BY <1>1, <1>3, <2>1, ReturnOK DEF Requeue, JInv, WorkerOK
  <2>3. NABsOK' /\ BackupsOK'
    BY <1>1, <1>3, <2>1, NABsSameOK, SameHeld, BackupsKept
  <2>4. QED
    BY <1>1, <1>3, <2>1, <2>2, <2>3
<1>4. CASE /\ UNCHANGED <<vb, vbSeen>>
           /\ UpdateIfChanged([local EXCEPT !.phase = "BackingOff", !.accepted = "False"], "idle")
  <2>. DEFINE obj == [local EXCEPT !.phase = "BackingOff", !.accepted = "False"]
  <2>1. SameLife(obj, local) /\ UpdateIfChanged(obj, "idle")
    BY <1>1, <1>4, SameEdits
  <2>. HIDE DEF obj
  <2>2. WorkerOK'
    BY <2>1, ReturnOK DEF UpdateIfChanged, Update, Continue, Exit, Requeue
  <2>3. NABsSame /\ CacheFollows
    BY <1>1, <2>1, WriteSame DEF CacheFollows
  <2>4. NABsOK' /\ BackupsOK'
    BY <1>1, <1>4, <2>3, NABsSameOK, SameHeld, BackupsKept
  <2>5. QED
    BY <1>1, <1>4, <2>2, <2>3, <2>4
<1>5. CASE /\ vb[local.uuid] = "absent" /\ SetBackup(local.uuid, "New", FALSE)
           /\ pc' = "syncStatus" /\ UNCHANGED <<nabVars, cur, local, localFresh>>
  <2>1. NABsSame /\ CacheFollows /\ cache' = cache
    BY <1>5 DEF nabVars, NABsSame, SameLife, CacheFollows
  <2>2. WorkerOK'
    BY <1>1, <1>5, <2>1 DEF JInv, WorkerOK
  <2>3. NABsOK'
    BY <1>1, <2>1, NABsSameOK
  <2>4. vb' = [vb EXCEPT ![local.uuid] = "New"] /\ vbSeen' = vb' /\ nab' = nab
    BY <1>1, <1>5 DEF SetBackup, nabVars
  <2>5. owner[local.uuid] = cur
    BY <1>1 DEF JInv, NABsOK, NABOK
  <2>6. BackupsOK'
    BY <1>1, <1>2, <2>4, <2>5 DEF JInv, BackupsOK, BackupHasNAB
  <2>7. Life(nab[cur]) \in {"held", "leaving"}
    BY <1>1 DEF JInv, NABsOK, NABOK, Life
  <2>8. {u \in UUIDs : vb'[u] = "New"} = {u \in UUIDs : vb[u] = "New"} \union {nab[cur].uuid}
    BY <1>1, <1>2, <2>4
  <2>9. Lifecycle!Run(cur)
    BY <1>1, <2>4, <2>7, <2>8 DEF Lifecycle!Run
  <2>10. QED
    BY <1>1, <2>1, <2>2, <2>3, <2>6, <2>9
<1>6. QED
  BY <1>3, <1>4, <1>5 DEF CreateBackup, veleroVars

-----------------------------------------------------------------------------
(***************************************************************************)
(* The steps of the others.                                                *)
(***************************************************************************)
LEMMA ReconcileOK ==
  ASSUME JInv, NEW n \in Names, Reconcile(n) PROVE Quiet /\ WorkerOK'
<1>1. UNCHANGED <<nabVars, owner, vb, vbSeen>>
  BY DEF Reconcile, veleroVars
<1>2. Quiet
  BY <1>1 DEF Quiet, nabVars, NABsSame, SameLife, CacheFollows
<1>3. /\ cache[n].deletionTimestamp \in BOOLEAN /\ NABOK(n)
      /\ pc = "idle" /\ ~localFresh
  BY DEF JInv, IInv, TypeOK, NABsOK, NABs, Reconcile, CopiesOK
<1>4. CASE /\ cache[n].exists /\ pc' = Path(cache[n]) /\ cur' = n
           /\ local' = cache[n] /\ localFresh' = cacheFresh[n]
  <2>1. /\ Path(cache[n]) \in {"markDelete", "markDirect", "setUUID", "init"}
        /\ Path(cache[n]) = "markDirect" => cache[n].deletionTimestamp
        /\ Path(cache[n]) \in {"setUUID", "init"} => ~cache[n].deletionTimestamp
    BY <1>3 DEF Path
  <2>2. QED
    BY <1>1, <1>3, <1>4, <2>1 DEF WorkerOK, NABOK, Truthful, nabVars, Quiet, NABsSame,
                                  SameLife, CacheFollows
<1>5. CASE UNCHANGED <<pc, cur, local, localFresh>>
  BY <1>1, <1>2, <1>3, <1>5 DEF JInv, WorkerOK
<1>6. QED
  BY <1>2, <1>4, <1>5 DEF Reconcile

\* Failures, and the informers.
LEMMA QuietOthers ==
  ASSUME JInv, IInv',
         \/ CallFails \/ Restart
         \/ \E n \in Names : DeliverNAB(n) \/ RestoreGone(n)
         \/ \E u \in UUIDs : DeliverBackup(u) \/ DeliverRequests(u) \/ OtherEvent(u)
                             \/ ExpireRequest(u)
         \/ UNCHANGED vars
  PROVE  NABsSame /\ CacheFollows /\ WorkerOK' /\ UNCHANGED <<owner, vb>> /\ vbSeen' = vb
<1>1. vbSeen = vb
  BY DEF JInv, BackupsOK
<1>2. CASE CallFails \/ Restart
  <2>1. NABsSame /\ CacheFollows
    BY <1>2 DEF CallFails, Restart, nabVars, NABsSame, SameLife, CacheFollows
  <2>2. WorkerOK' /\ UNCHANGED <<owner, vb>> /\ vbSeen' = vb
    BY <1>1, <1>2, ReturnOK DEF CallFails, Restart, Requeue, veleroVars
  <2>3. QED
    BY <2>1, <2>2
<1>3. ASSUME NEW n \in Names, DeliverNAB(n)
      PROVE  NABsSame /\ CacheFollows /\ WorkerOK' /\ UNCHANGED <<owner, vb>> /\ vbSeen' = vb
  <2>1. /\ NABsSame /\ CacheFollows /\ UNCHANGED <<owner, vb, vbSeen, pc, cur, local, localFresh>>
    BY <1>3 DEF DeliverNAB, veleroVars, NABsSame, SameLife, CacheFollows, JInv, IInv, TypeOK
  <2>2. QED
    BY <1>1, <2>1, SameHeld, BystanderOK
<1>4. CASE \/ \E n \in Names : RestoreGone(n)
           \/ \E u \in UUIDs : DeliverBackup(u) \/ DeliverRequests(u) \/ OtherEvent(u)
                               \/ ExpireRequest(u)
           \/ UNCHANGED vars
  <2>1. /\ UNCHANGED <<nabVars, owner, vb, pc, cur, local, localFresh>>
        /\ vbSeen' = vb
    BY <1>1, <1>4 DEF RestoreGone, DeliverBackup, DeliverRequests, OtherEvent, ExpireRequest,
                      SetRequests, vars, nabVars, veleroVars, workerVars, JInv, IInv, TypeOK
  <2>2. NABsSame /\ CacheFollows
    BY <2>1 DEF nabVars, NABsSame, SameLife, CacheFollows
  <2>3. QED
    BY <2>1, <2>2, SameHeld, BystanderOK
<1>5. QED
  BY <1>2, <1>3, <1>4

\* Velero and the collector: no NAB changes, a backup ends or is what it was.
LEMMA VeleroOK ==
  ASSUME JInv, IInv', ~OthersLag, NEW u \in UUIDs,
         \/ CompleteBackup(u) \/ ProcessRequest(u) \/ ExpireBackup(u)
         \/ RejectRequest(u) \/ ResyncBackup(u) \/ CollectBackup(u)
  PROVE  /\ NABsSame /\ CacheFollows /\ WorkerOK' /\ UNCHANGED owner /\ vbSeen' = vb'
         /\ \E state \in VBStates \ {"New"} :
              vb' = [vb EXCEPT ![u] = state] \/ UNCHANGED vb
<1>1. vbSeen = vb /\ vb \in [UUIDs -> VBStates]
  BY DEF JInv, BackupsOK, IInv, TypeOK
<1>2. PICK state, event :
        /\ VeleroSets(u, state, event)
        /\ state \in {"Completed", "absent"} \/ state = vb[u]
  BY DEF CompleteBackup, ProcessRequest, ExpireBackup, Purge, RejectRequest, ResyncBackup,
         CollectBackup
<1>3. /\ UNCHANGED <<nabVars, owner, pc, cur, local, localFresh>>
      /\ vb' = [vb EXCEPT ![u] = state] /\ vbSeen' = [vbSeen EXCEPT ![u] = state]
  BY <1>2 DEF VeleroSets, SetBackup
<1>4. NABsSame /\ CacheFollows
  BY <1>3 DEF nabVars, NABsSame, SameLife, CacheFollows
<1>5. \E t \in VBStates \ {"New"} : vb' = [vb EXCEPT ![u] = t] \/ UNCHANGED vb
  <2>1. CASE state \in {"Completed", "absent"}
    BY <1>3, <2>1 DEF VBStates
  <2>2. CASE state = vb[u]
    BY <1>1, <1>3, <2>2 DEF VBStates
  <2>3. QED
    BY <1>2, <2>1, <2>2
<1>6. QED
  BY <1>1, <1>3, <1>4, <1>5, SameHeld, BystanderOK

\* A NAB appears.
LEMMA CreatedOK ==
  ASSUME JInv, IInv', NEW n \in Names, NEW label \in UUIDs \union {NoUUID},
         NEW valid \in BOOLEAN, NEW event, ~nab[n].exists,
         label # NoUUID => owner[label] = n,
         Changed(n, NewNAB(label, valid), event),
         localFresh' = (localFresh /\ cur # n), UNCHANGED <<owner, vb, vbSeen, pc, cur, local>>
  PROVE  HeldKept /\ CacheFollows /\ WorkerOK' /\ NABsOK' /\ Lifecycle!Appear(n)
<1>. DEFINE obj == NewNAB(label, valid)
<1>1. /\ obj.exists /\ ~obj.finalizer /\ ~obj.deletionTimestamp /\ obj.uuid = NoUUID
      /\ obj.syncLabel = label
  BY DEF NewNAB
<1>. HIDE DEF obj
<1>2. /\ nab \in [Names -> NABs] /\ NABOK(n) /\ ~nab[n].finalizer /\ nab[n].uuid = NoUUID
      /\ nab' = [nab EXCEPT ![n] = obj] /\ cache' = cache
  BY DEF JInv, IInv, TypeOK, NABsOK, NABOK, Changed, obj
<1>3. HeldKept /\ CacheFollows
  BY <1>2 DEF HeldKept, CacheFollows
<1>4. NABsOK'
  BY <1>1, <1>2, OneNABOK DEF NABOK, Truthful
<1>5. WorkerOK'
  <2>1. localFresh' => localFresh
    OBVIOUS
  <2>2. QED
    BY <1>3, <2>1, BystanderOK
<1>6. Life(nab[n]) = "none" /\ Life(obj) = "open"
  BY <1>1 DEF Life
<1>7. /\ [m \in Names |-> Life(nab'[m])]
           = [[m \in Names |-> Life(nab[m])] EXCEPT ![n] = "open"]
      /\ [m \in Names |-> nab'[m].uuid] = [m \in Names |-> nab[m].uuid]
  BY <1>1, <1>2, <1>6
<1>8. Lifecycle!Appear(n)
  BY <1>6, <1>7 DEF Lifecycle!Appear, Lifecycle!Moves
<1>9. QED
  BY <1>3, <1>4, <1>5, <1>8

LEMMA UserOK ==
  ASSUME JInv, IInv', NEW n \in Names, User(n)
  PROVE  /\ HeldKept /\ CacheFollows /\ WorkerOK' /\ NABsOK' /\ UNCHANGED <<owner, vb, vbSeen>>
         /\ NABsSame \/ Lifecycle!Appear(n) \/ Lifecycle!Leave(n) \/ Lifecycle!Vanish(n)
<1>1. /\ UNCHANGED <<owner, vb, vbSeen, pc, cur, local>> /\ (localFresh' => localFresh)
      /\ nab \in [Names -> NABs] /\ nab[n] \in NABs
  BY DEF User, CreateNAB, EditSpec, SetDeleteBackup, DeleteNAB, CreateRestore, UserWrites,
         veleroVars, workerVars, JInv, IInv, TypeOK
<1>2. ASSUME NEW label \in UUIDs \union {NoUUID}, NEW valid \in BOOLEAN,
             CreateNAB(n, label, valid)
      PROVE  HeldKept /\ CacheFollows /\ WorkerOK' /\ NABsOK' /\ Lifecycle!Appear(n)
  BY <1>1, <1>2, CreatedOK DEF CreateNAB, UserWrites
<1>3. ASSUME NEW obj, SameLife(obj, nab[n]), Changed(n, obj, TRUE)
      PROVE  HeldKept /\ CacheFollows /\ WorkerOK' /\ NABsOK' /\ NABsSame
  <2>1. NABsSame /\ CacheFollows
    BY <1>1, <1>3 DEF Changed, NABsSame, SameLife, CacheFollows
  <2>2. QED
    BY <1>1, <2>1, SameHeld, NABsSameOK, BystanderOK
<1>4. CASE EditSpec(n) \/ SetDeleteBackup(n)
  <2>1. /\ SameLife([nab[n] EXCEPT !.valid = ~@], nab[n])
        /\ SameLife([nab[n] EXCEPT !.deleteBackup = ~@], nab[n])
    BY <1>1, SameEdits
  <2>2. QED
    BY <1>1, <1>3, <1>4, <2>1 DEF EditSpec, SetDeleteBackup, UserWrites
<1>5. CASE DeleteNAB(n)
  <2>1. /\ HeldKept /\ CacheFollows /\ NABsOK'
        /\ NABsSame \/ Lifecycle!Leave(n) \/ Lifecycle!Vanish(n)
    BY <1>1, <1>5, DeletedLife DEF DeleteNAB, UserWrites
  <2>2. QED
    BY <1>1, <2>1, BystanderOK
<1>6. CASE CreateRestore(n)
  <2>1. NABsSame /\ CacheFollows
    BY <1>6 DEF CreateRestore, nabVars, NABsSame, SameLife, CacheFollows
  <2>2. QED
    BY <1>1, <2>1, SameHeld, NABsSameOK, BystanderOK
<1>7. QED
  BY <1>1, <1>2, <1>4, <1>5, <1>6 DEF User

LEMMA SyncCreateOK ==
  ASSUME JInv, IInv', NEW n \in Names, NEW u \in UUIDs, SyncCreate(n, u)
  PROVE  /\ HeldKept /\ CacheFollows /\ WorkerOK' /\ NABsOK' /\ UNCHANGED <<owner, vb, vbSeen>>
         /\ Lifecycle!Appear(n)
BY CreatedOK DEF SyncCreate, veleroVars

-----------------------------------------------------------------------------
(***************************************************************************)
(* Every step maps to a step of BackupLifecycle or to a stutter.           *)
(***************************************************************************)
Simulated == [Lifecycle!Next]_(Lifecycle!vars)

LEMMA SameSimulated ==
  ASSUME JInv, NABsSame, UNCHANGED vb PROVE UNCHANGED Lifecycle!vars
<1>1. \A n \in Names : Life(nab'[n]) = Life(nab[n]) /\ nab'[n].uuid = nab[n].uuid
  BY DEF NABsSame, SameLife, Life
<1>2. QED
  BY <1>1 DEF Lifecycle!vars

LEMMA EndSimulated ==
  ASSUME JInv, NABsSame, NEW u \in UUIDs, NEW state, state # "New",
         vb' = [vb EXCEPT ![u] = state]
  PROVE  Lifecycle!End(u)
<1>1. \A n \in Names : Life(nab'[n]) = Life(nab[n]) /\ nab'[n].uuid = nab[n].uuid
  BY DEF NABsSame, SameLife, Life
<1>2. {v \in UUIDs : vb'[v] = "New"} = {v \in UUIDs : vb[v] = "New"} \ {u}
  BY DEF JInv, IInv, TypeOK
<1>3. QED
  BY <1>1, <1>2 DEF Lifecycle!End

LEMMA StepOK ==
  ASSUME JInv, IInv', ~OthersLag, Step PROVE JInv' /\ Simulated
<1>1. vbSeen = vb /\ (pc # "idle" => cur \in Names)
  BY DEF JInv, BackupsOK, IInv, CopiesOK
<1>2. CASE MarkDelete \/ MarkDirect \/ DeleteRestores \/ DeleteRequests
           \/ InitCreate \/ ValidateSpec \/ SyncStatus
  <2>1. Quiet /\ WorkerOK'
    BY <1>2, QuietWorker
  <2>2. NABsOK' /\ BackupsOK'
    BY <1>1, <2>1, NABsSameOK, SameHeld, BackupsKept DEF Quiet
  <2>3. QED
    BY <2>1, <2>2, SameSimulated DEF Quiet, JInv, Simulated
<1>3. CASE CallDelete
  <2>1. BackupsOK' /\ NABsOK' /\ WorkerOK'
    BY <1>1, <1>3, CallDeleteOK, BackupsKept
  <2>2. CASE NABsSame
    BY <1>3, <2>1, <2>2, CallDeleteOK, SameSimulated DEF JInv, Simulated
  <2>3. CASE \E n \in Names : Lifecycle!Leave(n) \/ Lifecycle!Vanish(n)
    BY <2>1, <2>3 DEF JInv, Simulated, Lifecycle!Next
  <2>4. QED
    BY <1>3, <2>2, <2>3, CallDeleteOK
<1>4. CASE RequestDeletion
  <2>1. /\ WorkerOK' /\ NABsOK' /\ BackupsOK' /\ UNCHANGED vb
        /\ NABsSame \/ Lifecycle!Vanish(cur)
    BY <1>4, RequestDeletionOK
  <2>2. CASE Lifecycle!Vanish(cur)
    BY <1>1, <1>4, <2>1, <2>2
       DEF RequestDeletion, JInv, Simulated, Lifecycle!Next, Lifecycle!Vanish, Lifecycle!Moves
  <2>3. QED
    BY <2>1, <2>2, SameSimulated DEF JInv, Simulated
<1>5. CASE DeleteBackup
  <2>1. /\ WorkerOK' /\ NABsOK' /\ BackupsOK'
        /\ \/ UNCHANGED vb /\ (NABsSame \/ Lifecycle!Vanish(cur))
           \/ NABsSame /\ \E u \in UUIDs : vb' = [vb EXCEPT ![u] = "absent"]
    BY <1>5, DeleteBackupOK
  <2>2. CASE Lifecycle!Vanish(cur)
    BY <1>1, <1>5, <2>1, <2>2
       DEF DeleteBackup, JInv, Simulated, Lifecycle!Next, Lifecycle!Vanish, Lifecycle!Moves
  <2>3. ASSUME NABsSame, NEW u \in UUIDs, vb' = [vb EXCEPT ![u] = "absent"]
        PROVE  Simulated
    BY <2>3, EndSimulated DEF Simulated, Lifecycle!Next
  <2>4. QED
    BY <2>1, <2>2, <2>3, SameSimulated DEF JInv, Simulated
<1>6. CASE SetBackupUUID
  <2>1. /\ WorkerOK' /\ NABsOK' /\ UNCHANGED <<vb, vbSeen>> /\ HeldKept
        /\ \A u \in UUIDs : owner[u] \in Names => owner'[u] = owner[u]
        /\ NABsSame \/ \E u \in UUIDs : Lifecycle!Identify(cur, u)
    BY <1>6, SetBackupUUIDOK
  <2>2. BackupsOK'
    BY <1>1, <2>1, BackupsKept
  <2>3. ASSUME NEW u \in UUIDs, Lifecycle!Identify(cur, u) PROVE Simulated
    BY <1>1, <1>6, <2>3 DEF SetBackupUUID, Simulated, Lifecycle!Next, Lifecycle!Identify
  <2>4. QED
    BY <2>1, <2>2, <2>3, SameSimulated DEF JInv, Simulated
<1>7. CASE SetFinalizer
  <2>1. /\ WorkerOK' /\ NABsOK' /\ UNCHANGED <<owner, vb, vbSeen>> /\ HeldKept
        /\ NABsSame \/ Lifecycle!Hold(cur)
    BY <1>7, SetFinalizerOK
  <2>2. BackupsOK'
    BY <1>1, <2>1, BackupsKept
  <2>3. CASE Lifecycle!Hold(cur)
    BY <1>1, <1>7, <2>1, <2>2, <2>3
       DEF SetFinalizer, JInv, Simulated, Lifecycle!Next, Lifecycle!Hold, Lifecycle!Moves
  <2>4. QED
    BY <2>1, <2>2, <2>3, SameSimulated DEF JInv, Simulated
<1>8. CASE CreateBackup
  <2>1. /\ WorkerOK' /\ NABsOK' /\ BackupsOK' /\ NABsSame
        /\ UNCHANGED vb \/ Lifecycle!Run(cur)
    BY <1>8, CreateBackupOK
  <2>2. CASE Lifecycle!Run(cur)
    BY <1>1, <1>8, <2>1, <2>2 DEF CreateBackup, JInv, Simulated, Lifecycle!Next, Lifecycle!Run
  <2>3. QED
    BY <2>1, <2>2, SameSimulated DEF JInv, Simulated
<1>9. QED
  BY <1>2, <1>3, <1>4, <1>5, <1>6, <1>7, <1>8 DEF Step

LEMMA NextOK ==
  ASSUME JInv, ~OthersLag, [Next]_vars PROVE JInv' /\ Simulated
<1>1. IInv' /\ vbSeen = vb
  BY NextInv DEF JInv, BackupsOK
<1>2. ASSUME NEW n \in Names, Reconcile(n) PROVE JInv' /\ Simulated
  <2>1. Quiet /\ WorkerOK'
    BY <1>2, ReconcileOK
  <2>2. NABsOK' /\ BackupsOK'
    BY <1>1, <2>1, NABsSameOK, SameHeld, BackupsKept DEF Quiet
  <2>3. QED
    BY <1>1, <2>1, <2>2, SameSimulated DEF Quiet, JInv, Simulated
<1>3. CASE \/ CallFails \/ Restart
           \/ \E n \in Names : DeliverNAB(n) \/ RestoreGone(n)
           \/ \E u \in UUIDs : DeliverBackup(u) \/ DeliverRequests(u) \/ OtherEvent(u)
                               \/ ExpireRequest(u)
           \/ UNCHANGED vars
  <2>1. NABsSame /\ CacheFollows /\ WorkerOK' /\ UNCHANGED <<owner, vb>> /\ vbSeen' = vb
    BY <1>1, <1>3, QuietOthers
  <2>2. NABsOK' /\ BackupsOK'
    BY <2>1, NABsSameOK, SameHeld, BackupsKept
  <2>3. QED
    BY <1>1, <2>1, <2>2, SameSimulated DEF JInv, Simulated
<1>4. ASSUME NEW u \in UUIDs,
             \/ CompleteBackup(u) \/ ProcessRequest(u) \/ ExpireBackup(u)
             \/ RejectRequest(u) \/ ResyncBackup(u) \/ CollectBackup(u)
      PROVE  JInv' /\ Simulated
  <2>1. PICK state \in VBStates \ {"New"} :
          /\ NABsSame /\ CacheFollows /\ WorkerOK' /\ UNCHANGED owner /\ vbSeen' = vb'
          /\ vb' = [vb EXCEPT ![u] = state] \/ UNCHANGED vb
    BY <1>1, <1>4, VeleroOK
  <2>2. \A v \in UUIDs : vb'[v] = "New" => vb[v] = "New"
    BY <2>1 DEF JInv, IInv, TypeOK
  <2>3. NABsOK' /\ BackupsOK'
    BY <2>1, <2>2, NABsSameOK, SameHeld, BackupsKept
  <2>4. Simulated
    BY <2>1, SameSimulated, EndSimulated DEF Simulated, Lifecycle!Next
  <2>5. QED
    BY <1>1, <2>1, <2>3, <2>4 DEF JInv
<1>5. ASSUME NEW n \in Names, User(n) PROVE JInv' /\ Simulated
  <2>1. /\ HeldKept /\ CacheFollows /\ WorkerOK' /\ NABsOK' /\ UNCHANGED <<owner, vb, vbSeen>>
        /\ NABsSame \/ Lifecycle!Appear(n) \/ Lifecycle!Leave(n) \/ Lifecycle!Vanish(n)
    BY <1>1, <1>5, UserOK
  <2>2. BackupsOK'
    BY <1>1, <2>1, BackupsKept
  <2>3. QED
    BY <1>1, <2>1, <2>2, SameSimulated DEF JInv, Simulated, Lifecycle!Next
<1>6. ASSUME NEW n \in Names, NEW u \in UUIDs, SyncCreate(n, u) PROVE JInv' /\ Simulated
  <2>1. /\ HeldKept /\ CacheFollows /\ WorkerOK' /\ NABsOK' /\ UNCHANGED <<owner, vb, vbSeen>>
        /\ Lifecycle!Appear(n)
    BY <1>1, <1>6, SyncCreateOK
  <2>2. BackupsOK'
    BY <1>1, <2>1, BackupsKept
  <2>3. QED
    BY <1>1, <2>1, <2>2 DEF JInv, Simulated, Lifecycle!Next
<1>7. QED
  BY <1>1, <1>2, <1>3, <1>4, <1>5, <1>6, StepOK DEF Next, Operation, Velero

LEMMA JInvariance == ASSUME ~OthersLag PROVE Spec => []JInv
<1>1. Init => JInv
  BY JInitOK
<1>2. JInv /\ [Next]_vars => JInv'
  BY NextOK
<1>3. QED
  BY <1>1, <1>2, PTL DEF Spec

-----------------------------------------------------------------------------
\* A Velero Backup in progress has its NAB, with its NACUUID and the finalizer,
\* although the worker created it by a copy of the NAB that may have been old.
THEOREM RunningBackupHasNAB == ASSUME ~OthersLag PROVE Spec => []BackupHasNAB
<1>1. JInv => BackupHasNAB
  BY DEF JInv, BackupsOK
<1>2. QED
  BY <1>1, JInvariance, PTL

\* The controller implements BackupLifecycle.
THEOREM ControllerImplementsLifecycle == ASSUME ~OthersLag PROVE Spec => LifecycleKept
<1>1. Init => Lifecycle!Init
  <2>1. Init => {u \in UUIDs : vb[u] = "New"} = {}
    BY DEF Init
  <2>2. QED
    BY <2>1, NoNABLife DEF Init, Lifecycle!Init
<1>2. JInv /\ [Next]_vars => [Lifecycle!Next]_(Lifecycle!vars)
  BY NextOK DEF Simulated
<1>3. QED
  BY <1>1, <1>2, JInvariance, PTL DEF Spec, LifecycleKept, Lifecycle!Spec

\* So a Velero Backup in progress has a NAB that carries its NACUUID and is held:
\* what BackupLifecycle promises, of the controller.
THEOREM BackupsHaveHolder == ASSUME ~OthersLag PROVE Spec => []Lifecycle!RunningHeld
BY ControllerImplementsLifecycle, Lifecycle!RunningIsHeld, NamesAssumption, PTL DEF LifecycleKept

-----------------------------------------------------------------------------
(***************************************************************************)
(* Both deletion paths of the controller.  The invariant adds to JInv what *)
(* the worker has achieved by the step it is about to take: it set         *)
(* spec.deleteBackup in the copy it works on, no restore is live while     *)
(* that copy is the stored one, and no request is left once it has come to *)
(* the Velero Backup.  Caches of requests and restores do not lag either.  *)
(***************************************************************************)
RequestsOK == dbrSeen = dbr /\ \A u \in UUIDs : dbr[u].count <= 1

DeletionOK ==
  /\ pc \in {"markDelete", "callDelete", "deleteRestores", "requestDeletion"}
       => local.deleteBackup
  /\ pc = "requestDeletion" /\ localFresh => nar[cur] # "live"
  /\ pc = "deleteBackup" /\ local.uuid # NoUUID => dbr[local.uuid].count = 0

KInv == JInv /\ RequestsOK /\ DeletionOK

LEMMA KInitOK == Init => KInv
BY JInitOK DEF Init, KInv, RequestsOK, NoRequest, DeletionOK

-----------------------------------------------------------------------------
(***************************************************************************)
(* What steps have in common.                                              *)
(***************************************************************************)
LEMMA RequestsKept == ASSUME KInv, UNCHANGED <<dbr, dbrSeen>> PROVE RequestsOK'
BY DEF KInv, RequestsOK

LEMMA RequestsSet ==
  ASSUME KInv, ~OthersLag, NEW u \in UUIDs, NEW requests, requests.count <= 1,
         SetRequests(u, requests)
  PROVE  RequestsOK' /\ dbr' = [dbr EXCEPT ![u] = requests]
<1>1. dbr \in [UUIDs -> Requests]
  BY DEF KInv, JInv, IInv, TypeOK
<1>2. QED
  BY <1>1 DEF KInv, RequestsOK, SetRequests

\* No request is submitted where there was none.
NoneAdded == \A u \in UUIDs : dbr[u].count = 0 => dbr'[u].count = 0

\* Others move, the worker does not: what it has achieved lasts.
LEMMA DeletionBystanderOK ==
  ASSUME KInv, UNCHANGED <<pc, cur, local>>, localFresh' => localFresh, NoneAdded,
         nar'[cur] = "live" => nar[cur] = "live" \/ ~localFresh \/ pc # "requestDeletion"
  PROVE  DeletionOK'
<1>1. local.uuid # NoUUID => local.uuid \in UUIDs
  BY DEF KInv, JInv, IInv, TypeOK, NABs
<1>2. QED
  BY <1>1 DEF KInv, DeletionOK, NoneAdded

LEMMA IdleOK == ASSUME pc' = "idle" PROVE DeletionOK'
BY DEF DeletionOK

\* A step of the worker ends the reconcile or takes it on.
LEMMA StepEnds ==
  ASSUME NEW obj, NEW event, NEW step,
         Update(obj, event, step) \/ UpdateIfChanged(obj, step) \/ Continue(step, obj)
  PROVE  pc' = "idle" \/ Advances(step, obj)
<1>1. ASSUME Continue(step, obj) PROVE pc' = "idle" \/ Advances(step, obj)
  BY <1>1 DEF Continue, Exit, Return, Advances
<1>2. ASSUME NEW e, Update(obj, e, step) PROVE pc' = "idle" \/ Advances(step, obj)
  BY <1>1, <1>2 DEF Update, Requeue, Return
<1>3. QED
  BY <1>1, <1>2 DEF UpdateIfChanged

-----------------------------------------------------------------------------
(***************************************************************************)
(* The steps of the worker.                                                *)
(***************************************************************************)
LEMMA MarkDeleteDeletion == ASSUME KInv, MarkDelete PROVE DeletionOK'
<1>. DEFINE obj == [local EXCEPT !.phase = "Deleting", !.deleting = "accepted"]
            step == IF local.deletionTimestamp THEN "deleteRestores" ELSE "callDelete"
<1>1. UpdateIfChanged(obj, step)
  BY DEF MarkDelete
<1>2. obj.deleteBackup /\ step \in {"deleteRestores", "callDelete"}
  BY DEF KInv, DeletionOK, MarkDelete, JInv, IInv, TypeOK, NABs
<1>. HIDE DEF obj, step
<1>3. QED
  BY <1>1, <1>2, StepEnds DEF DeletionOK, Advances

LEMMA DeleteRestoresDeletion ==
  ASSUME KInv, ~OthersLag, DeleteRestores PROVE DeletionOK'
<1>1. nar' = [nar EXCEPT ![cur] = IF @ = "none" THEN @ ELSE "terminating"]
  BY DEF DeleteRestores
<1>2. pc' = "requestDeletion" /\ local' = local /\ cur' = cur /\ cur \in Names
  BY DEF DeleteRestores, Continue, KInv, JInv, IInv, CopiesOK
<1>3. nar'[cur] # "live"
  BY <1>1, <1>2 DEF KInv, JInv, IInv, TypeOK
<1>4. QED
  BY <1>2, <1>3 DEF KInv, DeletionOK, DeleteRestores

LEMMA RequestDeletionDeletion ==
  ASSUME KInv, ~OthersLag, RequestDeletion
  PROVE  RequestsOK' /\ DeletionOK'
<1>. DEFINE u == local.uuid
<1>1. dbrSeen = dbr
  BY DEF KInv, RequestsOK
<1>2. u # NoUUID => u \in UUIDs
  BY DEF KInv, JInv, IInv, TypeOK, NABs
<1>3. pc' = "idle"
  <2>1. ASSUME NEW status, SyncRequest(status) PROVE pc' = "idle"
    BY <2>1, StepEnds DEF SyncRequest, Advances
  <2>2. ASSUME RemoveFinalizer PROVE pc' = "idle"
    BY <2>2, StepEnds DEF RemoveFinalizer, Advances
  <2>3. QED
    BY <2>1, <2>2 DEF RequestDeletion, Exit, Requeue, Return
<1>4. CASE UNCHANGED veleroVars
  BY <1>3, <1>4, IdleOK, RequestsKept DEF veleroVars
<1>5. CASE /\ u # NoUUID /\ dbrSeen[u].count = 0
           /\ SetRequests(u, [count |-> dbr[u].count + 1, status |-> "unset"])
  BY <1>1, <1>2, <1>3, <1>5, IdleOK, RequestsSet
<1>6. QED
  BY <1>4, <1>5 DEF RequestDeletion, RemoveFinalizer

LEMMA MarkDirectDeletionOK == ASSUME MarkDirect PROVE DeletionOK'
<1>. DEFINE obj == [local EXCEPT !.phase = "Deleting", !.deleting = "direct"]
<1>1. UpdateIfChanged(obj, "deleteRequests")
  BY DEF MarkDirect
<1>. HIDE DEF obj
<1>2. QED
  BY <1>1, StepEnds DEF DeletionOK, Advances

LEMMA DeleteRequestsDeletion ==
  ASSUME KInv, ~OthersLag, DeleteRequests
  PROVE  RequestsOK' /\ DeletionOK'
<1>. DEFINE u == local.uuid
<1>1. dbrSeen = dbr /\ \A v \in UUIDs : dbr[v].count \in Nat /\ dbr[v].count <= 1
  BY DEF KInv, RequestsOK, JInv, IInv, TypeOK, Requests
<1>2. u # NoUUID => u \in UUIDs
  BY DEF KInv, JInv, IInv, TypeOK, NABs
<1>3. CASE u = NoUUID \/ dbr[u].count = 0
  <2>1. Continue("deleteBackup", local) /\ UNCHANGED <<dbr, dbrSeen>>
    BY <1>1, <1>3 DEF DeleteRequests, veleroVars
  <2>2. QED
    BY <1>3, <2>1, RequestsKept DEF Continue, DeletionOK
<1>4. CASE u # NoUUID /\ dbr[u].count # 0
  <2>1. dbr[u].count = 1
    BY <1>1, <1>2, <1>4
  <2>2. SetRequests(u, NoRequest) /\ Continue("deleteBackup", local)
    BY <1>1, <1>4, <2>1 DEF DeleteRequests
  <2>3. RequestsOK' /\ dbr' = [dbr EXCEPT ![u] = NoRequest]
    BY <1>2, <1>4, <2>2, RequestsSet DEF NoRequest
  <2>4. dbr'[u].count = 0
    BY <1>2, <1>4, <2>3 DEF KInv, JInv, IInv, TypeOK, NoRequest
  <2>5. QED
    BY <2>2, <2>3, <2>4 DEF Continue, DeletionOK
<1>5. QED
  BY <1>3, <1>4

\* The steps of a reconcile that is not deleting, and the ones after which it ends.
LEMMA OtherStepsDeletion ==
  ASSUME CallDelete \/ DeleteBackup \/ InitCreate \/ ValidateSpec
         \/ SetBackupUUID \/ SetFinalizer \/ CreateBackup \/ SyncStatus
  PROVE  DeletionOK' /\ UNCHANGED <<dbr, dbrSeen>>
<1>1. CASE CallDelete
  BY <1>1, IdleOK DEF CallDelete, Requeue, Return, veleroVars
<1>2. CASE DeleteBackup
  BY <1>2, IdleOK, StepEnds
     DEF DeleteBackup, RemoveFinalizer, Advances, Exit, Requeue, Return, SetBackup, veleroVars
<1>3. CASE InitCreate
  <2>. DEFINE obj == [local EXCEPT !.phase = "New"]
  <2>1. Continue("validate", local) \/ Update(obj, FALSE, "validate")
    BY <1>3 DEF InitCreate
  <2>. HIDE DEF obj
  <2>2. pc' = "idle" \/ pc' = "validate"
    BY <2>1, StepEnds DEF Advances
  <2>3. QED
    BY <1>3, <2>2 DEF InitCreate, DeletionOK, veleroVars
<1>4. CASE ValidateSpec
  <2>. DEFINE obj == [local EXCEPT !.accepted = "True"]
              refused == [local EXCEPT !.phase = "BackingOff", !.accepted = "False"]
  <2>1. UpdateIfChanged(obj, "setUUID") \/ UpdateIfChanged(refused, "idle")
    BY <1>4 DEF ValidateSpec
  <2>. HIDE DEF obj, refused
  <2>2. QED
    BY <1>4, <2>1, StepEnds DEF ValidateSpec, DeletionOK, Advances, veleroVars
<1>5. CASE SetBackupUUID
  BY <1>5 DEF SetBackupUUID, Requeue, Return, DeletionOK, veleroVars
<1>6. CASE SetFinalizer
  <2>. DEFINE obj == [local EXCEPT !.finalizer = TRUE]
  <2>1. UpdateIfChanged(obj, "createBackup")
    BY <1>6 DEF SetFinalizer
  <2>. HIDE DEF obj
  <2>2. QED
    BY <1>6, <2>1, StepEnds DEF SetFinalizer, DeletionOK, Advances, veleroVars
<1>7. CASE CreateBackup
  <2>. DEFINE refused == [local EXCEPT !.phase = "BackingOff", !.accepted = "False"]
  <2>1. pc' = "idle" \/ pc' = "syncStatus" \/ UpdateIfChanged(refused, "idle")
    BY <1>7 DEF CreateBackup, Requeue, Return
  <2>2. UNCHANGED <<dbr, dbrSeen>>
    BY <1>7 DEF CreateBackup, veleroVars, SetBackup
  <2>. HIDE DEF refused
  <2>3. pc' = "idle" \/ pc' = "syncStatus"
    BY <2>1, StepEnds DEF Advances
  <2>4. QED
    BY <2>2, <2>3 DEF DeletionOK
<1>8. CASE SyncStatus
  <2>. DEFINE obj == [local EXCEPT !.phase = "Created", !.queued = TRUE, !.mirror = vbRead]
  <2>1. Update(obj, FALSE, "idle")
    BY <1>8 DEF SyncStatus
  <2>. HIDE DEF obj
  <2>2. pc' = "idle"
    BY <2>1, StepEnds DEF Advances
  <2>3. QED
    BY <1>8, <2>2, IdleOK DEF SyncStatus, veleroVars
<1>9. QED
  BY <1>1, <1>2, <1>3, <1>4, <1>5, <1>6, <1>7, <1>8

LEMMA StepDeletion ==
  ASSUME KInv, ~OthersLag, Step PROVE RequestsOK' /\ DeletionOK'
<1>1. CASE MarkDelete
  BY <1>1, MarkDeleteDeletion, RequestsKept DEF MarkDelete, veleroVars
<1>2. CASE DeleteRestores
  BY <1>2, DeleteRestoresDeletion, RequestsKept DEF DeleteRestores, veleroVars
<1>3. CASE MarkDirect
  BY <1>3, MarkDirectDeletionOK, RequestsKept DEF MarkDirect, veleroVars
<1>4. CASE RequestDeletion \/ DeleteRequests
  BY <1>4, RequestDeletionDeletion, DeleteRequestsDeletion
<1>5. CASE CallDelete \/ DeleteBackup \/ InitCreate \/ ValidateSpec
           \/ SetBackupUUID \/ SetFinalizer \/ CreateBackup \/ SyncStatus
  BY <1>5, OtherStepsDeletion, RequestsKept
<1>6. QED
  BY <1>1, <1>2, <1>3, <1>4, <1>5 DEF Step

-----------------------------------------------------------------------------
(***************************************************************************)
(* The steps of the others.                                                *)
(***************************************************************************)
LEMMA SteadyDeletion ==
  ASSUME KInv, UNCHANGED <<nar, dbr, dbrSeen, pc, cur, local>>, localFresh' => localFresh
  PROVE  RequestsOK' /\ DeletionOK'
BY RequestsKept, DeletionBystanderOK DEF NoneAdded

LEMMA ReconcileDeletion ==
  ASSUME KInv, NEW n \in Names, Reconcile(n) PROVE RequestsOK' /\ DeletionOK'
<1>1. CASE cache[n].exists
  BY <1>1, RequestsKept DEF Reconcile, Path, DeletionOK, veleroVars
<1>2. CASE ~cache[n].exists
  BY <1>2, RequestsKept DEF Reconcile, DeletionOK, veleroVars
<1>3. QED
  BY <1>1, <1>2

LEMMA WorkerLostDeletion ==
  ASSUME KInv, CallFails \/ Restart PROVE RequestsOK' /\ DeletionOK'
<1>1. pc' = "idle" /\ dbr' = dbr /\ dbrSeen' = dbrSeen
  BY DEF CallFails, Restart, Requeue, Return, veleroVars, KInv, RequestsOK
<1>2. QED
  BY <1>1, IdleOK, RequestsKept

LEMMA UserDeletion ==
  ASSUME KInv, NEW n \in Names, User(n) PROVE RequestsOK' /\ DeletionOK'
<1>1. ASSUME NEW obj, UserWrites(n, obj) PROVE RequestsOK' /\ DeletionOK'
  BY <1>1, SteadyDeletion DEF UserWrites, veleroVars
<1>2. CASE CreateRestore(n)
  <2>1. UNCHANGED <<pc, cur, local, localFresh, dbr, dbrSeen>>
    BY <1>2 DEF CreateRestore, veleroVars, workerVars
  <2>2. localFresh /\ pc = "requestDeletion" => nab[cur].phase = "Deleting" /\ cur \in Names
    BY DEF KInv, JInv, IInv, CopiesOK, Stage
  <2>3. localFresh /\ pc = "requestDeletion" /\ nar'[cur] = "live" => nar[cur] = "live"
    BY <1>2, <2>2 DEF CreateRestore, KInv, JInv, IInv, TypeOK
  <2>4. QED
    BY <2>1, <2>3, RequestsKept, DeletionBystanderOK DEF NoneAdded
<1>3. ASSUME NEW label, NEW valid, CreateNAB(n, label, valid) PROVE RequestsOK' /\ DeletionOK'
  BY <1>1, <1>3 DEF CreateNAB
<1>4. CASE EditSpec(n) \/ SetDeleteBackup(n) \/ DeleteNAB(n)
  BY <1>1, <1>4 DEF EditSpec, SetDeleteBackup, DeleteNAB
<1>5. QED
  BY <1>2, <1>3, <1>4 DEF User

LEMMA RestoreGoneDeletion ==
  ASSUME KInv, NEW n \in Names, RestoreGone(n) PROVE RequestsOK' /\ DeletionOK'
<1>1. UNCHANGED <<pc, cur, local, localFresh, dbr, dbrSeen>>
  BY DEF RestoreGone, veleroVars, workerVars
<1>2. nar'[cur] = "live" /\ pc = "requestDeletion" => nar[cur] = "live"
  BY DEF RestoreGone, KInv, JInv, IInv, TypeOK, CopiesOK
<1>3. QED
  BY <1>1, <1>2, RequestsKept, DeletionBystanderOK DEF NoneAdded

\* A write of another controller, the informers and Velero's changes of backups.
LEMMA OthersDeletion ==
  ASSUME KInv,
         \/ \E n \in Names : DeliverNAB(n)
         \/ \E n \in Names, u \in UUIDs : SyncCreate(n, u)
         \/ \E u \in UUIDs : \/ DeliverBackup(u) \/ DeliverRequests(u) \/ OtherEvent(u)
                             \/ CompleteBackup(u) \/ ResyncBackup(u) \/ CollectBackup(u)
         \/ UNCHANGED vars
  PROVE  RequestsOK' /\ DeletionOK'
<1>1. ASSUME NEW u \in UUIDs, CompleteBackup(u) \/ ResyncBackup(u) \/ CollectBackup(u)
      PROVE  RequestsOK' /\ DeletionOK'
  <2>1. UNCHANGED <<nar, dbr, dbrSeen, pc, cur, local, localFresh>>
    BY <1>1 DEF CompleteBackup, ResyncBackup, CollectBackup, VeleroSets
  <2>2. QED
    BY <2>1, SteadyDeletion
<1>2. CASE \E n \in Names, u \in UUIDs : SyncCreate(n, u)
  BY <1>2, SteadyDeletion DEF SyncCreate, veleroVars
<1>3. CASE \/ \E n \in Names : DeliverNAB(n)
           \/ \E u \in UUIDs : DeliverBackup(u) \/ OtherEvent(u)
           \/ UNCHANGED vars
  BY <1>3, SteadyDeletion
     DEF DeliverNAB, DeliverBackup, OtherEvent, veleroVars, workerVars, vars
<1>4. ASSUME NEW u \in UUIDs, DeliverRequests(u) PROVE FALSE
  BY <1>4 DEF DeliverRequests, KInv, RequestsOK
<1>5. QED
  BY <1>1, <1>2, <1>3, <1>4

\* Velero's changes of requests: no request where there was none.
LEMMA VeleroRequestsDeletion ==
  ASSUME KInv, ~OthersLag, NEW u \in UUIDs,
         ProcessRequest(u) \/ ExpireBackup(u) \/ RejectRequest(u) \/ ExpireRequest(u)
  PROVE  RequestsOK' /\ DeletionOK'
<1>1. UNCHANGED <<nar, pc, cur, local, localFresh>>
  BY DEF ProcessRequest, ExpireBackup, RejectRequest, ExpireRequest, Purge, VeleroSets,
         workerVars
<1>2. dbr \in [UUIDs -> Requests] /\ dbr[u].count <= 1
  BY DEF KInv, RequestsOK, JInv, IInv, TypeOK
<1>3. PICK requests :
        SetRequests(u, requests) /\ requests.count \in {0, dbr[u].count}
  <2>1. CASE ProcessRequest(u) \/ ExpireBackup(u) \/ ExpireRequest(u)
    <3>1. SetRequests(u, NoRequest)
      BY <2>1 DEF ProcessRequest, ExpireBackup, ExpireRequest, Purge
    <3>2. QED
      BY <3>1 DEF NoRequest
  <2>2. CASE RejectRequest(u)
    <3>1. SetRequests(u, [dbr[u] EXCEPT !.status = "Processed"])
      BY <2>2 DEF RejectRequest
    <3>2. [dbr[u] EXCEPT !.status = "Processed"].count = dbr[u].count
      BY <1>2 DEF Requests
    <3>3. QED
      BY <3>1, <3>2
  <2>3. QED
    BY <2>1, <2>2
<1>4. RequestsOK' /\ dbr' = [dbr EXCEPT ![u] = requests]
  BY <1>2, <1>3, RequestsSet
<1>5. NoneAdded
  BY <1>2, <1>3, <1>4 DEF NoneAdded
<1>6. QED
  BY <1>1, <1>4, <1>5, DeletionBystanderOK

LEMMA KNextOK == ASSUME KInv, ~OthersLag, [Next]_vars PROVE KInv'
<1>1. JInv'
  BY NextOK DEF KInv
<1>2. RequestsOK' /\ DeletionOK'
  <2>1. CASE Step \/ CallFails \/ Restart
    BY <2>1, StepDeletion, WorkerLostDeletion
  <2>2. CASE \E n \in Names : Reconcile(n) \/ User(n) \/ RestoreGone(n)
    BY <2>2, ReconcileDeletion, UserDeletion, RestoreGoneDeletion
  <2>3. CASE \E u \in UUIDs : ProcessRequest(u) \/ ExpireBackup(u)
                              \/ RejectRequest(u) \/ ExpireRequest(u)
    BY <2>3, VeleroRequestsDeletion
  <2>4. CASE \/ \E n \in Names : DeliverNAB(n)
             \/ \E n \in Names, u \in UUIDs : SyncCreate(n, u)
             \/ \E u \in UUIDs : \/ DeliverBackup(u) \/ DeliverRequests(u) \/ OtherEvent(u)
                                 \/ CompleteBackup(u) \/ ResyncBackup(u) \/ CollectBackup(u)
             \/ UNCHANGED vars
    BY <2>4, OthersDeletion
  <2>5. QED
    BY <2>1, <2>2, <2>3, <2>4 DEF Next, Operation, Velero
<1>3. QED
  BY <1>1, <1>2 DEF KInv

LEMMA KInvariance == ASSUME ~OthersLag PROVE Spec => []KInv
<1>1. Init => KInv
  BY KInitOK
<1>2. KInv /\ [Next]_vars => KInv'
  BY KNextOK
<1>3. QED
  BY <1>1, <1>2, PTL DEF Spec

-----------------------------------------------------------------------------
(***************************************************************************)
(* Which steps submit a request and which let a NAB go.                    *)
(***************************************************************************)
LEMMA OnlyRequestDeletionAdds ==
  ASSUME KInv, ~OthersLag, [Next]_vars, ~RequestDeletion PROVE NoneAdded
<1>1. /\ dbrSeen = dbr /\ dbr \in [UUIDs -> Requests]
      /\ local.uuid # NoUUID => local.uuid \in UUIDs
  BY DEF KInv, RequestsOK, JInv, IInv, TypeOK, NABs
<1>2. ASSUME UNCHANGED dbr PROVE NoneAdded
  BY <1>2 DEF NoneAdded
<1>3. CASE Step
  <2>1. CASE DeleteRequests
    <3>1. UNCHANGED dbr \/ \E requests : /\ dbrSeen[local.uuid].count # 0
                                         /\ local.uuid # NoUUID
                                         /\ SetRequests(local.uuid, requests)
      BY <2>1 DEF DeleteRequests, veleroVars
    <3>2. QED
      BY <1>1, <1>2, <3>1 DEF SetRequests, NoneAdded
  <2>2. CASE MarkDelete \/ DeleteRestores \/ MarkDirect
    BY <1>2, <2>2 DEF MarkDelete, DeleteRestores, MarkDirect, veleroVars
  <2>3. CASE CallDelete \/ DeleteBackup \/ InitCreate \/ ValidateSpec
             \/ SetBackupUUID \/ SetFinalizer \/ CreateBackup \/ SyncStatus
    BY <1>2, <2>3, OtherStepsDeletion
  <2>4. QED
    BY <1>3, <2>1, <2>2, <2>3 DEF Step
<1>4. CASE \E u \in UUIDs : \/ ProcessRequest(u) \/ ExpireBackup(u)
                            \/ RejectRequest(u) \/ ExpireRequest(u)
  <2>1. PICK u \in UUIDs : \/ SetRequests(u, NoRequest)
                           \/ SetRequests(u, [dbr[u] EXCEPT !.status = "Processed"])
    BY <1>4 DEF ProcessRequest, ExpireBackup, RejectRequest, ExpireRequest, Purge
  <2>2. NoRequest.count = 0 /\ [dbr[u] EXCEPT !.status = "Processed"].count = dbr[u].count
    BY <1>1 DEF NoRequest, Requests
  <2>3. QED
    BY <1>1, <2>1, <2>2 DEF SetRequests, NoneAdded
<1>5. CASE \/ CallFails \/ Restart \/ UNCHANGED vars
           \/ \E n \in Names : Reconcile(n) \/ DeliverNAB(n) \/ RestoreGone(n)
  BY <1>2, <1>5 DEF CallFails, Restart, vars, Reconcile, DeliverNAB, RestoreGone, veleroVars
<1>6. CASE \E n \in Names : User(n)
  BY <1>2, <1>6 DEF User, CreateNAB, EditSpec, SetDeleteBackup, DeleteNAB, CreateRestore,
                    UserWrites, veleroVars
<1>7. CASE \E u \in UUIDs : \/ DeliverBackup(u) \/ DeliverRequests(u) \/ OtherEvent(u)
                            \/ CompleteBackup(u) \/ ResyncBackup(u) \/ CollectBackup(u)
                            \/ \E n \in Names : SyncCreate(n, u)
  BY <1>2, <1>7 DEF DeliverBackup, DeliverRequests, OtherEvent, CompleteBackup, ResyncBackup,
                    CollectBackup, SyncCreate, veleroVars
<1>8. QED
  BY <1>3, <1>4, <1>5, <1>6, <1>7 DEF Next, Operation, Velero

LEMMA OnlyDeletionRemoves ==
  ASSUME KInv, ~OthersLag, [Next]_vars, ~RequestDeletion, ~DeleteBackup PROVE HeldKept
<1>1. JInv /\ IInv'
  BY NextInv DEF KInv, JInv
<1>2. CASE MarkDelete \/ MarkDirect \/ DeleteRestores \/ DeleteRequests
           \/ InitCreate \/ ValidateSpec \/ SyncStatus
  BY <1>1, <1>2, QuietWorker, SameHeld DEF Quiet
<1>3. CASE CallDelete \/ SetBackupUUID \/ SetFinalizer \/ CreateBackup
  BY <1>1, <1>3, CallDeleteOK, SetBackupUUIDOK, SetFinalizerOK, CreateBackupOK, SameHeld
<1>4. CASE \E n \in Names : Reconcile(n) \/ User(n)
  BY <1>1, <1>4, ReconcileOK, UserOK, SameHeld DEF Quiet
<1>5. CASE \/ CallFails \/ Restart
           \/ \E n \in Names : DeliverNAB(n) \/ RestoreGone(n)
           \/ \E u \in UUIDs : DeliverBackup(u) \/ DeliverRequests(u) \/ OtherEvent(u)
                               \/ ExpireRequest(u)
           \/ UNCHANGED vars
  BY <1>1, <1>5, QuietOthers, SameHeld
<1>6. ASSUME NEW u \in UUIDs,
             \/ CompleteBackup(u) \/ ProcessRequest(u) \/ ExpireBackup(u)
             \/ RejectRequest(u) \/ ResyncBackup(u) \/ CollectBackup(u)
      PROVE  HeldKept
  BY <1>1, <1>6, VeleroOK, SameHeld
<1>7. CASE \E n \in Names, u \in UUIDs : SyncCreate(n, u)
  BY <1>1, <1>7, SyncCreateOK
<1>8. QED
  BY <1>2, <1>3, <1>4, <1>5, <1>6, <1>7 DEF Next, Operation, Velero, Step

-----------------------------------------------------------------------------
\* No DeleteBackupRequest is submitted while a NonAdminRestore accepted from a NAB
\* that was Created is live, unless the worker's copy of the NAB is old: while it
\* is not, the stored phase is the Deleting it wrote, so a restore accepted after
\* deleteNonAdminRestores, by a cache that still shows Created, is a late one.
THEOREM RestoresGoBeforeRequests == ASSUME ~OthersLag PROVE Spec => RestoresGoFirst
<1>. DEFINE NoLive == \A u \in UUIDs : dbr'[u].count > dbr[u].count /\ localFresh
                                         => nar[owner[u]] # "live"
<1>1. ASSUME KInv, [Next]_vars PROVE NoLive
  <2>. SUFFICES ASSUME NEW u \in UUIDs, dbr'[u].count > dbr[u].count, localFresh
                PROVE  nar[owner[u]] # "live"
    OBVIOUS
  <2>1. KInv'
    BY <1>1, KNextOK
  <2>2. dbr[u].count = 0 /\ dbr'[u].count # 0
    <3>1. /\ dbr[u].count \in Nat /\ dbr'[u].count \in Nat
          /\ dbr[u].count <= 1 /\ dbr'[u].count <= 1
      BY <1>1, <2>1 DEF KInv, RequestsOK, JInv, IInv, TypeOK, Requests
    <3>2. QED
      BY <3>1
  <2>3. RequestDeletion
    BY <1>1, <2>2, OnlyRequestDeletionAdds DEF NoneAdded
  <2>4. u = local.uuid
    <3>1. UNCHANGED dbr \/ \E requests : SetRequests(local.uuid, requests)
      BY <2>3 DEF RequestDeletion, RemoveFinalizer, veleroVars
    <3>2. u # local.uuid => dbr'[u] = dbr[u]
      BY <1>1, <3>1 DEF SetRequests, KInv, JInv, IInv, TypeOK
    <3>3. QED
      BY <2>2, <3>2
  <2>5. local = nab[cur] /\ cur \in Names /\ u # NoUUID
    BY <1>1, NamesAssumption DEF KInv, JInv, IInv, CopiesOK
  <2>6. owner[u] = cur
    BY <1>1, <2>4, <2>5 DEF KInv, JInv, NABsOK, NABOK
  <2>7. QED
    BY <1>1, <2>3, <2>6 DEF KInv, DeletionOK, RequestDeletion
<1>2. QED
  BY <1>1, KInvariance, PTL DEF Spec, RestoresGoFirst

\* A NAB that goes away without spec.deleteBackup leaves no DeleteBackupRequest
\* behind: the worker takes the finalizer off by a copy that is the stored NAB, so
\* it runs the path that has removed the requests.
THEOREM NoRequestIsLeft == ASSUME ~OthersLag PROVE Spec => RequestWithdrawn
<1>. DEFINE Withdrawn == \A n \in Names :
              /\ nab[n].exists /\ ~nab'[n].exists
              /\ nab[n].finalizer /\ ~nab[n].deleteBackup
              => dbr[nab[n].uuid].count = 0
<1>1. ASSUME KInv, [Next]_vars PROVE Withdrawn
  <2>. SUFFICES ASSUME NEW n \in Names, nab[n].exists, ~nab'[n].exists,
                       nab[n].finalizer, ~nab[n].deleteBackup
                PROVE  dbr[nab[n].uuid].count = 0
    OBVIOUS
  <2>1. ~nab'[n].finalizer
    BY <1>1, NextOK DEF KInv, JInv, NABsOK, NABOK
  <2>2. RequestDeletion \/ DeleteBackup
    BY <1>1, <2>1, OnlyDeletionRemoves DEF HeldKept
  <2>3. pc \in {"requestDeletion", "deleteBackup"} /\ cur \in Names
    BY <1>1, <2>2 DEF RequestDeletion, DeleteBackup, KInv, JInv, IInv, CopiesOK
  <2>4. UNCHANGED nab \/ (localFresh /\ \E obj : nab' = [nab EXCEPT ![cur] = obj])
    <3>1. ASSUME NEW obj, NEW event, NEW step, Update(obj, event, step)
          PROVE  UNCHANGED nab \/ (localFresh /\ nab' = [nab EXCEPT ![cur] = obj])
      BY <3>1 DEF Update, Changed, nabVars
    <3>2. ASSUME NEW status, SyncRequest(status)
          PROVE  UNCHANGED nab \/ (localFresh /\ \E o : nab' = [nab EXCEPT ![cur] = o])
      BY <3>1, <3>2 DEF SyncRequest, UpdateIfChanged, nabVars
    <3>3. ASSUME RemoveFinalizer
          PROVE  UNCHANGED nab \/ (localFresh /\ \E o : nab' = [nab EXCEPT ![cur] = o])
      BY <3>1, <3>3 DEF RemoveFinalizer
    <3>4. QED
      BY <2>2, <3>2, <3>3 DEF RequestDeletion, DeleteBackup, nabVars
  <2>5. localFresh /\ n = cur /\ local = nab[n]
    BY <1>1, <2>3, <2>4 DEF KInv, JInv, IInv, TypeOK, CopiesOK
  <2>6. nab[n].uuid # NoUUID
    BY <1>1 DEF KInv, JInv, IInv, StoredOK, Guarded
  <2>7. QED
    BY <1>1, <2>3, <2>5, <2>6 DEF KInv, DeletionOK
<1>2. QED
  BY <1>1, KInvariance, PTL DEF Spec, RequestWithdrawn
=============================================================================
