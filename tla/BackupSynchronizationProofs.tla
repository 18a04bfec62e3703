--------------------- MODULE BackupSynchronizationProofs ---------------------
(***************************************************************************)
(* The controller together with the synchronizer and the garbage collector *)
(* implements the specification of the controller alone, so every theorem  *)
(* of NonAdminBackupProofs and BackupLifecycleProofs holds of the three.   *)
(* What is about the composition is that the collector spares the Velero   *)
(* Backups of NABs without the sync label, however old the cache it looks  *)
(* at; the second half of the module proves it.                            *)
(***************************************************************************)
EXTENDS BackupSynchronization, BackupLifecycleProofs

SyncInv == IInv /\ PassesOK

-----------------------------------------------------------------------------
\* A NACUUID that was given to a NAB is never taken back.
LEMMA OwnerKept ==
  ASSUME IInv, Operation \/ Restart
  PROVE  \A u \in UUIDs : owner[u] \in Names => owner'[u] \in Names
<1>1. ASSUME NEW n \in Names, Reconcile(n) \/ DeliverNAB(n) \/ RestoreGone(n)
      PROVE  owner' = owner
  BY <1>1 DEF Reconcile, DeliverNAB, RestoreGone
<1>2. ASSUME NEW n \in Names, User(n) PROVE owner' = owner
  BY <1>2 DEF User, CreateNAB, EditSpec, SetDeleteBackup, DeleteNAB, CreateRestore, UserWrites
<1>3. ASSUME NEW u \in UUIDs, DeliverBackup(u) \/ DeliverRequests(u) \/ OtherEvent(u)
      PROVE  owner' = owner
  BY <1>3 DEF DeliverBackup, DeliverRequests, OtherEvent
<1>4. ASSUME NEW u \in UUIDs, Velero(u) PROVE owner' = owner
  BY <1>4 DEF Velero, CompleteBackup, ProcessRequest, ExpireBackup, Purge, RejectRequest,
              ExpireRequest, ResyncBackup, VeleroSets
<1>5. CASE CallFails \/ Restart
  BY <1>5 DEF CallFails, Restart
<1>6. ASSUME MarkDelete \/ CallDelete \/ DeleteRestores \/ RequestDeletion
             \/ MarkDirect \/ DeleteRequests \/ DeleteBackup \/ InitCreate
             \/ ValidateSpec \/ SetFinalizer \/ CreateBackup \/ SyncStatus
      PROVE  owner' = owner
  BY <1>6 DEF MarkDelete, CallDelete, DeleteRestores, RequestDeletion, MarkDirect,
              DeleteRequests, DeleteBackup, InitCreate, ValidateSpec, SetFinalizer,
              CreateBackup, SyncStatus
<1>7. CASE SetBackupUUID
  <2>1. cur \in Names /\ owner \in [UUIDs -> Names \union {NoName}]
    BY <1>7 DEF IInv, TypeOK, CopiesOK, SetBackupUUID
  <2>2. owner' = owner \/ \E u : owner' = [owner EXCEPT ![u] = cur]
    BY <1>7 DEF SetBackupUUID
  <2>3. QED
    BY <2>1, <2>2
<1>8. QED
  BY <1>1, <1>2, <1>3, <1>4, <1>5, <1>6, <1>7 DEF Operation, Step

\* Every step of the composition is a step of the controller's specification.
LEMMA SyncStepSimulates == ASSUME SyncInv, [SyncNext]_allVars PROVE [Next]_vars
<1>1. CASE Operation \/ Restart
  BY <1>1 DEF Next
<1>2. CASE SyncList \/ (\E u \in UUIDs : SyncLookup(u) \/ CollectFind(u)) \/ UNCHANGED allVars
  BY <1>2 DEF SyncList, SyncLookup, CollectFind, allVars
<1>3. ASSUME NEW u \in UUIDs, CreateMissing(u) PROVE [Next]_vars
  <2>1. owner[u] \in Names
    BY <1>3 DEF SyncInv, PassesOK, CreateMissing
  <2>2. QED
    BY <1>3, <2>1 DEF CreateMissing, Next
<1>4. CASE CollectDelete
  <2>1. collecting \in UUIDs
    BY <1>4 DEF SyncInv, PassesOK, CollectDelete
  <2>2. QED
    BY <1>4, <2>1 DEF CollectDelete, Next
<1>5. QED
  BY <1>1, <1>2, <1>3, <1>4 DEF SyncNext

LEMMA SyncInitOK == SyncInit => SyncInv /\ Init
BY InitOK DEF SyncInit, SyncInv, PassesOK

LEMMA SyncNextInv == ASSUME SyncInv, [SyncNext]_allVars PROVE SyncInv'
<1>1. IInv'
  BY SyncStepSimulates, NextInv DEF SyncInv
<1>2. PassesOK'
  <2>1. CASE Operation /\ UNCHANGED passes
    BY <2>1, OwnerKept DEF SyncInv, PassesOK, passes
  <2>2. CASE Restart /\ listed' = {} /\ missing' = {} /\ collecting' = NoUUID
    BY <2>2 DEF PassesOK
  <2>3. CASE SyncList
    BY <2>3 DEF SyncInv, IInv, BackupsOwned, PassesOK, SyncList, vars
  <2>4. ASSUME NEW u \in UUIDs, SyncLookup(u) PROVE PassesOK'
    BY <2>4 DEF SyncInv, PassesOK, SyncLookup, vars
  <2>5. ASSUME NEW u \in UUIDs, CreateMissing(u) PROVE PassesOK'
    <3>1. UNCHANGED <<owner, listed, collecting>> /\ missing' \subseteq missing
      BY <2>5 DEF CreateMissing, SyncCreate, vars
    <3>2. QED
      BY <3>1 DEF SyncInv, PassesOK
  <2>6. ASSUME CollectDelete \/ (\E u \in UUIDs : CollectFind(u)) \/ UNCHANGED allVars
        PROVE  PassesOK'
    <3>1. UNCHANGED <<owner, listed, missing>> /\ collecting' \in UUIDs \union {NoUUID}
      BY <2>6 DEF CollectDelete, CollectFind, CollectBackup, VeleroSets, allVars, passes, vars,
                  SyncInv, PassesOK
    <3>2. QED
      BY <3>1 DEF SyncInv, PassesOK
  <2>7. QED
    BY <2>1, <2>2, <2>3, <2>4, <2>5, <2>6 DEF SyncNext
<1>3. QED
  BY <1>1, <1>2 DEF SyncInv

LEMMA SyncInvariance == SyncSpec => []SyncInv
<1>1. SyncInit => SyncInv
  BY SyncInitOK
<1>2. SyncInv /\ [SyncNext]_allVars => SyncInv'
  BY SyncNextInv
<1>3. QED
  BY <1>1, <1>2, PTL DEF SyncSpec

-----------------------------------------------------------------------------
\* The synchronizer and the collector, acting on findings however old, take no
\* step that the controller's specification does not allow.
THEOREM SyncImplementsController == SyncSpec => ControllerSpec
<1>1. SyncInit => Init
  BY SyncInitOK
<1>2. SyncInv /\ [SyncNext]_allVars => [Next]_vars
  BY SyncStepSimulates
<1>3. QED
  BY <1>1, <1>2, SyncInvariance, PTL DEF SyncSpec, ControllerSpec, Spec

\* What the passes hold are backups of NABs: the synchronizer never creates a
\* NAB for a name that is none, the collector deletes nothing but backups.
THEOREM PassesTypeCorrect == SyncSpec => []PassesOK
<1>1. SyncInv => PassesOK
  BY DEF SyncInv
<1>2. QED
  BY <1>1, SyncInvariance, PTL

\* With the two running the finalizer is on every Created NAB, and a NACUUID is
\* never replaced.
THEOREM SyncKeepsGuards == SyncSpec => []NABGuarded /\ UUIDStable
BY SyncImplementsController, AlwaysGuarded, NACUUIDIsStable, PTL DEF ControllerSpec

\* With the two running a NAB is identified, then held, and only then does its
\* backup run.
THEOREM SyncImplementsLifecycle == ASSUME ~OthersLag PROVE SyncSpec => LifecycleKept
BY SyncImplementsController, ControllerImplementsLifecycle, PTL DEF ControllerSpec

\* With the two running restores (but for late ones) go before a
\* DeleteBackupRequest, and none of these outlives a NAB that is not to take its
\* backup along.
THEOREM SyncKeepsDeletionOrder ==
  ASSUME ~OthersLag PROVE SyncSpec => RestoresGoFirst /\ RequestWithdrawn
BY SyncImplementsController, RestoresGoBeforeRequests, NoRequestIsLeft, PTL DEF ControllerSpec

-----------------------------------------------------------------------------
(***************************************************************************)
(* The collector and NABs without the sync label.  One that has a NACUUID  *)
(* is the one the NACUUID was drawn for: no later NAB of its name has it   *)
(* without the label.  So it was in the cache when it got the NACUUID, it  *)
(* is in the cache as long as it is stored, and a copy of a NAB that has   *)
(* the NACUUID is a copy of it.                                            *)
(***************************************************************************)
Original(obj) == obj.uuid # NoUUID /\ obj.syncLabel = NoUUID

Belongs(n, obj) ==
  /\ obj.uuid # NoUUID => owner[obj.uuid] = n
  /\ obj.syncLabel # NoUUID => owner[obj.syncLabel] = n

\* What copy says of its end is true of the stored NAB n.
EndsAlike(n, copy) ==
  Original(nab[n]) /\ copy.uuid = nab[n].uuid /\ copy.deletionTimestamp
    => nab[n].deletionTimestamp

OriginsOK ==
  /\ \A n \in Names : /\ Belongs(n, nab[n]) /\ Belongs(n, cache[n]) /\ EndsAlike(n, cache[n])
                      /\ Original(nab[n]) => nab[n].exists /\ cache[n].exists
  /\ pc # "idle" => Belongs(cur, local) /\ EndsAlike(cur, local)
  /\ pc \in {"markDirect", "deleteRequests", "deleteBackup"} => local.deletionTimestamp
  /\ \A u \in UUIDs : vb[u] = "Completed" => store[u]

CollectingOK ==
  LET obj == nab[owner[collecting]] IN
  collecting # NoUUID =>
    /\ owner[collecting] \in Names
    /\ obj.uuid = collecting => obj.syncLabel # NoUUID

\* What a step may do to NACUUIDs, to a NAB, to the caches and to the worker's copy.
OwnerGrows == \A u \in UUIDs : owner'[u] = owner[u] \/ owner[u] = NoName

SameOrigin(a, b) == a.uuid = b.uuid /\ a.syncLabel = b.syncLabel /\ a.exists = b.exists
SameCopy(a, b)   == SameOrigin(a, b) /\ a.deletionTimestamp = b.deletionTimestamp

Identified(n, u) ==
  /\ SameCopy([nab'[n] EXCEPT !.uuid = nab[n].uuid], nab[n])
  /\ nab[n].exists /\ cache[n].exists
  /\ nab'[n].uuid = u /\ owner'[u] = n /\ (nab[n].syncLabel = u \/ owner[u] = NoName)

NABDrifts(n) ==
  \/ /\ SameOrigin(nab'[n], nab[n])
     /\ nab[n].deletionTimestamp => nab'[n].deletionTimestamp
  \/ /\ nab'[n].uuid = NoUUID
     /\ nab'[n].syncLabel # NoUUID => owner'[nab'[n].syncLabel] = n
  \/ \E u \in UUIDs : Identified(n, u)

LocalDrifts ==
  pc' # "idle" => \/ pc # "idle" /\ cur' = cur /\ SameCopy(local', local)
                  \/ local' = nab'[cur'] \/ local' = cache'[cur']

Drifts == OwnerGrows /\ (\A n \in Names : NABDrifts(n)) /\ CacheFollows /\ LocalDrifts

LEMMA BelongsKept ==
  ASSUME OwnerGrows, NEW n \in Names, NEW obj \in NABs, Belongs(n, obj)
  PROVE  Belongs(n, obj)'
BY NamesAssumption DEF OwnerGrows, Belongs, NABs

\* A copy that belonged to its NAB still does, whatever becomes of the NAB.
LEMMA CopyKept ==
  ASSUME IInv, IInv', OriginsOK, Drifts, NEW n \in Names, NEW copy \in NABs,
         Belongs(n, copy), EndsAlike(n, copy)
  PROVE  Belongs(n, copy)' /\ EndsAlike(n, copy)'
<1>1. Belongs(n, copy)'
  BY BelongsKept DEF Drifts
<1>2. EndsAlike(n, copy)'
  <2>1. CASE SameOrigin(nab'[n], nab[n])
             /\ (nab[n].deletionTimestamp => nab'[n].deletionTimestamp)
    BY <2>1 DEF EndsAlike, Original, SameOrigin
  <2>2. CASE nab'[n].uuid = NoUUID
    BY <2>2 DEF EndsAlike, Original
  <2>3. ASSUME NEW u \in UUIDs, Identified(n, u) PROVE EndsAlike(n, copy)'
    <3>1. nab'[n].uuid = u /\ u # NoUUID /\ (nab'[n].syncLabel = u \/ owner[u] = NoName)
      BY <2>3, NamesAssumption DEF Identified, SameCopy, SameOrigin, IInv, TypeOK, NABs
    <3>2. copy.uuid = u => owner[u] # NoName
      BY <3>1, NamesAssumption DEF Belongs
    <3>3. QED
      BY <3>1, <3>2 DEF EndsAlike, Original
  <2>4. QED
    BY <2>1, <2>2, <2>3 DEF Drifts, NABDrifts
<1>3. QED
  BY <1>1, <1>2

LEMMA StoredKept ==
  ASSUME IInv, IInv', OriginsOK, Drifts, NEW n \in Names
  PROVE  Belongs(n, nab[n])' /\ (Original(nab'[n]) => nab'[n].exists /\ cache'[n].exists)
<1>1. /\ nab[n] \in NABs /\ nab'[n] \in NABs
      /\ Belongs(n, nab[n]) /\ (Original(nab[n]) => cache[n].exists)
  BY DEF IInv, TypeOK, OriginsOK
<1>2. Belongs(n, nab[n])'
  <2>1. CASE SameOrigin(nab'[n], nab[n])
    BY <1>1, <2>1, BelongsKept DEF Drifts, SameOrigin, Belongs
  <2>2. CASE /\ nab'[n].uuid = NoUUID
             /\ nab'[n].syncLabel # NoUUID => owner'[nab'[n].syncLabel] = n
    BY <2>2 DEF Belongs
  <2>3. ASSUME NEW u \in UUIDs, Identified(n, u) PROVE Belongs(n, nab[n])'
    <3>1. nab'[n].syncLabel = nab[n].syncLabel /\ nab'[n].uuid = u /\ owner'[u] = n
      BY <1>1, <2>3 DEF Identified, SameCopy, SameOrigin, NABs
    <3>2. QED
      BY <1>1, <3>1, BelongsKept DEF Drifts, Belongs
  <2>4. QED
    BY <2>1, <2>2, <2>3 DEF Drifts, NABDrifts
<1>3. Original(nab'[n]) => nab'[n].exists /\ cache'[n].exists
  <2>1. Original(nab'[n]) => nab'[n].exists /\ cache[n].exists
    <3>1. CASE SameOrigin(nab'[n], nab[n])
      <4>1. Original(nab[n]) => nab[n].exists
        BY <1>1 DEF OriginsOK, IInv, CopiesOK
      <4>2. QED
        BY <1>1, <3>1, <4>1 DEF SameOrigin, Original
    <3>2. CASE nab'[n].uuid = NoUUID
      BY <3>2 DEF Original
    <3>3. ASSUME NEW u \in UUIDs, Identified(n, u)
          PROVE  nab'[n].exists /\ cache[n].exists
      BY <1>1, <3>3 DEF Identified, SameCopy, SameOrigin, NABs
    <3>4. QED
      BY <3>1, <3>2, <3>3 DEF Drifts, NABDrifts
  <2>2. QED
    BY <2>1 DEF Drifts, CacheFollows
<1>4. QED
  BY <1>2, <1>3

LEMMA LocalKept ==
  ASSUME IInv, IInv', OriginsOK, Drifts
  PROVE  pc' # "idle" => Belongs(cur, local)' /\ EndsAlike(cur, local)'
<1>. SUFFICES ASSUME pc' # "idle" PROVE Belongs(cur, local)' /\ EndsAlike(cur, local)'
  OBVIOUS
<1>1. cur' \in Names /\ \A n \in Names : cache[n] \in NABs
  BY DEF IInv, TypeOK, CopiesOK
<1>2. CASE pc # "idle" /\ cur' = cur /\ SameCopy(local', local)
  <2>1. PICK was \in NABs : was = local
    BY DEF IInv, TypeOK
  <2>2. Belongs(cur, was) /\ EndsAlike(cur, was)
    BY <1>2, <2>1 DEF OriginsOK
  <2>3. /\ was.uuid # NoUUID => owner'[was.uuid] = cur
        /\ was.syncLabel # NoUUID => owner'[was.syncLabel] = cur
        /\ Original(nab'[cur]) /\ was.uuid = nab'[cur].uuid /\ was.deletionTimestamp
             => nab'[cur].deletionTimestamp
    BY <1>1, <1>2, <2>2, CopyKept DEF Belongs, EndsAlike
  <2>4. QED
    BY <1>1, <1>2, <2>1, <2>3 DEF SameCopy, SameOrigin, Belongs, EndsAlike
<1>3. CASE local' = nab'[cur']
  BY <1>1, <1>3, StoredKept DEF EndsAlike, Belongs
<1>4. CASE local' = cache'[cur']
  <2>1. cache'[cur'] = cache[cur'] \/ cache'[cur'] = nab'[cur']
    BY <1>1 DEF Drifts, CacheFollows
  <2>2. CASE local' = nab'[cur']
    BY <1>3, <2>2
  <2>3. CASE local' = cache[cur']
    <3>1. Belongs(cur', cache[cur']) /\ EndsAlike(cur', cache[cur']) /\ cache[cur'] \in NABs
      BY <1>1 DEF OriginsOK
    <3>2. QED
      BY <1>1, <2>3, <3>1, CopyKept DEF Belongs, EndsAlike
  <2>4. QED
    BY <1>4, <2>1, <2>2, <2>3
<1>5. QED
  BY <1>2, <1>3, <1>4 DEF Drifts, LocalDrifts

\* The rest of a step: the second deletion path is for a copy that is being
\* deleted, and Velero completes a backup when its data is stored.
PathKept ==
  pc' \in {"markDirect", "deleteRequests", "deleteBackup"} => local'.deletionTimestamp
StoreKept == \A u \in UUIDs : vb'[u] = "Completed" => store'[u]

LEMMA OriginsStep ==
  ASSUME IInv, IInv', OriginsOK, Drifts, PathKept, StoreKept PROVE OriginsOK'
<1>1. ASSUME NEW n \in Names
      PROVE  Belongs(n, cache[n])' /\ EndsAlike(n, cache[n])'
  <2>1. cache[n] \in NABs /\ Belongs(n, cache[n]) /\ EndsAlike(n, cache[n])
    BY DEF IInv, TypeOK, OriginsOK
  <2>2. CASE cache'[n] = cache[n]
    BY <2>1, <2>2, CopyKept DEF Belongs, EndsAlike
  <2>3. CASE cache'[n] = nab'[n]
    BY <2>3, StoredKept DEF Belongs, EndsAlike
  <2>4. QED
    BY <2>2, <2>3 DEF Drifts, CacheFollows
<1>2. QED
  BY <1>1, StoredKept, LocalKept DEF OriginsOK, PathKept, StoreKept

-----------------------------------------------------------------------------
(***************************************************************************)
(* Every action drifts.                                                    *)
(***************************************************************************)
LEMMA ChangedDrifts ==
  ASSUME IInv, NEW n \in Names, NEW obj, NEW event, Changed(n, obj, event),
         \/ /\ SameOrigin(obj, nab[n])
            /\ nab[n].deletionTimestamp => obj.deletionTimestamp
         \/ /\ obj.uuid = NoUUID
            /\ obj.syncLabel # NoUUID => owner'[obj.syncLabel] = n
  PROVE  (\A m \in Names : NABDrifts(m)) /\ CacheFollows
<1>1. nab'[n] = obj /\ cache' = cache /\ \A m \in Names \ {n} : nab'[m] = nab[m]
  BY DEF IInv, TypeOK, Changed
<1>2. QED
  BY <1>1 DEF NABDrifts, SameOrigin, CacheFollows

LEMMA WriteDrifts ==
  ASSUME IInv, pc # "idle", owner' = owner, NEW obj, NEW step, NEW event,
         SameCopy(obj, local) \/ (obj = NoNAB /\ step = "idle"),
         \/ Update(obj, event, step)
         \/ UpdateIfChanged(obj, step)
         \/ Continue(step, obj) /\ UNCHANGED nabVars
  PROVE  Drifts /\ (pc' = "idle" \/ Advances(step, obj))
<1>1. cur \in Names /\ (localFresh => local = nab[cur])
  BY DEF IInv, CopiesOK
<1>2. ASSUME Continue(step, obj) PROVE pc' = "idle" \/ Advances(step, obj)
  BY <1>2 DEF Continue, Exit, Return, Advances
<1>3. ASSUME NEW e, localFresh, Changed(cur, obj, e)
      PROVE  (\A n \in Names : NABDrifts(n)) /\ CacheFollows
  <2>1. CASE SameCopy(obj, local)
    BY <1>1, <1>3, <2>1, ChangedDrifts DEF SameCopy, SameOrigin
  <2>2. CASE obj = NoNAB
    <3>1. obj.uuid = NoUUID /\ obj.syncLabel = NoUUID
      BY <2>2 DEF NoNAB, NewNAB
    <3>2. QED
      BY <1>1, <1>3, <3>1, ChangedDrifts
  <2>3. QED
    BY <2>1, <2>2
<1>4. ASSUME UNCHANGED nabVars PROVE (\A n \in Names : NABDrifts(n)) /\ CacheFollows
  BY <1>4 DEF nabVars, NABDrifts, SameOrigin, CacheFollows
<1>5. ASSUME NEW e, Update(obj, e, step)
      PROVE  /\ (\A n \in Names : NABDrifts(n)) /\ CacheFollows
             /\ pc' = "idle" \/ Advances(step, obj)
  BY <1>2, <1>3, <1>4, <1>5 DEF Update, Requeue, Return
<1>6. /\ (\A n \in Names : NABDrifts(n)) /\ CacheFollows
      /\ pc' = "idle" \/ Advances(step, obj)
  BY <1>2, <1>4, <1>5 DEF UpdateIfChanged
<1>7. LocalDrifts
  BY <1>6 DEF LocalDrifts, Advances, Continue, SameCopy
<1>8. OwnerGrows
  BY DEF OwnerGrows
<1>9. QED
  BY <1>6, <1>7, <1>8 DEF Drifts

LEMMA SameCopies ==
  ASSUME NEW obj \in NABs
  PROVE  /\ SameCopy(obj, obj)
         /\ SameCopy([obj EXCEPT !.phase = "Deleting", !.deleting = "accepted"], obj)
         /\ SameCopy([obj EXCEPT !.phase = "Deleting", !.deleting = "direct"], obj)
         /\ SameCopy([obj EXCEPT !.phase = "BackingOff", !.accepted = "False"], obj)
         /\ SameCopy([obj EXCEPT !.phase = "New"], obj)
         /\ SameCopy([obj EXCEPT !.accepted = "True"], obj)
         /\ SameCopy([obj EXCEPT !.finalizer = TRUE], obj)
         /\ \A status : SameCopy([obj EXCEPT !.dbrStatus = status], obj)
         /\ \A seen : SameCopy([obj EXCEPT !.phase = "Created", !.queued = TRUE,
                                           !.mirror = seen], obj)
         /\ SameCopy(WithoutFinalizer(obj), obj) \/ WithoutFinalizer(obj) = NoNAB
BY DEF NABs, SameCopy, SameOrigin, WithoutFinalizer

\* Nobody writes a NAB or a NACUUID, and the worker stays where it is or ends.
LEMMA NothingDrifts ==
  ASSUME UNCHANGED <<nabVars, owner>>,
         pc' = "idle" \/ UNCHANGED <<pc, cur, local>>
  PROVE  Drifts
BY DEF Drifts, OwnerGrows, NABDrifts, SameOrigin, CacheFollows, LocalDrifts, SameCopy, nabVars

LEMMA WorkerDrifts ==
  ASSUME IInv, OriginsOK, MarkDelete \/ MarkDirect \/ DeleteRestores \/ DeleteRequests
                          \/ InitCreate \/ ValidateSpec \/ SetFinalizer \/ SyncStatus
  PROVE  Drifts /\ PathKept
<1>1. local \in NABs
  BY DEF IInv, TypeOK
<1>2. owner' = owner
  BY DEF MarkDelete, MarkDirect, DeleteRestores, DeleteRequests, InitCreate, ValidateSpec,
         SetFinalizer, SyncStatus
<1>3. CASE MarkDelete
  <2>. DEFINE obj == [local EXCEPT !.phase = "Deleting", !.deleting = "accepted"]
              step == IF local.deletionTimestamp THEN "deleteRestores" ELSE "callDelete"
  <2>1. pc # "idle" /\ SameCopy(obj, local) /\ UpdateIfChanged(obj, step)
    BY <1>1, <1>3, SameCopies DEF MarkDelete
  <2>2. step \in {"deleteRestores", "callDelete"}
    OBVIOUS
  <2>. HIDE DEF obj, step
  <2>3. Drifts /\ (pc' = "idle" \/ Advances(step, obj))
    BY <1>2, <2>1, WriteDrifts
  <2>4. QED
    BY <2>2, <2>3 DEF PathKept, Advances
<1>4. CASE MarkDirect
  <2>. DEFINE obj == [local EXCEPT !.phase = "Deleting", !.deleting = "direct"]
  <2>1. pc # "idle" /\ SameCopy(obj, local) /\ UpdateIfChanged(obj, "deleteRequests")
    BY <1>1, <1>4, SameCopies DEF MarkDirect
  <2>2. local.deletionTimestamp
    BY <1>4 DEF OriginsOK, MarkDirect
  <2>. HIDE DEF obj
  <2>3. Drifts /\ (pc' = "idle" \/ Advances("deleteRequests", obj))
    BY <1>2, <2>1, WriteDrifts
  <2>4. QED
    BY <2>1, <2>2, <2>3 DEF PathKept, Advances, SameCopy
<1>5. CASE DeleteRestores \/ DeleteRequests
  <2>1. UNCHANGED nabVars /\ pc # "idle"
    BY <1>5 DEF DeleteRestores, DeleteRequests
  <2>2. \/ pc' = "idle"
        \/ pc' = "requestDeletion" /\ UNCHANGED <<cur, local>>
        \/ pc = "deleteRequests" /\ UNCHANGED <<cur, local>>
    BY <1>5 DEF DeleteRestores, DeleteRequests, Continue, Requeue, Return
  <2>3. Drifts
    BY <1>2, <2>1, <2>2 DEF Drifts, OwnerGrows, NABDrifts, SameOrigin, CacheFollows,
                            LocalDrifts, SameCopy, nabVars
  <2>4. QED
    BY <2>2, <2>3 DEF PathKept, OriginsOK
<1>6. CASE InitCreate
  <2>. DEFINE obj == [local EXCEPT !.phase = "New"]
  <2>1. /\ pc # "idle" /\ SameCopy(obj, local) /\ SameCopy(local, local)
        /\ \/ Continue("validate", local) /\ UNCHANGED nabVars
           \/ Update(obj, FALSE, "validate")
    BY <1>1, <1>6, SameCopies DEF InitCreate
  <2>. HIDE DEF obj
  <2>2. Drifts /\ (pc' = "idle" \/ pc' = "validate")
    BY <1>2, <2>1, WriteDrifts DEF Advances
  <2>3. QED
    BY <2>2 DEF PathKept
<1>7. CASE ValidateSpec
  <2>. DEFINE accepted == [local EXCEPT !.accepted = "True"]
              refused == [local EXCEPT !.phase = "BackingOff", !.accepted = "False"]
  <2>1. /\ pc # "idle" /\ SameCopy(accepted, local) /\ SameCopy(refused, local)
        /\ UpdateIfChanged(accepted, "setUUID") \/ UpdateIfChanged(refused, "idle")
    BY <1>1, <1>7, SameCopies DEF ValidateSpec
  <2>. HIDE DEF accepted, refused
  <2>2. Drifts /\ (pc' = "idle" \/ pc' = "setUUID")
    BY <1>2, <2>1, WriteDrifts DEF Advances
  <2>3. QED
    BY <2>2 DEF PathKept
<1>8. CASE SetFinalizer
  <2>. DEFINE obj == [local EXCEPT !.finalizer = TRUE]
  <2>1. pc # "idle" /\ SameCopy(obj, local) /\ UpdateIfChanged(obj, "createBackup")
    BY <1>1, <1>8, SameCopies DEF SetFinalizer
  <2>. HIDE DEF obj
  <2>2. Drifts /\ (pc' = "idle" \/ pc' = "createBackup")
    BY <1>2, <2>1, WriteDrifts DEF Advances
  <2>3. QED
    BY <2>2 DEF PathKept
<1>9. CASE SyncStatus
  <2>. DEFINE obj == [local EXCEPT !.phase = "Created", !.queued = TRUE, !.mirror = vbRead]
  <2>1. pc # "idle" /\ SameCopy(obj, local) /\ Update(obj, FALSE, "idle")
    BY <1>1, <1>9, SameCopies DEF SyncStatus
  <2>. HIDE DEF obj
  <2>2. Drifts /\ pc' = "idle"
    BY <1>2, <2>1, WriteDrifts DEF Advances
  <2>3. QED
    BY <2>2 DEF PathKept
<1>10. QED
  BY <1>3, <1>4, <1>5, <1>6, <1>7, <1>8, <1>9

\* A Delete call on a NAB, by the worker or a user.
LEMMA DeletedDrifts ==
  ASSUME NEW obj \in NABs
  PROVE  \/ SameOrigin(Deleted(obj), obj) /\ Deleted(obj).deletionTimestamp
         \/ Deleted(obj).uuid = NoUUID /\ Deleted(obj).syncLabel = NoUUID
BY DEF Deleted, NABs, SameOrigin, NoNAB, NewNAB

LEMMA CallDeleteDrifts == ASSUME IInv, CallDelete PROVE Drifts /\ PathKept
<1>1. cur \in Names /\ nab[cur] \in NABs /\ pc' = "idle" /\ owner' = owner
  BY DEF IInv, TypeOK, CopiesOK, CallDelete, Requeue, Return
<1>2. CASE UNCHANGED nabVars
  BY <1>1, <1>2, NothingDrifts DEF PathKept
<1>3. CASE Changed(cur, Deleted(nab[cur]), TRUE)
  <2>1. (\A n \in Names : NABDrifts(n)) /\ CacheFollows
    BY <1>1, <1>3, DeletedDrifts, ChangedDrifts
  <2>2. QED
    BY <1>1, <2>1 DEF Drifts, OwnerGrows, LocalDrifts, PathKept
<1>4. QED
  BY <1>2, <1>3 DEF CallDelete

LEMMA BackupStepDrifts ==
  ASSUME IInv, RequestDeletion \/ DeleteBackup \/ CreateBackup
  PROVE  Drifts /\ PathKept
<1>1. local \in NABs /\ pc # "idle" /\ owner' = owner
  BY DEF IInv, TypeOK, RequestDeletion, DeleteBackup, CreateBackup
<1>2. ASSUME RemoveFinalizer PROVE Drifts /\ pc' = "idle"
  <2>. DEFINE obj == WithoutFinalizer(local)
  <2>1. Update(obj, TRUE, "idle") /\ (SameCopy(obj, local) \/ obj = NoNAB)
    BY <1>1, <1>2, SameCopies DEF RemoveFinalizer
  <2>. HIDE DEF obj
  <2>2. QED
    BY <1>1, <2>1, WriteDrifts DEF Advances
<1>3. ASSUME NEW status, SyncRequest(status) PROVE Drifts /\ pc' = "idle"
  <2>. DEFINE obj == [local EXCEPT !.dbrStatus = status]
  <2>1. SameCopy(obj, local) /\ UpdateIfChanged(obj, "idle")
    BY <1>1, <1>3, SameCopies DEF SyncRequest
  <2>. HIDE DEF obj
  <2>2. QED
    BY <1>1, <2>1, WriteDrifts DEF Advances
<1>4. CASE RequestDeletion
  <2>1. \/ pc' = "idle" /\ UNCHANGED nabVars
        \/ RemoveFinalizer
        \/ \E status : SyncRequest(status)
    BY <1>4 DEF RequestDeletion, Exit, Requeue, Return
  <2>2. ASSUME pc' = "idle", UNCHANGED nabVars PROVE Drifts /\ pc' = "idle"
    BY <1>1, <2>2, NothingDrifts
  <2>3. QED
    BY <1>2, <1>3, <2>1, <2>2 DEF PathKept
<1>5. CASE DeleteBackup
  <2>1. (pc' = "idle" /\ UNCHANGED nabVars) \/ RemoveFinalizer
    BY <1>5 DEF DeleteBackup, Exit, Requeue, Return
  <2>2. QED
    BY <1>1, <1>2, <2>1, NothingDrifts DEF PathKept
<1>6. CASE CreateBackup
  <2>. DEFINE refused == [local EXCEPT !.phase = "BackingOff", !.accepted = "False"]
  <2>1. SameCopy(refused, local)
    BY <1>1, SameCopies
  <2>2. \/ UpdateIfChanged(refused, "idle")
        \/ UNCHANGED nabVars /\ pc' = "idle"
        \/ UNCHANGED <<nabVars, cur, local>> /\ pc' = "syncStatus"
    BY <1>6 DEF CreateBackup, Requeue, Return
  <2>. HIDE DEF refused
  <2>3. CASE UpdateIfChanged(refused, "idle")
    BY <1>1, <2>1, <2>3, WriteDrifts DEF Advances, PathKept
  <2>4. CASE UNCHANGED nabVars /\ pc' = "idle"
    BY <1>1, <2>4, NothingDrifts DEF PathKept
  <2>5. CASE UNCHANGED <<nabVars, cur, local>> /\ pc' = "syncStatus"
    BY <1>1, <2>5 DEF Drifts, OwnerGrows, NABDrifts, SameOrigin, CacheFollows,
                      LocalDrifts, SameCopy, PathKept, nabVars
  <2>6. QED
    BY <2>2, <2>3, <2>4, <2>5
<1>7. QED
  BY <1>4, <1>5, <1>6

LEMMA SetBackupUUIDDrifts ==
  ASSUME IInv, OriginsOK, SetBackupUUID PROVE Drifts /\ PathKept
<1>. DEFINE again == cache[cur]
<1>1. /\ cur \in Names /\ again \in NABs /\ nab \in [Names -> NABs]
      /\ owner \in [UUIDs -> Names \union {NoName}]
  BY DEF IInv, TypeOK, CopiesOK, SetBackupUUID
<1>2. CASE Requeue /\ UNCHANGED <<nabVars, owner>>
  BY <1>2, NothingDrifts DEF Requeue, Return, PathKept
<1>3. CASE /\ pc' = "setFinalizer" /\ local' = again
           /\ UNCHANGED <<nabVars, owner, cur>>
  BY <1>3 DEF Drifts, OwnerGrows, NABDrifts, SameOrigin, CacheFollows, LocalDrifts, PathKept,
              nabVars
<1>4. ASSUME again.exists, again.uuid = NoUUID, cacheFresh[cur], NEW u,
             (u = again.syncLabel /\ u # NoUUID) \/ (u \in UUIDs /\ owner[u] = NoName),
             Changed(cur, [again EXCEPT !.uuid = u], FALSE),
             owner' = [owner EXCEPT ![u] = cur],
             local' = [again EXCEPT !.uuid = u],
             pc' = "setFinalizer", cur' = cur
      PROVE  Drifts /\ PathKept
  <2>1. again = nab[cur] /\ u \in UUIDs /\ (owner[u] = cur \/ owner[u] = NoName)
    BY <1>1, <1>4 DEF IInv, CopiesOK, OriginsOK, Belongs, NABs
  <2>2. /\ nab' = [nab EXCEPT ![cur] = [again EXCEPT !.uuid = u]] /\ cache' = cache
        /\ owner'[u] = cur /\ local' = nab'[cur'] /\ OwnerGrows
    BY <1>1, <1>4, <2>1 DEF Changed, OwnerGrows
  <2>3. Identified(cur, u)
    BY <1>1, <1>4, <2>1, <2>2 DEF Identified, SameCopy, SameOrigin, NABs
  <2>4. \A n \in Names : NABDrifts(n)
    BY <1>1, <2>1, <2>2, <2>3 DEF NABDrifts, SameOrigin
  <2>5. QED
    BY <1>4, <2>2, <2>4 DEF Drifts, CacheFollows, LocalDrifts, PathKept
<1>5. QED
  <2>1. CASE /\ again.exists /\ again.uuid = NoUUID /\ cacheFresh[cur]
             /\ \E u \in IF again.syncLabel # NoUUID THEN {again.syncLabel}
                         ELSE {u \in UUIDs : owner[u] = NoName} :
                  /\ Changed(cur, [again EXCEPT !.uuid = u], FALSE)
                  /\ owner' = [owner EXCEPT ![u] = cur]
                  /\ local' = [again EXCEPT !.uuid = u]
             /\ pc' = "setFinalizer" /\ cur' = cur
    BY <1>4, <2>1
  <2>2. QED
    BY <1>2, <1>3, <2>1 DEF SetBackupUUID

LEMMA StepDrifts == ASSUME IInv, OriginsOK, Step PROVE Drifts /\ PathKept
BY WorkerDrifts, CallDeleteDrifts, BackupStepDrifts, SetBackupUUIDDrifts DEF Step

LEMMA ReconcileDrifts ==
  ASSUME IInv, OriginsOK, NEW n \in Names, Reconcile(n) PROVE Drifts /\ PathKept
<1>1. UNCHANGED <<nabVars, owner>> /\ pc = "idle"
  BY DEF Reconcile
<1>2. CASE cache[n].exists
  <2>1. cur' = n /\ local' = cache'[cur'] /\ pc' = Path(local')
    BY <1>1, <1>2 DEF Reconcile, nabVars
  <2>2. Drifts
    BY <1>1, <2>1 DEF Drifts, OwnerGrows, NABDrifts, SameOrigin, CacheFollows, LocalDrifts,
                      nabVars
  <2>3. PathKept
    BY <2>1 DEF PathKept, Path
  <2>4. QED
    BY <2>2, <2>3
<1>3. CASE ~cache[n].exists
  BY <1>1, <1>3, NothingDrifts DEF Reconcile, PathKept
<1>4. QED
  BY <1>2, <1>3

\* The worker stands still: its path is what it was.
LEMMA PathStays == ASSUME OriginsOK, UNCHANGED <<pc, local>> PROVE PathKept
BY DEF OriginsOK, PathKept

LEMMA ForeignDrifts ==
  ASSUME IInv, OriginsOK, NEW n \in Names, NEW obj, NEW event, Changed(n, obj, event),
         UNCHANGED <<owner, pc, cur, local>>,
         \/ /\ SameOrigin(obj, nab[n])
            /\ nab[n].deletionTimestamp => obj.deletionTimestamp
         \/ /\ obj.uuid = NoUUID
            /\ obj.syncLabel # NoUUID => owner'[obj.syncLabel] = n
  PROVE  Drifts /\ PathKept
<1>1. (\A m \in Names : NABDrifts(m)) /\ CacheFollows
  BY ChangedDrifts
<1>2. OwnerGrows /\ LocalDrifts
  BY DEF OwnerGrows, LocalDrifts, SameCopy, SameOrigin
<1>3. QED
  BY <1>1, <1>2, PathStays DEF Drifts

LEMMA UserDrifts ==
  ASSUME IInv, OriginsOK, NEW n \in Names, User(n) PROVE Drifts /\ PathKept
<1>1. nab[n] \in NABs
  BY DEF IInv, TypeOK
<1>2. ASSUME NEW obj, UserWrites(n, obj),
             \/ /\ SameOrigin(obj, nab[n])
                /\ nab[n].deletionTimestamp => obj.deletionTimestamp
             \/ /\ obj.uuid = NoUUID
                /\ obj.syncLabel # NoUUID => owner[obj.syncLabel] = n
      PROVE  Drifts /\ PathKept
  BY <1>2, ForeignDrifts DEF UserWrites
<1>3. ASSUME NEW label, NEW valid \in BOOLEAN, CreateNAB(n, label, valid)
      PROVE  Drifts /\ PathKept
  <2>1. NewNAB(label, valid).uuid = NoUUID /\ NewNAB(label, valid).syncLabel = label
    BY DEF NewNAB
  <2>2. QED
    BY <1>2, <1>3, <2>1 DEF CreateNAB
<1>4. CASE EditSpec(n)
  <2>1. SameCopy([nab[n] EXCEPT !.valid = ~@], nab[n])
    BY <1>1 DEF NABs, SameCopy, SameOrigin
  <2>2. QED
    BY <1>2, <1>4, <2>1 DEF EditSpec, SameCopy
<1>5. CASE SetDeleteBackup(n)
  <2>1. SameCopy([nab[n] EXCEPT !.deleteBackup = ~@], nab[n])
    BY <1>1 DEF NABs, SameCopy, SameOrigin
  <2>2. QED
    BY <1>2, <1>5, <2>1 DEF SetDeleteBackup, SameCopy
<1>6. CASE DeleteNAB(n)
  BY <1>1, <1>2, <1>6, DeletedDrifts DEF DeleteNAB
<1>7. CASE CreateRestore(n)
  BY <1>7, NothingDrifts, PathStays DEF CreateRestore, workerVars
<1>8. QED
  BY <1>3, <1>4, <1>5, <1>6, <1>7 DEF User

LEMMA SyncCreateDrifts ==
  ASSUME IInv, OriginsOK, NEW n \in Names, NEW u \in UUIDs, SyncCreate(n, u)
  PROVE  Drifts /\ PathKept
<1>1. /\ NewNAB(u, TRUE).uuid = NoUUID /\ NewNAB(u, TRUE).syncLabel = u
      /\ owner'[u] = n
  BY DEF NewNAB, SyncCreate
<1>2. QED
  BY <1>1, ForeignDrifts DEF SyncCreate

LEMMA OtherDrifts ==
  ASSUME IInv, OriginsOK,
         \/ \E n \in Names : DeliverNAB(n) \/ RestoreGone(n)
         \/ \E u \in UUIDs : \/ DeliverBackup(u) \/ DeliverRequests(u) \/ OtherEvent(u)
                             \/ Velero(u) \/ CollectBackup(u)
         \/ CallFails \/ Restart \/ UNCHANGED vars
  PROVE  Drifts /\ PathKept
<1>1. ASSUME NEW n \in Names, DeliverNAB(n) PROVE Drifts /\ PathKept
  <2>1. UNCHANGED <<nab, owner, pc, cur, local>> /\ CacheFollows
    BY <1>1 DEF DeliverNAB, CacheFollows, IInv, TypeOK
  <2>2. QED
    BY <2>1, PathStays DEF Drifts, OwnerGrows, NABDrifts, SameOrigin, LocalDrifts, SameCopy
<1>2. ASSUME NEW n \in Names, RestoreGone(n) PROVE Drifts /\ PathKept
  BY <1>2, NothingDrifts, PathStays DEF RestoreGone, workerVars
<1>3. ASSUME NEW u \in UUIDs, DeliverBackup(u) \/ DeliverRequests(u) \/ OtherEvent(u)
                              \/ Velero(u) \/ CollectBackup(u)
      PROVE  Drifts /\ PathKept
  <2>1. UNCHANGED <<nabVars, owner, pc, cur, local>>
    BY <1>3 DEF DeliverBackup, DeliverRequests, OtherEvent, Velero, CompleteBackup,
                ProcessRequest, ExpireBackup, Purge, RejectRequest, ExpireRequest,
                ResyncBackup, CollectBackup, VeleroSets, workerVars
  <2>2. QED
    BY <2>1, NothingDrifts, PathStays
<1>4. CASE CallFails
  BY <1>4, NothingDrifts DEF CallFails, Requeue, Return, PathKept
<1>5. CASE Restart
  <2>1. UNCHANGED <<nab, owner>> /\ pc' = "idle" /\ cache' = nab
    BY <1>5 DEF Restart, Return
  <2>2. QED
    BY <2>1 DEF Drifts, OwnerGrows, NABDrifts, SameOrigin, CacheFollows, LocalDrifts, PathKept
<1>6. CASE UNCHANGED vars
  BY <1>6, NothingDrifts, PathStays DEF vars, workerVars
<1>7. QED
  BY <1>1, <1>2, <1>3, <1>4, <1>5, <1>6

LEMMA NextDrifts == ASSUME IInv, OriginsOK, [Next]_vars PROVE Drifts /\ PathKept
BY ReconcileDrifts, StepDrifts, UserDrifts, SyncCreateDrifts, OtherDrifts DEF Next, Operation

-----------------------------------------------------------------------------
(***************************************************************************)
(* Who takes a Velero Backup away and leaves its data.                     *)
(***************************************************************************)
Goes(u) == vb[u] # "absent" /\ vb'[u] = "absent" /\ store'[u] = store[u]

NoneGoes == StoreKept /\ \A u \in UUIDs : ~Goes(u)

LEMMA BackupsStay == ASSUME OriginsOK, UNCHANGED <<vb, store>> PROVE NoneGoes
BY DEF OriginsOK, NoneGoes, StoreKept, Goes

LEMMA VeleroBackups ==
  ASSUME IInv, OriginsOK, NEW u \in UUIDs, Velero(u) PROVE NoneGoes
<1>1. vb \in [UUIDs -> VBStates] /\ store \in [UUIDs -> BOOLEAN]
      /\ \A v \in UUIDs : vb[v] = "Completed" => store[v]
  BY DEF IInv, TypeOK, OriginsOK
<1>2. CASE CompleteBackup(u)
  <2>1. vb' = [vb EXCEPT ![u] = "Completed"] /\ store' = [store EXCEPT ![u] = TRUE]
    BY <1>2 DEF CompleteBackup, VeleroSets, SetBackup
  <2>2. QED
    BY <1>1, <2>1 DEF NoneGoes, StoreKept, Goes
<1>3. CASE vb[u] = "Completed" /\ Purge(u)
  <2>1. vb' = [vb EXCEPT ![u] = "absent"] /\ store' = [store EXCEPT ![u] = FALSE]
    BY <1>3 DEF Purge, VeleroSets, SetBackup
  <2>2. QED
    BY <1>1, <1>3, <2>1 DEF NoneGoes, StoreKept, Goes
<1>4. CASE RejectRequest(u)
  <2>1. vb' = [vb EXCEPT ![u] = vb[u]] /\ store' = store
    BY <1>4 DEF RejectRequest, VeleroSets, SetBackup
  <2>2. QED
    BY <1>1, <2>1, BackupsStay
<1>5. CASE ExpireRequest(u)
  BY <1>5, BackupsStay DEF ExpireRequest
<1>6. CASE ResyncBackup(u)
  <2>1. vb' = [vb EXCEPT ![u] = "Completed"] /\ store' = store /\ store[u]
    BY <1>6 DEF ResyncBackup, VeleroSets, SetBackup
  <2>2. QED
    BY <1>1, <2>1 DEF NoneGoes, StoreKept, Goes
<1>7. QED
  BY <1>2, <1>3, <1>4, <1>5, <1>6 DEF Velero, ProcessRequest, ExpireBackup

\* The second deletion path deletes the backup of its copy's NACUUID.
LEMMA DeleteBackupBackups ==
  ASSUME IInv, OriginsOK, DeleteBackup
  PROVE  StoreKept /\ \A u \in UUIDs : Goes(u) => u = local.uuid
<1>1. vb \in [UUIDs -> VBStates] /\ local \in NABs
      /\ \A v \in UUIDs : vb[v] = "Completed" => store[v]
  BY DEF IInv, TypeOK, OriginsOK
<1>2. store' = store /\ (vb' = vb \/ vb' = [vb EXCEPT ![local.uuid] = "absent"])
  BY DEF DeleteBackup, RemoveFinalizer, SetBackup, veleroVars
<1>3. QED
  BY <1>1, <1>2 DEF StoreKept, Goes

LEMMA CreateBackupBackups ==
  ASSUME IInv, OriginsOK, CreateBackup PROVE NoneGoes
<1>1. vb \in [UUIDs -> VBStates] /\ \A v \in UUIDs : vb[v] = "Completed" => store[v]
  BY DEF IInv, TypeOK, OriginsOK
<1>2. store' = store /\ (vb' = vb \/ vb' = [vb EXCEPT ![local.uuid] = "New"])
  BY DEF CreateBackup, SetBackup, veleroVars
<1>3. QED
  BY <1>1, <1>2 DEF NoneGoes, StoreKept, Goes

LEMMA OperationBackups ==
  ASSUME IInv, OriginsOK, Operation \/ Restart
  PROVE  StoreKept /\ \A u \in UUIDs : Goes(u) => DeleteBackup /\ u = local.uuid
<1>1. ASSUME NEW n \in Names, Reconcile(n) \/ DeliverNAB(n) \/ User(n) \/ RestoreGone(n)
      PROVE  NoneGoes
  BY <1>1, BackupsStay DEF Reconcile, DeliverNAB, RestoreGone, User, CreateNAB, EditSpec,
     SetDeleteBackup, DeleteNAB, CreateRestore, UserWrites, veleroVars
<1>2. ASSUME NEW u \in UUIDs, DeliverBackup(u) \/ DeliverRequests(u) \/ OtherEvent(u)
      PROVE  NoneGoes
  BY <1>2, BackupsStay DEF DeliverBackup, DeliverRequests, OtherEvent, veleroVars
<1>3. CASE CallFails \/ Restart
  <2>1. NoneGoes
    BY <1>3, BackupsStay DEF CallFails, Restart, veleroVars
  <2>2. QED
    BY <2>1 DEF NoneGoes
<1>4. ASSUME MarkDelete \/ CallDelete \/ DeleteRestores \/ RequestDeletion \/ MarkDirect
             \/ DeleteRequests \/ InitCreate \/ ValidateSpec \/ SetBackupUUID
             \/ SetFinalizer \/ SyncStatus
      PROVE  NoneGoes
  BY <1>4, BackupsStay DEF MarkDelete, CallDelete, DeleteRestores, RequestDeletion,
     RemoveFinalizer, MarkDirect, DeleteRequests, InitCreate, ValidateSpec, SetBackupUUID,
     SetFinalizer, SyncStatus, veleroVars
<1>5. QED
  BY <1>1, <1>2, <1>3, <1>4, VeleroBackups, DeleteBackupBackups, CreateBackupBackups
     DEF NoneGoes, Operation, Step

LEMMA CollectBackups ==
  ASSUME IInv, OriginsOK, NEW u \in UUIDs, CollectBackup(u)
  PROVE  StoreKept /\ \A v \in UUIDs : Goes(v) => v = u
<1>1. vb \in [UUIDs -> VBStates] /\ \A v \in UUIDs : vb[v] = "Completed" => store[v]
  BY DEF IInv, TypeOK, OriginsOK
<1>2. vb' = [vb EXCEPT ![u] = "absent"] /\ store' = store
  BY DEF CollectBackup, VeleroSets, SetBackup
<1>3. QED
  BY <1>1, <1>2 DEF StoreKept, Goes

\* What each step of the system may take away.
LEMMA SyncBackups ==
  ASSUME SyncInv, OriginsOK, [SyncNext]_allVars
  PROVE  /\ StoreKept
         /\ \A u \in UUIDs : Goes(u) => \/ DeleteBackup /\ u = local.uuid
                                        \/ collecting # NoUUID /\ u = collecting
<1>1. CASE Operation \/ Restart
  BY <1>1, OperationBackups DEF SyncInv
<1>2. CASE SyncList \/ (\E u \in UUIDs : SyncLookup(u) \/ CreateMissing(u) \/ CollectFind(u))
           \/ UNCHANGED allVars
  <2>1. NoneGoes
    BY <1>2, BackupsStay DEF SyncList, SyncLookup, CreateMissing, SyncCreate, CollectFind,
                             allVars, vars, veleroVars
  <2>2. QED
    BY <2>1 DEF NoneGoes
<1>3. CASE CollectDelete
  <2>1. collecting \in UUIDs /\ collecting # NoUUID
    BY <1>3 DEF SyncInv, PassesOK, CollectDelete
  <2>2. CASE UNCHANGED vars
    BY <2>2, BackupsStay DEF NoneGoes, vars, veleroVars
  <2>3. CASE CollectBackup(collecting)
    BY <2>1, <2>3, CollectBackups DEF SyncInv
  <2>4. QED
    BY <1>3, <2>2, <2>3 DEF CollectDelete
<1>4. QED
  BY <1>1, <1>2, <1>3 DEF SyncNext

-----------------------------------------------------------------------------
\* What the collector has found is no user's NAB's, and never becomes one's: the
\* NACUUID is taken.
LEMMA CollectingStays ==
  ASSUME SyncInv, OriginsOK, CollectingOK, Drifts, collecting' = collecting
  PROVE  CollectingOK'
<1>. SUFFICES ASSUME collecting # NoUUID PROVE CollectingOK'
  BY DEF CollectingOK
<1>1. PICK n \in Names : n = owner[collecting]
  BY DEF CollectingOK
<1>2. collecting \in UUIDs /\ owner'[collecting] = n
  BY <1>1, NamesAssumption DEF SyncInv, PassesOK, Drifts, OwnerGrows
<1>3. nab'[n].uuid = collecting => nab'[n].syncLabel # NoUUID
  <2>1. nab[n].uuid = collecting => nab[n].syncLabel # NoUUID
    BY <1>1 DEF CollectingOK
  <2>2. CASE SameOrigin(nab'[n], nab[n])
    BY <2>1, <2>2 DEF SameOrigin
  <2>3. CASE nab'[n].uuid = NoUUID
    BY <2>3
  <2>4. ASSUME NEW u \in UUIDs, Identified(n, u), u = collecting
        PROVE  nab'[n].syncLabel # NoUUID
    <3>1. nab'[n].syncLabel = nab[n].syncLabel /\ nab[n].syncLabel = u
      BY <1>1, <2>4, NamesAssumption
         DEF Identified, SameCopy, SameOrigin, SyncInv, IInv, TypeOK, NABs
    <3>2. QED
      BY <3>1, NamesAssumption
  <2>5. QED
    BY <2>2, <2>3, <2>4 DEF Drifts, NABDrifts, Identified
<1>4. QED
  BY <1>1, <1>2, <1>3 DEF CollectingOK

LEMMA CollectFindOK ==
  ASSUME SyncInv, OriginsOK, NEW u \in UUIDs, CollectFind(u) PROVE CollectingOK'
<1>1. owner[u] \in Names
  BY DEF CollectFind, SyncInv, IInv, BackupsOwned
<1>2. ~Original(nab[owner[u]])
  BY <1>1 DEF CollectFind, OriginsOK
<1>3. QED
  BY <1>1, <1>2 DEF CollectFind, CollectingOK, Original, vars, nabVars

OriginInv == SyncInv /\ OriginsOK /\ CollectingOK

LEMMA OriginInitOK == SyncInit => OriginInv
<1>. SUFFICES ASSUME SyncInit PROVE OriginInv
  OBVIOUS
<1>1. NoNAB.uuid = NoUUID /\ NoNAB.syncLabel = NoUUID
  BY DEF NoNAB, NewNAB
<1>2. OriginsOK
  BY <1>1 DEF SyncInit, Init, OriginsOK, Belongs, EndsAlike, Original
<1>3. CollectingOK
  BY DEF SyncInit, CollectingOK
<1>4. QED
  BY <1>2, <1>3, SyncInitOK DEF OriginInv

LEMMA OriginNextOK == ASSUME OriginInv, [SyncNext]_allVars PROVE OriginInv'
<1>1. SyncInv' /\ Drifts /\ PathKept /\ StoreKept
  BY SyncNextInv, SyncStepSimulates, NextDrifts, SyncBackups DEF OriginInv, SyncInv
<1>2. OriginsOK'
  BY <1>1, OriginsStep DEF OriginInv, SyncInv
<1>3. CollectingOK'
  <2>1. ASSUME NEW u \in UUIDs, CollectFind(u) PROVE CollectingOK'
    BY <2>1, CollectFindOK DEF OriginInv
  <2>2. CASE collecting' = NoUUID
    BY <2>2 DEF CollectingOK
  <2>3. CASE collecting' = collecting
    BY <1>1, <2>3, CollectingStays DEF OriginInv
  <2>4. QED
    BY <2>1, <2>2, <2>3
       DEF SyncNext, passes, allVars, SyncList, SyncLookup, CreateMissing, CollectDelete
<1>4. QED
  BY <1>1, <1>2, <1>3 DEF OriginInv

LEMMA OriginInvariance == SyncSpec => []OriginInv
<1>1. SyncInit => OriginInv
  BY OriginInitOK
<1>2. OriginInv /\ [SyncNext]_allVars => OriginInv'
  BY OriginNextOK
<1>3. QED
  BY <1>1, <1>2, PTL DEF SyncSpec

\* However far the caches lag, the Velero Backup of a NAB without the sync label is
\* taken away, its data kept, only when that NAB is being deleted: by the second
\* deletion path, whose copy says so of that very NAB, and never by the collector.
THEOREM OriginalBackupsAreKept == SyncSpec => BackupKept
<1>. DEFINE Kept ==
       \A u \in UUIDs :
         vb[u] # "absent" /\ vb'[u] = "absent" /\ store'[u] = store[u] =>
           LET obj == nab[owner[u]] IN
           obj.uuid = u /\ obj.syncLabel = NoUUID => obj.deletionTimestamp
<1>1. ASSUME OriginInv, [SyncNext]_allVars PROVE Kept
  <2>1. SUFFICES ASSUME NEW u \in UUIDs, Goes(u),
                        nab[owner[u]].uuid = u, nab[owner[u]].syncLabel = NoUUID
                 PROVE  nab[owner[u]].deletionTimestamp
    BY DEF Goes
  <2>2. CASE DeleteBackup /\ u = local.uuid
    <3>1. pc = "deleteBackup" /\ u # NoUUID
      BY <2>2, NamesAssumption DEF DeleteBackup
    <3>2. owner[u] = cur /\ EndsAlike(cur, local) /\ local.deletionTimestamp
      BY <1>1, <2>2, <3>1 DEF OriginInv, OriginsOK, Belongs
    <3>3. QED
      BY <2>1, <2>2, <3>1, <3>2 DEF EndsAlike, Original
  <2>3. CASE collecting # NoUUID /\ u = collecting
    BY <1>1, <2>1, <2>3 DEF OriginInv, CollectingOK
  <2>4. QED
    BY <1>1, <2>1, <2>2, <2>3, SyncBackups DEF OriginInv
<1>2. SyncSpec => [][Kept]_allVars
  BY <1>1, OriginInvariance, PTL DEF SyncSpec
<1>3. QED
  BY <1>2 DEF BackupKept
=============================================================================
