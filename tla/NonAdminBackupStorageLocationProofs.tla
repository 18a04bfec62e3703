----------------- MODULE NonAdminBackupStorageLocationProofs -----------------
(***************************************************************************)
(* Theorems about the NonAdminBackupStorageLocation controller, for any    *)
(* set of NABSLs, NACUUIDs and specs, whatever caches lag and whether or   *)
(* not the garbage collector runs.  Two of them, NoBackupIsLeft and        *)
(* ControllerImplementsLocationLifecycle, need the cache of BSLs to keep   *)
(* up: a NAB is accepted where a cached NABSL and a cached BSL say so.     *)
(*                                                                         *)
(* Two things make it safe.  What the admin approved is only added to: a   *)
(* request the worker's cache shows as approved was approved once, however *)
(* old the copy is (RequestsOK), and the worker carries that fact to       *)
(* createVeleroBSL.  And the worker alone takes finalizers off, and only   *)
(* from a NABSL it knows to be terminating: an old copy that has the       *)
(* finalizer and is not terminating tells the truth about the finalizer    *)
(* and the NACUUID (NABSLsOK), as does any copy with the finalizer while   *)
(* the worker is on the creation path (WorkerOK).                          *)
(***************************************************************************)
EXTENDS NonAdminBackupStorageLocation, TLAPS

Guarded(obj) ==
  /\ obj.exists => obj.spec # NoSpec
  /\ obj.finalizer => obj.exists /\ obj.uuid # NoUUID
  /\ obj.deletionTimestamp => obj.finalizer
  /\ obj.phase = "Created" => obj.finalizer
  /\ obj.uuid # NoUUID => obj.exists
Owned(obj, n) == obj.uuid # NoUUID => owner[obj.uuid] = n

\* NABSL n still has the finalizer and the NACUUID of the copy.
Holds(n, copy) == nabsl[n].finalizer /\ nabsl[n].uuid = copy.uuid

\* An approval that is recorded: the spec of an approved request.
Recorded(u, obj) == obj.decision = "approve" /\ obj.spec # NoSpec => obj.spec \in approved[u]

RequestsOK ==
  /\ request \in [UUIDs -> Requests] /\ requestSeen \in [UUIDs -> Requests]
  /\ requestEvent \in [UUIDs -> BOOLEAN]
  /\ approved \in [UUIDs -> SUBSET Specs]
  /\ \A u \in UUIDs : /\ Recorded(u, request[u]) /\ Recorded(u, requestSeen[u])
                      /\ request[u].exists \/ requestEvent[u] => owner[u] \in Names

VeleroOK ==
  /\ secret \subseteq UUIDs /\ secretSeen \subseteq UUIDs
  /\ bsl \in [UUIDs -> Specs \union {NoSpec}] /\ bslSeen \in [UUIDs -> Specs \union {NoSpec}]
  /\ \A u \in UUIDs : bsl[u] # NoSpec => owner[u] \in Names /\ bsl[u] \in approved[u]

WorldOK ==
  /\ source \subseteq Names /\ backups \subseteq Names
  /\ owner \in [UUIDs -> Names \union {NoName}]
  /\ requireApproval \in BOOLEAN
  /\ edits \in Nat /\ decisions \in Nat /\ faults \in Nat

NABSLsOK ==
  /\ nabsl \in [Names -> NABSLs] /\ cache \in [Names -> NABSLs]
  /\ cacheFresh \in [Names -> BOOLEAN] /\ nabslEvent \in [Names -> BOOLEAN]
  /\ \A n \in Names :
       /\ Guarded(nabsl[n]) /\ Owned(nabsl[n], n)
       /\ Guarded(cache[n]) /\ Owned(cache[n], n)
       /\ cacheFresh[n] => cache[n] = nabsl[n]
       /\ nabsl[n].uuid # NoUUID => cache[n].exists
       /\ cache[n].finalizer /\ ~cache[n].deletionTimestamp => Holds(n, cache[n])

\* The stretches of Reconcile.
Taking   == {"markDelete", "deleteRequest", "deleteSecret", "deleteBSL", "deleteBackups",
             "removeFinalizer"}
Opening  == {"init", "validate", "setUUID"}
Asking   == {"createRequest", "approveRequest", "initRequest", "setFinalizer"}
Dropping == {"dropSecret", "dropBSL", "refuse"}
Giving   == {"syncSecret", "markSynced", "createBSL", "markCreated"}
Guarding == {"ensure", "syncStatus"} \union Dropping \union Giving

\* Equal but for a status that is still to be written.
Agree(a, b) ==
  /\ a.exists = b.exists /\ a.deletionTimestamp = b.deletionTimestamp
  /\ a.finalizer = b.finalizer /\ a.spec = b.spec /\ a.uuid = b.uuid

\* What holds of the copy the worker is about to take its step with.
WorkerOK ==
  /\ queue \subseteq Names /\ pc \in Steps /\ cur \in Names \union {NoName}
  /\ local \in NABSLs /\ localFresh \in BOOLEAN
  /\ localFresh => pc # "idle" /\ Agree(local, nabsl[cur])
  /\ localFresh /\ pc \notin Dropping => local = nabsl[cur]
  /\ pc # "idle" => cur \in Names /\ local.exists /\ Guarded(local) /\ Owned(local, cur)
  /\ pc \in Taking =>
       /\ local.deletionTimestamp /\ (localFresh => cache[cur].deletionTimestamp)
       /\ pc # "markDelete" => local.phase = "Deleting"
  /\ pc \in Opening /\ cache[cur].finalizer => Holds(cur, cache[cur])
  /\ pc \in Asking \union Guarding => local.uuid # NoUUID
  /\ pc \in Asking /\ local.finalizer => Holds(cur, local)
  /\ pc \in Guarding => local.finalizer /\ Holds(cur, local)
  /\ pc \in Giving => local.spec \in approved[local.uuid]

IInv == RequestsOK /\ VeleroOK /\ WorldOK /\ NABSLsOK /\ WorkerOK

\* Where the cache of BSLs keeps up: a BSL is one of a NABSL that is stored, with
\* the finalizer and its NACUUID, and is gone before deleteNonAdminBackups looks;
\* so ValidateBackupSpec, which looks for it, accepts no NonAdminBackup after that.
LocationOK ==
  /\ \A u \in UUIDs : bsl[u] # NoSpec => nabsl[owner[u]].uuid = u /\ nabsl[owner[u]].finalizer
  /\ pc \in {"deleteBackups", "removeFinalizer"} => bsl[local.uuid] = NoSpec
  /\ pc = "removeFinalizer" /\ localFresh => cur \notin backups
LInv == IInv /\ LocationOK

-----------------------------------------------------------------------------
LEMMA ObjectTypes ==
  /\ NoNABSL \in NABSLs /\ Guarded(NoNABSL) /\ NoNABSL.uuid = NoUUID
  /\ ~NoNABSL.exists /\ ~NoNABSL.finalizer
  /\ NoRequest \in Requests /\ ~NoRequest.exists
  /\ NoRequest.decision = "pending" /\ NoRequest.spec = NoSpec
  /\ \A spec \in Specs : /\ NewNABSL(spec) \in NABSLs /\ Guarded(NewNABSL(spec))
                         /\ NewNABSL(spec).uuid = NoUUID /\ ~NewNABSL(spec).finalizer
BY NoneAssumption DEF NoNABSL, NewNABSL, NABSLs, Phases, Decisions, NoRequest, Requests, Guarded

LEMMA InitOK == Init => IInv
<1>. SUFFICES ASSUME Init PROVE IInv
  OBVIOUS
<1>1. RequestsOK
  BY ObjectTypes DEF Init, RequestsOK, Recorded
<1>2. VeleroOK
  BY DEF Init, VeleroOK
<1>3. WorldOK
  BY DEF Init, WorldOK
<1>4. NABSLsOK
  BY ObjectTypes DEF Init, NABSLsOK, Owned
<1>5. WorkerOK
  BY ObjectTypes
     DEF Init, WorkerOK, Steps, Taking, Opening, Asking, Dropping, Giving, Guarding
<1>6. QED
  BY <1>1, <1>2, <1>3, <1>4, <1>5 DEF IInv

-----------------------------------------------------------------------------
(***************************************************************************)
(* What is written and what is left alone.                                 *)
(***************************************************************************)

\* The NACUUIDs given to NABSLs stay theirs, and what was approved stays so.
OwnersKept    == \A u \in UUIDs : owner[u] \in Names => owner'[u] = owner[u]
ApprovalsKept == \A u \in UUIDs : approved[u] \subseteq approved'[u]

LEMMA WriteOK ==
  ASSUME IInv, NEW n \in Names, NEW obj \in NABSLs, NEW event \in BOOLEAN, OwnersKept,
         Changed(n, obj, event), Guarded(obj),
         obj.uuid # NoUUID => owner'[obj.uuid] = n /\ cache[n].exists,
         \/ cache[n].deletionTimestamp
         \/ nabsl[n].finalizer => obj.finalizer /\ obj.uuid = nabsl[n].uuid
  PROVE  /\ NABSLsOK'
         /\ nabsl'[n] = obj /\ \A m \in Names \ {n} : nabsl'[m] = nabsl[m]
         /\ cache' = cache
<1>1. /\ nabsl' \in [Names -> NABSLs] /\ cache' = cache
      /\ cacheFresh' \in [Names -> BOOLEAN] /\ nabslEvent' \in [Names -> BOOLEAN]
      /\ nabsl'[n] = obj /\ \A m \in Names \ {n} : nabsl'[m] = nabsl[m]
      /\ ~cacheFresh'[n] /\ \A m \in Names \ {n} : cacheFresh'[m] = cacheFresh[m]
  BY DEF IInv, NABSLsOK, Changed
<1>2. ASSUME NEW m \in Names
      PROVE  /\ Guarded(nabsl[m])' /\ Owned(nabsl[m], m)'
             /\ Guarded(cache[m])' /\ Owned(cache[m], m)'
             /\ (cacheFresh[m] => cache[m] = nabsl[m])'
             /\ (nabsl[m].uuid # NoUUID => cache[m].exists)'
    <2>1. nabsl[m] \in NABSLs /\ cache[m] \in NABSLs
      BY DEF IInv, NABSLsOK
    <2>2. ASSUME NEW o \in NABSLs, Owned(o, m) PROVE o.uuid # NoUUID => owner'[o.uuid] = m
      BY <2>2 DEF OwnersKept, Owned, NABSLs
    <2>3. QED
      BY <1>1, <2>1, <2>2 DEF IInv, NABSLsOK, Guarded, Owned
<1>3. ASSUME NEW m \in Names, cache[m].finalizer /\ ~cache[m].deletionTimestamp
      PROVE  Holds(m, cache[m])'
  BY <1>1, <1>3 DEF IInv, NABSLsOK, Holds
<1>4. QED
  BY <1>1, <1>2, <1>3 DEF NABSLsOK, IInv

LEMMA NABSLsKept ==
  ASSUME IInv, UNCHANGED <<nabslVars, owner>>
  PROVE  NABSLsOK'
BY DEF IInv, NABSLsOK, Holds, Guarded, Owned, nabslVars

LEMMA RequestsKept ==
  ASSUME IInv, OwnersKept, UNCHANGED requestVars
  PROVE  RequestsOK' /\ ApprovalsKept
BY DEF IInv, RequestsOK, OwnersKept, ApprovalsKept, Recorded, requestVars

LEMMA SetRequestOK ==
  ASSUME IInv, OwnersKept, NEW u \in UUIDs, owner[u] \in Names, NEW obj \in Requests,
         SetRequest(u, obj)
  PROVE  RequestsOK' /\ ApprovalsKept
<1>1. /\ request' \in [UUIDs -> Requests] /\ requestSeen' = requestSeen
      /\ requestEvent' \in [UUIDs -> BOOLEAN] /\ approved' \in [UUIDs -> SUBSET Specs]
      /\ request'[u] = obj /\ Recorded(u, obj)'
  BY DEF IInv, RequestsOK, SetRequest, Requests, Recorded
<1>2. \A v \in UUIDs \ {u} : /\ request'[v] = request[v] /\ approved'[v] = approved[v]
                             /\ requestEvent'[v] = requestEvent[v]
  BY DEF IInv, RequestsOK, SetRequest
<1>3. ApprovalsKept
  <2>1. approved[u] \subseteq approved'[u]
    BY DEF IInv, RequestsOK, SetRequest
  <2>2. QED
    BY <1>2, <2>1 DEF ApprovalsKept
<1>4. ASSUME NEW v \in UUIDs
      PROVE  /\ Recorded(v, request[v])' /\ Recorded(v, requestSeen[v])'
             /\ (request[v].exists \/ requestEvent[v] => owner[v] \in Names)'
  <2>1. owner[v] \in Names => owner'[v] \in Names
    BY DEF OwnersKept
  <2>2. Recorded(v, requestSeen[v])'
    BY <1>1, <1>3 DEF IInv, RequestsOK, Recorded, ApprovalsKept
  <2>3. CASE v = u
    BY <1>1, <2>1, <2>2, <2>3
  <2>4. CASE v # u
    BY <1>2, <2>1, <2>2, <2>4 DEF IInv, RequestsOK, Recorded
  <2>5. QED
    BY <2>3, <2>4
<1>5. QED
  BY <1>1, <1>3, <1>4 DEF RequestsOK, IInv

\* Velero's objects: a BSL is created with a spec that was approved.
LEMMA VeleroKept ==
  ASSUME IInv, OwnersKept, ApprovalsKept, secret' \subseteq UUIDs, secretSeen' \subseteq UUIDs,
         bsl' \in [UUIDs -> Specs \union {NoSpec}], bslSeen' \in [UUIDs -> Specs \union {NoSpec}],
         \A u \in UUIDs : \/ bsl'[u] \in {NoSpec, bsl[u]}
                          \/ owner[u] \in Names /\ bsl'[u] \in approved[u]
  PROVE  VeleroOK'
BY DEF IInv, VeleroOK, OwnersKept, ApprovalsKept

LEMMA VeleroUnchanged ==
  ASSUME IInv, OwnersKept, ApprovalsKept, UNCHANGED veleroVars
  PROVE  VeleroOK'
BY VeleroKept DEF IInv, VeleroOK, veleroVars

LEMMA WorldKept ==
  ASSUME IInv, UNCHANGED <<world, bounds>>
  PROVE  WorldOK' /\ OwnersKept /\ backups' = backups
BY DEF IInv, WorldOK, world, bounds, OwnersKept

\* Everything but the NABSLs and the worker.
OthersOK == RequestsOK /\ VeleroOK /\ WorldOK

LEMMA OthersKept ==
  ASSUME IInv, UNCHANGED <<requestVars, veleroVars, world, bounds>>
  PROVE  OthersOK' /\ OwnersKept /\ ApprovalsKept /\ backups' = backups
BY WorldKept, RequestsKept, VeleroUnchanged DEF OthersOK

(***************************************************************************)
(* How a step of the worker ends.                                          *)
(***************************************************************************)
LEMMA ReturnInv ==
  ASSUME IInv, NEW q \in SUBSET Names, Return(q), OthersOK', NABSLsOK'
  PROVE  IInv'
<1>1. WorkerOK'
  BY ObjectTypes DEF Return, WorkerOK, Steps, Taking, Opening, Asking, Dropping, Giving, Guarding
<1>2. QED
  BY <1>1 DEF IInv, OthersOK

LEMMA StopInv ==
  ASSUME IInv, pc # "idle", Exit \/ Requeue, OthersOK', NABSLsOK'
  PROVE  IInv'
<1>1. queue \in SUBSET Names /\ queue \union {cur} \in SUBSET Names
  BY DEF IInv, WorkerOK
<1>2. QED
  BY <1>1, ReturnInv DEF Exit, Requeue

\* An edit of the worker's copy with which it may take step.
Edit(obj, step) ==
  /\ obj \in NABSLs /\ Guarded(obj)
  /\ obj.exists = local.exists /\ obj.uuid = local.uuid /\ obj.spec = local.spec
  /\ obj.deletionTimestamp = local.deletionTimestamp
  /\ local.finalizer => obj.finalizer
  /\ step \in Guarding => obj.finalizer
  /\ step \in Taking => obj.phase = "Deleting"

Follows(step) ==
  \/ step = "idle"
  \/ pc \in Taking /\ step \in Taking \ {"markDelete", "removeFinalizer"}
  \/ pc = "deleteBackups" /\ step = "removeFinalizer"
  \/ pc \in Opening /\ step \in Opening
  \/ pc \in Asking /\ step \in Asking
  \/ pc = "setFinalizer" /\ step = "ensure"
  \/ pc \in Guarding /\ step \in Guarding
     /\ (step \in Giving => local.spec \in approved[local.uuid])

\* Without a write: the copy stays, or is changed to be written after a refusal.
LEMMA ProceedInv ==
  ASSUME IInv, pc # "idle", NEW step \in Steps \ {"idle"}, NEW obj, Edit(obj, step), Follows(step),
         \/ obj = local /\ (step \in Dropping \/ pc \notin Dropping)
         \/ pc = "ensure" /\ step \in Dropping /\ Agree(obj, local),
         pc' = step, local' = obj, UNCHANGED <<queue, cur, localFresh, nabslVars, owner>>,
         OthersOK', ApprovalsKept, backups' \subseteq backups
  PROVE  IInv'
<1>1. cur \in Names /\ local \in NABSLs /\ local.exists /\ Owned(local, cur) /\ Guarded(local)
  BY DEF IInv, WorkerOK
<1>2. /\ Owned(local, cur)' /\ Guarded(local)' /\ (Holds(cur, local) => Holds(cur, local)')
      /\ (Holds(cur, cache[cur]) => Holds(cur, cache[cur])')
  BY <1>1 DEF Owned, Guarded, Holds, Edit, nabslVars
<1>3. pc' # "idle" /\ pc' \in Steps /\ queue' \subseteq Names /\ cur' \in Names
      /\ local' \in NABSLs /\ local'.exists /\ localFresh' \in BOOLEAN
  BY <1>1 DEF IInv, WorkerOK, Edit
<1>4. (localFresh => pc # "idle" /\ Agree(local, nabsl[cur]))'
  BY <1>3 DEF IInv, WorkerOK, Agree, nabslVars
<1>5. (localFresh /\ pc \notin Dropping => local = nabsl[cur])'
  BY DEF IInv, WorkerOK, nabslVars
<1>6. (pc \in Taking =>
        /\ local.deletionTimestamp /\ (localFresh => cache[cur].deletionTimestamp)
        /\ pc # "markDelete" => local.phase = "Deleting")'
  BY DEF IInv, WorkerOK, nabslVars, Edit, Follows, Taking, Opening, Asking, Dropping, Giving,
         Guarding
<1>8. (pc \in Opening /\ cache[cur].finalizer => Holds(cur, cache[cur]))'
  BY <1>2 DEF IInv, WorkerOK, nabslVars, Follows, Taking, Opening, Asking, Dropping, Giving,
              Guarding
<1>9. (pc \in Asking \union Guarding => local.uuid # NoUUID)'
  BY DEF IInv, WorkerOK, Edit, Follows, Taking, Opening, Asking, Dropping, Giving, Guarding
<1>10. (pc \in Asking /\ local.finalizer => Holds(cur, local))'
  BY <1>2 DEF IInv, WorkerOK, Follows, Taking, Opening, Asking, Dropping, Giving, Guarding
<1>11. (pc \in Guarding => local.finalizer /\ Holds(cur, local))'
  <2>1. pc = "setFinalizer" /\ step = "ensure" => obj = local /\ local.finalizer
    BY DEF Edit, Dropping, Guarding
  <2>2. pc \in Guarding \/ (pc = "setFinalizer" /\ local.finalizer) => Holds(cur, local)
    BY DEF IInv, WorkerOK, Asking
  <2>3. Holds(cur, local) => Holds(cur, obj)
    BY DEF Holds, Edit
  <2>4. step \in Guarding => pc \in Guarding \/ (pc = "setFinalizer" /\ local.finalizer)
    BY <2>1 DEF Follows, Taking, Opening, Asking, Dropping, Giving, Guarding
  <2>5. QED
    BY <2>2, <2>3, <2>4 DEF Holds, Edit, nabslVars
<1>12. (pc \in Giving => local.spec \in approved[local.uuid])'
  <2>1. step \in Giving => local.spec \in approved[local.uuid] /\ local.uuid \in UUIDs
    BY DEF Follows, Taking, Opening, Asking, Dropping, Giving, Guarding, IInv, WorkerOK, NABSLs
  <2>2. QED
    BY <2>1 DEF ApprovalsKept, Edit
<1>13. NABSLsOK'
  BY NABSLsKept
<1>14. WorkerOK'
  BY <1>2, <1>3, <1>4, <1>5, <1>6, <1>8, <1>9, <1>10, <1>11, <1>12 DEF WorkerOK
<1>15. QED
  BY <1>13, <1>14 DEF IInv, OthersOK

LEMMA GotoInv ==
  ASSUME IInv, pc # "idle", NEW step \in Steps, Edit(local, step), Follows(step),
         step \in Dropping \/ pc \notin Dropping \/ step = "idle",
         Goto(step), UNCHANGED <<nabslVars, owner>>, OthersOK', ApprovalsKept,
         backups' \subseteq backups
  PROVE  IInv'
<1>1. CASE step = "idle"
  BY <1>1, StopInv, NABSLsKept DEF Goto, Continue
<1>2. CASE step # "idle"
  BY <1>2, ProceedInv DEF Goto, Continue
<1>3. QED
  BY <1>1, <1>2

LEMMA UpdateInv ==
  ASSUME IInv, pc # "idle", NEW step \in Steps, NEW obj, Edit(obj, step), Follows(step),
         step \notin Dropping, Update(obj, FALSE, step),
         UNCHANGED <<requestVars, veleroVars, world, bounds>>
  PROVE  IInv'
<1>0. OthersOK' /\ OwnersKept /\ ApprovalsKept /\ backups' = backups /\ owner' = owner
  BY OthersKept DEF world
<1>1. CASE UNCHANGED nabslVars /\ Requeue
  BY <1>0, <1>1, StopInv, NABSLsKept
<1>2. CASE localFresh /\ Changed(cur, obj, FALSE) /\ Continue(step, obj)
  <2>1. /\ cur \in Names /\ local \in NABSLs /\ local.exists /\ Owned(local, cur)
        /\ Agree(local, nabsl[cur]) /\ (local.uuid # NoUUID => local.uuid \in UUIDs)
    BY <1>2 DEF IInv, WorkerOK, NABSLs
  <2>2. obj.uuid # NoUUID => owner'[obj.uuid] = cur /\ cache[cur].exists
    BY <1>0, <2>1 DEF Owned, Edit, Agree, IInv, NABSLsOK
  <2>3. nabsl[cur].finalizer => obj.finalizer /\ obj.uuid = nabsl[cur].uuid
    BY <2>1 DEF Agree, Edit
  <2>4. /\ NABSLsOK'
        /\ nabsl'[cur] = obj /\ \A m \in Names \ {cur} : nabsl'[m] = nabsl[m]
        /\ cache' = cache
    BY <1>0, <1>2, <2>1, <2>2, <2>3, WriteOK DEF Edit
  <2>5. CASE step = "idle"
    BY <1>0, <1>2, <2>4, <2>5, StopInv DEF Continue
  <2>6. CASE step # "idle"
    <3>1. pc' = step /\ local' = obj /\ UNCHANGED <<queue, cur, localFresh>>
      BY <1>2, <2>6 DEF Continue
    <3>2. /\ pc' # "idle" /\ pc' \in Steps /\ queue' \subseteq Names /\ cur' \in Names
          /\ local' \in NABSLs /\ local'.exists /\ localFresh' \in BOOLEAN
          /\ local' = nabsl'[cur'] /\ pc' \notin Dropping /\ Guarded(local)'
          /\ Agree(local, nabsl[cur])'
      BY <2>1, <2>4, <2>6, <3>1 DEF IInv, WorkerOK, Edit, Guarded, Agree
    <3>3. Owned(local, cur)' /\ (Holds(cur, local)' <=> obj.finalizer)
      BY <2>2, <2>4, <3>1 DEF Owned, Holds
    <3>4. (pc \in Taking =>
            /\ local.deletionTimestamp /\ (localFresh => cache[cur].deletionTimestamp)
            /\ pc # "markDelete" => local.phase = "Deleting")'
      BY <2>4, <3>1 DEF IInv, WorkerOK, Edit, Follows, Taking, Opening, Asking, Dropping, Giving,
                        Guarding
    <3>6. (pc \in Opening /\ cache[cur].finalizer => Holds(cur, cache[cur]))'
      BY <2>1, <2>4, <2>6, <3>1
         DEF IInv, WorkerOK, Edit, Follows, Taking, Opening, Asking, Dropping, Giving, Guarding,
             Holds, Agree
    <3>7. (pc \in Asking \union Guarding => local.uuid # NoUUID)'
      BY <3>1 DEF IInv, WorkerOK, Edit, Follows, Taking, Opening, Asking, Dropping, Giving,
                  Guarding
    <3>8. (pc \in Asking /\ local.finalizer => Holds(cur, local))'
          /\ (pc \in Guarding => local.finalizer /\ Holds(cur, local))'
      BY <3>1, <3>3 DEF Edit
    <3>9. (pc \in Giving => local.spec \in approved[local.uuid])'
      <4>1. step \in Giving => local.spec \in approved[local.uuid] /\ local.uuid \in UUIDs
        BY DEF Follows, Taking, Opening, Asking, Dropping, Giving, Guarding, IInv, WorkerOK, NABSLs
      <4>2. QED
        BY <1>0, <3>1, <4>1 DEF ApprovalsKept, Edit
    <3>10. WorkerOK'
      BY <3>2, <3>3, <3>4, <3>6, <3>7, <3>8, <3>9 DEF WorkerOK
    <3>11. QED
      BY <1>0, <2>4, <3>10 DEF IInv, OthersOK
  <2>7. QED
    BY <2>5, <2>6
<1>3. QED
  BY <1>1, <1>2 DEF Update

LEMMA UpdateIfChangedInv ==
  ASSUME IInv, pc # "idle", pc \notin Dropping, NEW step \in Steps, NEW obj,
         Edit(obj, step), Follows(step), step \notin Dropping, UpdateIfChanged(obj, step),
         UNCHANGED <<requestVars, veleroVars, world, bounds>>
  PROVE  IInv'
<1>1. CASE obj = local /\ Goto(step) /\ UNCHANGED nabslVars
  BY <1>1, OthersKept, GotoInv DEF world
<1>2. CASE Update(obj, FALSE, step)
  BY <1>2, UpdateInv
<1>3. QED
  BY <1>1, <1>2 DEF UpdateIfChanged

-----------------------------------------------------------------------------
(***************************************************************************)
(* The steps of Reconcile.                                                 *)
(***************************************************************************)
LEMMA ReconcileInv == ASSUME IInv, NEW n \in Names, Reconcile(n) PROVE IInv'
<1>1. OthersOK' /\ NABSLsOK' /\ UNCHANGED <<nabslVars, owner, approved, backups>>
  BY OthersKept, NABSLsKept DEF Reconcile, requestVars, world
<1>2. queue' \subseteq Names
  BY DEF Reconcile, IInv, WorkerOK
<1>3. CASE ~cache[n].exists
  BY <1>1, <1>2, <1>3
     DEF Reconcile, IInv, OthersOK, WorkerOK, Guarded, Owned, Holds, Agree, nabslVars
<1>4. CASE cache[n].exists
  <2>1. /\ pc' = IF cache[n].deletionTimestamp THEN "markDelete" ELSE "init"
        /\ cur' = n /\ local' = cache[n] /\ localFresh' = cacheFresh[n]
    BY <1>4 DEF Reconcile
  <2>2. /\ cache[n] \in NABSLs /\ cacheFresh[n] \in BOOLEAN
        /\ Guarded(cache[n]) /\ Owned(cache[n], n) /\ (cacheFresh[n] => cache[n] = nabsl[n])
        /\ cache[n].finalizer /\ ~cache[n].deletionTimestamp => Holds(n, cache[n])
    BY DEF IInv, NABSLsOK
  <2>3. /\ pc' \in Steps \ {"idle"}
        /\ pc' \notin Asking \union Guarding \union Dropping \union Giving
        /\ pc' # "removeFinalizer"
        /\ pc' \in Taking => pc' = "markDelete" /\ cache[n].deletionTimestamp
        /\ pc' \in Opening => ~cache[n].deletionTimestamp
    BY <2>1 DEF Steps, Taking, Opening, Asking, Dropping, Giving, Guarding
  <2>4. WorkerOK'
    BY <1>1, <1>2, <1>4, <2>1, <2>2, <2>3
       DEF WorkerOK, Guarded, Owned, Holds, Agree, nabslVars
  <2>5. QED
    BY <1>1, <2>4 DEF IInv, OthersOK
<1>5. QED
  BY <1>3, <1>4

LEMMA WorkerFacts ==
  ASSUME IInv, pc # "idle"
  PROVE  /\ cur \in Names /\ local \in NABSLs /\ local.exists
         /\ Guarded(local) /\ Owned(local, cur)
         /\ pc \in Taking \union Asking \union Guarding =>
              local.uuid \in UUIDs /\ owner[local.uuid] = cur
         /\ pc \in Guarding => local.finalizer
         /\ local.spec \in Specs
<1>1. /\ cur \in Names /\ local \in NABSLs /\ local.exists
      /\ Guarded(local) /\ Owned(local, cur)
      /\ pc \in Taking \union Asking \union Guarding => local.uuid # NoUUID
      /\ pc \in Guarding => local.finalizer
  BY DEF IInv, WorkerOK, Guarded
<1>2. QED
  BY <1>1 DEF NABSLs, Owned, Guarded

LEMMA LocalEdit ==
  ASSUME IInv, pc # "idle", NEW step \in Steps,
         step \in Guarding => pc \in Guarding \/ local.finalizer,
         step \in Taking => pc \in Taking \ {"markDelete"}
  PROVE  Edit(local, step)
<1>1. step \in Taking => local.phase = "Deleting"
  BY DEF IInv, WorkerOK
<1>2. QED
  BY <1>1, WorkerFacts DEF Edit

LEMMA EditStepsInv ==
  ASSUME IInv, \/ MarkDelete \/ InitCreate \/ ValidateSpec \/ SetFinalizer
               \/ Refuse \/ MarkSynced \/ MarkCreated \/ SyncStatus
  PROVE  IInv'
<1>. USE DEF Steps, Taking, Opening, Asking, Dropping, Giving, Guarding
<1>1. CASE MarkDelete
  <2>1. Edit([local EXCEPT !.phase = "Deleting"], "deleteRequest")
    BY <1>1, WorkerFacts DEF MarkDelete, NABSLs, Phases, Edit, Guarded
  <2>2. QED
    BY <1>1, <2>1, UpdateIfChangedInv DEF MarkDelete, Follows
<1>2. CASE InitCreate
  <2>1. /\ Edit([local EXCEPT !.phase = "New"], "validate") /\ Edit(local, "validate")
        /\ Follows("validate")
    BY <1>2, WorkerFacts, LocalEdit DEF InitCreate, NABSLs, Phases, Edit, Guarded, Follows
  <2>2. CASE Goto("validate") /\ UNCHANGED nabslVars
    BY <1>2, <2>1, <2>2, GotoInv, OthersKept DEF InitCreate, world
  <2>3. CASE Update([local EXCEPT !.phase = "New"], FALSE, "validate")
    BY <1>2, <2>1, <2>3, UpdateInv DEF InitCreate
  <2>4. QED
    BY <1>2, <2>2, <2>3 DEF InitCreate
<1>3. CASE ValidateSpec
  <2>1. /\ Edit([local EXCEPT !.accepted = "True"], "setUUID")
        /\ Edit([local EXCEPT !.phase = "BackingOff", !.accepted = "False"], "idle")
        /\ Follows("setUUID") /\ Follows("idle")
    BY <1>3, WorkerFacts DEF ValidateSpec, NABSLs, Phases, Edit, Guarded, Follows
  <2>2. QED
    BY <1>3, <2>1, UpdateIfChangedInv DEF ValidateSpec
<1>4. CASE SetFinalizer
  <2>1. Edit([local EXCEPT !.finalizer = TRUE], "ensure") /\ Follows("ensure")
    BY <1>4, WorkerFacts, NoneAssumption DEF SetFinalizer, NABSLs, Edit, Guarded, Follows
  <2>2. QED
    BY <1>4, <2>1, UpdateIfChangedInv DEF SetFinalizer
<1>5. CASE Refuse
  BY <1>5, LocalEdit, UpdateInv DEF Refuse, Follows
<1>6. CASE MarkSynced
  <2>1. Edit(local, "createBSL") /\ Follows("createBSL")
    BY <1>6, LocalEdit DEF MarkSynced, Follows, IInv, WorkerOK
  <2>2. QED
    BY <1>6, <2>1, UpdateInv DEF MarkSynced
<1>7. CASE MarkCreated
  <2>1. Edit([local EXCEPT !.phase = "Created"], "syncStatus") /\ Follows("syncStatus")
    BY <1>7, WorkerFacts DEF MarkCreated, NABSLs, Phases, Edit, Guarded, Follows
  <2>2. QED
    BY <1>7, <2>1, UpdateInv DEF MarkCreated
<1>8. CASE SyncStatus
  <2>1. Edit(local, "idle") /\ Follows("idle")
    BY <1>8, LocalEdit DEF SyncStatus, Follows
  <2>2. CASE Exit /\ UNCHANGED nabslVars
    BY <1>8, <2>2, StopInv, NABSLsKept, OthersKept DEF SyncStatus, world
  <2>3. CASE Update(local, FALSE, "idle")
    BY <1>8, <2>1, <2>3, UpdateInv DEF SyncStatus
  <2>4. QED
    BY <1>8, <2>2, <2>3 DEF SyncStatus
<1>9. QED
  BY <1>1, <1>2, <1>3, <1>4, <1>5, <1>6, <1>7, <1>8

LEMMA EnsureInv == ASSUME IInv, Ensure PROVE IInv'
<1>. USE DEF Steps, Taking, Opening, Asking, Dropping, Giving, Guarding
<1>. DEFINE found == requestSeen[local.uuid]
<1>0. pc = "ensure" /\ UNCHANGED <<requestVars, veleroVars, world, bounds>>
  BY DEF Ensure
<1>1. /\ local \in NABSLs /\ local.uuid \in UUIDs /\ local.spec \in Specs /\ local.finalizer
      /\ Guarded(local)
  BY <1>0, WorkerFacts
<1>2. found \in Requests /\ Recorded(local.uuid, found)
  BY <1>1 DEF IInv, RequestsOK
<1>3. CASE Requeue /\ UNCHANGED nabslVars
  BY <1>0, <1>3, StopInv, NABSLsKept, OthersKept DEF world
<1>4. CASE UpdateIfChanged([local EXCEPT !.refused = TRUE], "idle")
  <2>1. Edit([local EXCEPT !.refused = TRUE], "idle")
    BY <1>1 DEF NABSLs, Edit, Guarded
  <2>2. QED
    BY <1>0, <1>4, <2>1, UpdateIfChangedInv DEF Follows
<1>5. CASE /\ found.exists /\ found.spec = local.spec /\ found.decision = "approve"
           /\ UpdateIfChanged([local EXCEPT !.phase = "New", !.decided = "approve"], "syncSecret")
  <2>1. Edit([local EXCEPT !.phase = "New", !.decided = "approve"], "syncSecret")
    BY <1>1 DEF NABSLs, Edit, Guarded, Phases, Decisions
  <2>2. local.spec \in approved[local.uuid]
    BY <1>1, <1>2, <1>5, NoneAssumption DEF Recorded
  <2>3. QED
    BY <1>0, <1>5, <2>1, <2>2, UpdateIfChangedInv DEF Follows
<1>6. ASSUME NEW obj,
             obj = [local EXCEPT !.phase = IF found.decision = "reject" THEN "BackingOff" ELSE "New",
                                 !.decided = found.decision],
             Continue("dropSecret", obj), UNCHANGED nabslVars
      PROVE  IInv'
  <2>1. Edit(obj, "dropSecret") /\ Agree(obj, local)
    BY <1>1, <1>2, <1>6 DEF NABSLs, Edit, Agree, Guarded, Phases, Requests
  <2>2. Follows("dropSecret")
    BY <1>0 DEF Follows
  <2>3. pc' = "dropSecret" /\ local' = obj /\ UNCHANGED <<queue, cur, localFresh>>
    BY <1>6 DEF Continue
  <2>4. QED
    BY <1>0, <1>6, <2>1, <2>2, <2>3, ProceedInv, OthersKept DEF world
<1>7. QED
  BY <1>3, <1>4, <1>5, <1>6 DEF Ensure

\* Steps that change the request and leave the NABSLs alone.
LEMMA RequestStepInv ==
  ASSUME IInv, pc # "idle", pc \in Taking \union Asking,
         NEW step \in Steps, Edit(local, step), Follows(step), step \notin Dropping,
         UNCHANGED <<nabslVars, veleroVars, world, bounds>>,
         Goto(step) \/ Requeue,
         \/ UNCHANGED requestVars
         \/ \E obj \in Requests : SetRequest(local.uuid, obj)
  PROVE  IInv'
<1>1. OwnersKept /\ WorldOK' /\ UNCHANGED <<owner, backups>> /\ local.uuid \in UUIDs
      /\ owner[local.uuid] \in Names
  BY WorldKept, WorkerFacts DEF world
<1>2. RequestsOK' /\ ApprovalsKept
  BY <1>1, RequestsKept, SetRequestOK
<1>3. OthersOK' /\ NABSLsOK'
  BY <1>1, <1>2, VeleroUnchanged, NABSLsKept DEF OthersOK
<1>4. pc \notin Dropping
  BY DEF Taking, Asking, Dropping
<1>5. CASE Goto(step)
  BY <1>1, <1>2, <1>3, <1>4, <1>5, GotoInv
<1>6. CASE Requeue
  BY <1>3, <1>6, StopInv
<1>7. QED
  BY <1>5, <1>6

LEMMA DeleteRequestInv == ASSUME IInv, DeleteRequest PROVE IInv'
<1>. USE DEF Steps, Taking, Opening, Asking, Dropping, Giving, Guarding
<1>1. Edit(local, "deleteSecret") /\ Follows("deleteSecret")
  BY LocalEdit DEF DeleteRequest, Follows
<1>2. \/ UNCHANGED requestVars
      \/ \E obj \in Requests : SetRequest(local.uuid, obj)
  BY ObjectTypes DEF DeleteRequest
<1>3. Goto("deleteSecret") \/ Requeue
  BY DEF DeleteRequest
<1>4. pc = "deleteRequest" /\ UNCHANGED <<nabslVars, veleroVars, world, bounds>>
  BY DEF DeleteRequest
<1>5. QED
  BY <1>1, <1>2, <1>3, <1>4, RequestStepInv

LEMMA CreateRequestInv == ASSUME IInv, CreateRequest PROVE IInv'
<1>. USE DEF Steps, Taking, Opening, Asking, Dropping, Giving, Guarding
<1>. DEFINE u == local.uuid
            found == requestSeen[u]
            next == IF Overruled(found) THEN "approveRequest" ELSE "setFinalizer"
<1>1. pc = "createRequest" /\ UNCHANGED <<nabslVars, veleroVars, world, bounds>>
  BY DEF CreateRequest
<1>2. ASSUME NEW step \in {"approveRequest", "setFinalizer", "initRequest"}
      PROVE  Edit(local, step) /\ Follows(step) /\ step \in Steps \ Dropping
  BY <1>1, LocalEdit DEF Follows
<1>3. u \in UUIDs /\ found \in Requests /\ request[u] \in Requests
  BY <1>1, WorkerFacts DEF IInv, RequestsOK
<1>4. [found EXCEPT !.phase = found.decision] \in Requests
      /\ [NoRequest EXCEPT !.exists = TRUE, !.decision = FirstDecision] \in Requests
  BY <1>3, ObjectTypes DEF Requests, FirstDecision, Decisions
<1>5. CASE (Goto(next) \/ Requeue) /\ UNCHANGED requestVars
  <2>1. next \in {"approveRequest", "setFinalizer"}
    OBVIOUS
  <2>2. QED
    BY <1>1, <1>2, <1>5, <2>1, RequestStepInv
<1>6. CASE SetRequest(u, [found EXCEPT !.phase = found.decision]) /\ Goto(next)
  <2>1. next \in {"approveRequest", "setFinalizer"}
    OBVIOUS
  <2>2. QED
    BY <1>1, <1>2, <1>4, <1>6, <2>1, RequestStepInv
<1>7. CASE /\ SetRequest(u, [NoRequest EXCEPT !.exists = TRUE, !.decision = FirstDecision])
           /\ Goto("initRequest")
  BY <1>1, <1>2, <1>4, <1>7, RequestStepInv
<1>8. QED
  BY <1>5, <1>6, <1>7 DEF CreateRequest

LEMMA ApproveRequestInv == ASSUME IInv, ApproveRequest PROVE IInv'
<1>. USE DEF Steps, Taking, Opening, Asking, Dropping, Giving, Guarding
<1>1. pc = "approveRequest" /\ UNCHANGED <<nabslVars, veleroVars, world, bounds>>
  BY DEF ApproveRequest
<1>2. Edit(local, "setFinalizer") /\ Follows("setFinalizer")
  BY <1>1, LocalEdit DEF Follows
<1>3. [request[local.uuid] EXCEPT !.decision = "approve"] \in Requests
  <2>1. request[local.uuid] \in Requests
    BY <1>1, WorkerFacts DEF IInv, RequestsOK
  <2>2. QED
    BY <2>1 DEF Requests, Decisions
<1>4. \/ UNCHANGED requestVars
      \/ \E obj \in Requests : SetRequest(local.uuid, obj)
  BY <1>3 DEF ApproveRequest
<1>5. Goto("setFinalizer") \/ Requeue
  BY DEF ApproveRequest
<1>6. QED
  BY <1>1, <1>2, <1>4, <1>5, RequestStepInv

LEMMA InitRequestInv == ASSUME IInv, InitRequest PROVE IInv'
<1>. USE DEF Steps, Taking, Opening, Asking, Dropping, Giving, Guarding
<1>1. pc = "initRequest" /\ UNCHANGED <<nabslVars, veleroVars, world, bounds>> /\ Requeue
  BY DEF InitRequest
<1>2. Edit(local, "idle") /\ Follows("idle")
  BY <1>1, LocalEdit DEF Follows
<1>3. [request[local.uuid] EXCEPT !.spec = local.spec, !.phase = FirstDecision] \in Requests
  <2>1. request[local.uuid] \in Requests /\ local.spec \in Specs
    BY <1>1, WorkerFacts DEF IInv, RequestsOK
  <2>2. QED
    BY <2>1 DEF Requests, Decisions, FirstDecision
<1>4. \/ UNCHANGED requestVars
      \/ \E obj \in Requests : SetRequest(local.uuid, obj)
  BY <1>3 DEF InitRequest
<1>5. QED
  BY <1>1, <1>2, <1>4, RequestStepInv

\* Steps that change the Secret or the BSL and leave the NABSLs alone.
LEMMA VeleroStepInv ==
  ASSUME IInv, pc # "idle", NEW step \in Steps, Edit(local, step), Follows(step),
         step \in Dropping \/ pc \notin Dropping,
         UNCHANGED <<nabslVars, requestVars, world, bounds>>, VeleroOK', Goto(step) \/ Requeue
  PROVE  IInv'
<1>1. WorldOK' /\ RequestsOK' /\ NABSLsOK' /\ ApprovalsKept /\ UNCHANGED <<owner, backups>>
  BY WorldKept, RequestsKept, NABSLsKept DEF world
<1>2. CASE Goto(step)
  BY <1>1, <1>2, GotoInv DEF OthersOK
<1>3. CASE Requeue
  BY <1>1, <1>3, StopInv DEF OthersOK
<1>4. QED
  BY <1>2, <1>3

\* Secrets come and go, BSLs only go.
LEMMA RemovalOK ==
  ASSUME IInv, UNCHANGED <<requestVars, world, bounds>>, secret' \subseteq UUIDs,
         secretSeen' \subseteq UUIDs,
         bslSeen' \in [UUIDs -> Specs \union {NoSpec}],
         bsl' = bsl \/ \E u \in UUIDs : bsl' = [bsl EXCEPT ![u] = NoSpec]
  PROVE  VeleroOK'
<1>1. OwnersKept /\ ApprovalsKept
  BY WorldKept, RequestsKept
<1>2. bsl \in [UUIDs -> Specs \union {NoSpec}]
  BY DEF IInv, VeleroOK
<1>3. bsl' \in [UUIDs -> Specs \union {NoSpec}] /\ \A u \in UUIDs : bsl'[u] \in {NoSpec, bsl[u]}
  BY <1>2
<1>4. QED
  BY <1>1, <1>3, VeleroKept

LEMMA RemovalStepInv ==
  ASSUME IInv, DeleteSecret \/ DeleteBSL \/ DropSecret \/ DropBSL
  PROVE  IInv'
<1>. USE DEF Steps, Taking, Opening, Asking, Dropping, Giving, Guarding
<1>0. /\ secret \subseteq UUIDs /\ secretSeen \subseteq UUIDs
      /\ bslSeen \in [UUIDs -> Specs \union {NoSpec}]
  BY DEF IInv, VeleroOK
<1>1. pc # "idle" /\ local.uuid \in UUIDs /\ (pc \in Dropping => local.finalizer)
      /\ UNCHANGED <<nabslVars, requestVars, world, bounds>>
  BY WorkerFacts DEF DeleteSecret, DeleteBSL, DropSecret, DropBSL
<1>2. VeleroOK'
  BY <1>0, <1>1, RemovalOK DEF DeleteSecret, DeleteBSL, DropSecret, DropBSL, RemoveSecret, RemoveBSL
<1>3. CASE DeleteSecret
  <2>1. Edit(local, "deleteBSL") /\ Follows("deleteBSL")
    BY <1>3, LocalEdit DEF DeleteSecret, Follows
  <2>2. QED
    BY <1>1, <1>2, <1>3, <2>1, VeleroStepInv DEF DeleteSecret, RemoveSecret
<1>4. CASE DeleteBSL
  <2>1. Edit(local, "deleteBackups") /\ Follows("deleteBackups")
    BY <1>4, LocalEdit DEF DeleteBSL, Follows
  <2>2. QED
    BY <1>1, <1>2, <1>4, <2>1, VeleroStepInv DEF DeleteBSL, RemoveBSL
<1>5. CASE DropSecret
  <2>1. Edit(local, "dropBSL") /\ Follows("dropBSL")
    BY <1>5, LocalEdit DEF DropSecret, Follows
  <2>2. QED
    BY <1>1, <1>2, <1>5, <2>1, VeleroStepInv DEF DropSecret, RemoveSecret
<1>6. CASE DropBSL
  <2>1. Edit(local, "refuse") /\ Follows("refuse")
    BY <1>6, LocalEdit DEF DropBSL, Follows
  <2>2. QED
    BY <1>1, <1>2, <1>6, <2>1, VeleroStepInv DEF DropBSL, RemoveBSL
<1>7. QED
  BY <1>3, <1>4, <1>5, <1>6

\* A failure that is reported writes the copy as it is.
LEMMA SyncFailsInv ==
  ASSUME IInv, pc \in Giving, SyncFails, OthersOK', OwnersKept, owner' = owner
  PROVE  IInv'
<1>1. pc # "idle" /\ pc \notin Dropping
  BY DEF Giving, Dropping
<1>2. CASE UNCHANGED nabslVars
  BY <1>1, <1>2, StopInv, NABSLsKept DEF SyncFails
<1>3. CASE localFresh /\ Changed(cur, local, FALSE)
  <2>1. /\ cur \in Names /\ local \in NABSLs /\ Guarded(local) /\ local = nabsl[cur]
        /\ Owned(local, cur)
    BY <1>1, <1>3 DEF IInv, WorkerOK
  <2>2. local.uuid # NoUUID => owner'[local.uuid] = cur /\ cache[cur].exists
    BY <2>1 DEF Owned, IInv, NABSLsOK
  <2>3. NABSLsOK'
    BY <1>3, <2>1, <2>2, WriteOK
  <2>4. QED
    BY <1>1, <2>3, StopInv DEF SyncFails
<1>4. QED
  BY <1>2, <1>3 DEF SyncFails

LEMMA SyncSecretInv == ASSUME IInv, SyncSecret PROVE IInv'
<1>. USE DEF Steps, Taking, Opening, Asking, Dropping, Giving, Guarding
<1>1. /\ pc = "syncSecret" /\ local.uuid \in UUIDs /\ local.finalizer
      /\ local.spec \in approved[local.uuid]
      /\ UNCHANGED <<requestVars, world, bounds, secretSeen, bsl, bslSeen>>
  BY WorkerFacts DEF SyncSecret, IInv, WorkerOK
<1>2. /\ Edit(local, "createBSL") /\ Follows("createBSL")
      /\ Edit(local, "markSynced") /\ Follows("markSynced")
  BY <1>1, LocalEdit DEF Follows
<1>3. secret' \subseteq UUIDs /\ secretSeen' \subseteq UUIDs
      /\ bslSeen' \in [UUIDs -> Specs \union {NoSpec}]
  BY <1>1 DEF SyncSecret, IInv, VeleroOK
<1>4. VeleroOK'
  BY <1>1, <1>3, RemovalOK
<1>5. WorldOK' /\ RequestsOK' /\ OwnersKept /\ owner' = owner
  BY <1>1, WorldKept, RequestsKept DEF world
<1>6. CASE SyncFails
  BY <1>1, <1>4, <1>5, <1>6, SyncFailsInv DEF OthersOK
<1>7. QED
  BY <1>1, <1>2, <1>4, <1>6, VeleroStepInv DEF SyncSecret

LEMMA CreateBSLInv == ASSUME IInv, CreateBSL PROVE IInv'
<1>. USE DEF Steps, Taking, Opening, Asking, Dropping, Giving, Guarding
<1>. DEFINE u == local.uuid
<1>1. /\ pc = "createBSL" /\ u \in UUIDs /\ local.finalizer /\ owner[u] \in Names
      /\ local.spec \in Specs /\ local.spec \in approved[u]
      /\ UNCHANGED <<requestVars, world, bounds, secret, secretSeen, bslSeen>>
  BY WorkerFacts DEF CreateBSL, IInv, WorkerOK
<1>2. /\ Edit(local, "syncStatus") /\ Follows("syncStatus")
      /\ Edit(local, "markCreated") /\ Follows("markCreated")
  BY <1>1, LocalEdit DEF Follows
<1>3. /\ secret \subseteq UUIDs /\ secretSeen \subseteq UUIDs
      /\ bsl \in [UUIDs -> Specs \union {NoSpec}] /\ bslSeen \in [UUIDs -> Specs \union {NoSpec}]
  BY DEF IInv, VeleroOK
<1>4. bsl' = bsl \/ bsl' = [bsl EXCEPT ![u] = local.spec]
  BY DEF CreateBSL
<1>5. VeleroOK'
  BY <1>1, <1>3, <1>4, VeleroKept, WorldKept, RequestsKept
<1>6. WorldOK' /\ RequestsOK' /\ OwnersKept /\ owner' = owner
  BY <1>1, WorldKept, RequestsKept DEF world
<1>7. CASE SyncFails
  BY <1>1, <1>5, <1>6, <1>7, SyncFailsInv DEF OthersOK
<1>8. QED
  BY <1>1, <1>2, <1>5, <1>7, VeleroStepInv DEF CreateBSL

LEMMA DeleteBackupsInv == ASSUME IInv, DeleteBackups PROVE IInv'
<1>. USE DEF Steps, Taking, Opening, Asking, Dropping, Giving, Guarding
<1>1. /\ pc = "deleteBackups" /\ backups' = backups \ {cur} /\ Goto("removeFinalizer")
      /\ UNCHANGED <<nabslVars, requestVars, veleroVars, source, owner, requireApproval, bounds>>
  BY DEF DeleteBackups
<1>2. Edit(local, "removeFinalizer") /\ Follows("removeFinalizer")
  BY <1>1, LocalEdit DEF Follows
<1>3. OwnersKept /\ WorldOK'
  BY <1>1 DEF IInv, WorldOK, OwnersKept, bounds
<1>4. OthersOK' /\ ApprovalsKept
  BY <1>1, <1>3, RequestsKept, VeleroUnchanged DEF OthersOK
<1>5. QED
  BY <1>1, <1>2, <1>4, GotoInv

LEMMA RemoveFinalizerInv == ASSUME IInv, RemoveFinalizer PROVE IInv'
<1>1. /\ pc = "removeFinalizer" /\ cur \in Names
      /\ (localFresh => cache[cur].deletionTimestamp)
      /\ OthersOK' /\ OwnersKept /\ owner' = owner
  BY WorkerFacts, OthersKept DEF RemoveFinalizer, IInv, WorkerOK, Taking, world
<1>2. CASE (Exit \/ Requeue) /\ UNCHANGED nabslVars
  BY <1>1, <1>2, StopInv, NABSLsKept
<1>3. CASE localFresh /\ Changed(cur, NoNABSL, TRUE) /\ Continue("idle", NoNABSL)
  <2>1. NABSLsOK'
    BY <1>1, <1>3, WriteOK, ObjectTypes
  <2>2. QED
    BY <1>1, <1>3, <2>1, StopInv DEF Continue
<1>4. QED
  BY <1>2, <1>3 DEF RemoveFinalizer, Update

LEMMA SetUUIDInv == ASSUME IInv, SetUUID PROVE IInv'
<1>. USE DEF Steps, Taking, Opening, Asking, Dropping, Giving, Guarding
<1>. DEFINE again == cache[cur]
<1>1. /\ pc = "setUUID" /\ cur \in Names
      /\ UNCHANGED <<requestVars, veleroVars, source, backups, requireApproval, bounds>>
      /\ queue \subseteq Names
      /\ again.finalizer => Holds(cur, again)
  BY WorkerFacts DEF SetUUID, IInv, WorkerOK
<1>2. /\ again \in NABSLs /\ cacheFresh[cur] \in BOOLEAN /\ Guarded(again) /\ Owned(again, cur)
      /\ cacheFresh[cur] => again = nabsl[cur]
  BY <1>1 DEF IInv, NABSLsOK
<1>3. ASSUME UNCHANGED owner
      PROVE  OthersOK' /\ OwnersKept
  BY <1>1, <1>3, OthersKept DEF world
<1>4. CASE Requeue /\ UNCHANGED <<nabslVars, owner>>
  BY <1>1, <1>3, <1>4, StopInv, NABSLsKept
<1>5. CASE /\ again.exists /\ again.uuid # NoUUID
           /\ pc' = "createRequest" /\ local' = again /\ localFresh' = cacheFresh[cur]
           /\ UNCHANGED <<nabslVars, owner, queue, cur>>
  <2>1. OthersOK' /\ NABSLsOK'
    BY <1>3, <1>5, NABSLsKept
  <2>2. WorkerOK'
    BY <1>1, <1>2, <1>5 DEF WorkerOK, Guarded, Owned, Holds, Agree, nabslVars
  <2>3. QED
    BY <2>1, <2>2 DEF IInv, OthersOK
<1>6. ASSUME NEW u \in UUIDs, owner[u] = NoName,
             again.exists, again.uuid = NoUUID, cacheFresh[cur],
             Changed(cur, [again EXCEPT !.uuid = u], FALSE),
             owner' = [owner EXCEPT ![u] = cur], local' = [again EXCEPT !.uuid = u],
             pc' = "createRequest", localFresh' = TRUE, UNCHANGED <<queue, cur>>
      PROVE  IInv'
  <2>. DEFINE obj == [again EXCEPT !.uuid = u]
  <2>1. /\ obj \in NABSLs /\ Guarded(obj) /\ obj.uuid = u /\ u # NoUUID /\ ~again.finalizer
        /\ obj.finalizer = again.finalizer /\ obj.exists
    BY <1>2, <1>6, NoneAssumption DEF NABSLs, Guarded
  <2>2. owner \in [UUIDs -> Names \union {NoName}] /\ NoName \notin Names
    BY NoneAssumption DEF IInv, WorldOK
  <2>3. owner'[u] = cur /\ owner' \in [UUIDs -> Names \union {NoName}] /\ OwnersKept
    BY <1>1, <1>6, <2>2 DEF OwnersKept
  <2>4. WorldOK'
    BY <1>1, <2>3 DEF IInv, WorldOK, bounds
  <2>5. RequestsOK' /\ VeleroOK'
    BY <1>1, <2>3, RequestsKept, VeleroUnchanged
  <2>6. /\ NABSLsOK' /\ nabsl'[cur] = obj /\ cache' = cache
    <3>1. Changed(cur, obj, FALSE) /\ ~nabsl[cur].finalizer /\ owner'[obj.uuid] = cur
      BY <1>2, <1>6, <2>1, <2>3
    <3>2. QED
      BY <1>1, <1>6, <2>1, <2>3, <3>1, WriteOK
  <2>7. WorkerOK'
    BY <1>1, <1>2, <1>6, <2>1, <2>3, <2>6 DEF WorkerOK, Guarded, Owned, Holds, Agree
  <2>8. QED
    BY <2>4, <2>5, <2>6, <2>7 DEF IInv
<1>7. QED
  BY <1>4, <1>5, <1>6 DEF SetUUID

LEMMA StepInv == ASSUME IInv, Step PROVE IInv'
BY EditStepsInv, EnsureInv, DeleteRequestInv, CreateRequestInv, ApproveRequestInv,
   InitRequestInv, RemovalStepInv, SyncSecretInv, CreateBSLInv, DeleteBackupsInv,
   RemoveFinalizerInv, SetUUIDInv
   DEF Step

-----------------------------------------------------------------------------
(***************************************************************************)
(* Everybody else.                                                         *)
(***************************************************************************)
LEMMA CallFailsInv == ASSUME IInv, CallFails PROVE IInv'
<1>1. UNCHANGED <<requestVars, veleroVars, owner>> /\ OwnersKept /\ WorldOK'
  BY DEF IInv, WorldOK, CallFails, world, OwnersKept
<1>2. OthersOK'
  BY <1>1, RequestsKept, VeleroUnchanged DEF OthersOK
<1>3. CASE pc \in {"syncSecret", "createBSL"}
  BY <1>1, <1>2, <1>3, SyncFailsInv DEF CallFails, Giving
<1>4. CASE pc \notin {"syncSecret", "createBSL"}
  BY <1>1, <1>2, <1>4, StopInv, NABSLsKept DEF CallFails
<1>5. QED
  BY <1>3, <1>4

LEMMA RestartInv == ASSUME IInv, Restart PROVE IInv'
<1>1. RequestsOK' /\ VeleroOK' /\ WorldOK'
  BY DEF IInv, RequestsOK, VeleroOK, WorldOK, Restart, Recorded
<1>2. NABSLsOK'
  BY DEF IInv, NABSLsOK, Restart, Guarded, Owned, Holds
<1>3. {n \in Names : nabsl[n].exists} \in SUBSET Names
  OBVIOUS
<1>4. QED
  BY <1>1, <1>2, <1>3, ReturnInv DEF Restart, OthersOK

\* The worker and the NABSLs are untouched: only the queue may grow.
LEMMA BystanderInv ==
  ASSUME IInv, OthersOK', ApprovalsKept, queue' \subseteq Names,
         UNCHANGED <<nabslVars, owner, pc, cur, local, localFresh>>
  PROVE  IInv'
<1>2. pc \in Giving => local.uuid \in UUIDs
  BY DEF IInv, WorkerOK, NABSLs, Guarding
<1>3. (pc \in Giving => local.spec \in approved[local.uuid])'
  BY <1>2 DEF IInv, WorkerOK, ApprovalsKept
<1>4. WorkerOK'
  BY <1>3 DEF IInv, WorkerOK, Guarded, Owned, Holds, Agree, nabslVars
<1>5. QED
  BY <1>4, NABSLsKept DEF IInv, OthersOK

LEMMA InformersInv ==
  ASSUME IInv, NEW u \in UUIDs, DeliverRequest(u) \/ DeliverSecret(u) \/ DeliverBSL(u)
                                \/ VeleroChecks(u)
  PROVE  IInv'
<1>1. /\ UNCHANGED <<nabslVars, world, bounds, approved, pc, cur, local, localFresh>>
      /\ WorldOK' /\ OwnersKept /\ ApprovalsKept
  BY WorldKept
     DEF DeliverRequest, DeliverSecret, DeliverBSL, VeleroChecks, workerVars, requestVars,
         ApprovalsKept
<1>2. RequestsOK'
  <2>1. CASE DeliverRequest(u)
    BY <1>1, <2>1 DEF DeliverRequest, IInv, RequestsOK, Recorded, world
  <2>2. CASE UNCHANGED requestVars
    BY <1>1, <2>2, RequestsKept
  <2>3. QED
    BY <2>1, <2>2 DEF DeliverSecret, DeliverBSL, VeleroChecks
<1>3. VeleroOK'
  BY <1>1 DEF DeliverRequest, DeliverSecret, DeliverBSL, VeleroChecks, IInv, VeleroOK, veleroVars,
              world
<1>4. queue' \subseteq Names
  BY DEF DeliverRequest, DeliverSecret, DeliverBSL, VeleroChecks, workerVars,
         IInv, WorkerOK, RequestsOK, VeleroOK
<1>5. QED
  BY <1>1, <1>2, <1>3, <1>4, BystanderInv DEF OthersOK, world

LEMMA DeliverNABSLInv == ASSUME IInv, NEW n \in Names, DeliverNABSL(n) PROVE IInv'
<1>1. OthersOK' /\ UNCHANGED <<owner, approved, backups>>
  BY OthersKept DEF DeliverNABSL, world, requestVars
<1>2. /\ UNCHANGED <<nabsl, pc, cur, local, localFresh>>
      /\ queue' \subseteq Names /\ cache \in [Names -> NABSLs] /\ nabsl \in [Names -> NABSLs]
      /\ cache' = [cache EXCEPT ![n] = nabsl[n]]
  BY DEF DeliverNABSL, IInv, NABSLsOK, WorkerOK
<1>3. NABSLsOK'
  BY <1>1, <1>2 DEF IInv, NABSLsOK, DeliverNABSL, Guarded, Owned, Holds
<1>4. cur \in Names => cache'[cur] = cache[cur] \/ cache'[cur] = nabsl[cur]
  BY <1>2
<1>5. WorkerOK'
  BY <1>1, <1>2, <1>4
     DEF IInv, WorkerOK, Guarded, Owned, Holds, Agree, Taking, Opening, Dropping
<1>6. QED
  BY <1>1, <1>3, <1>5 DEF IInv, OthersOK

LEMMA RequestWriteInv ==
  ASSUME IInv, NEW u \in UUIDs, request[u].exists, NEW obj \in Requests, SetRequest(u, obj),
         UNCHANGED <<nabslVars, veleroVars, world, workerVars>>,
         edits' \in Nat, decisions' \in Nat, faults' \in Nat
  PROVE  IInv'
<1>1. OwnersKept /\ WorldOK' /\ owner[u] \in Names
  BY DEF IInv, WorldOK, RequestsOK, OwnersKept, world
<1>2. OthersOK' /\ ApprovalsKept
  BY <1>1, SetRequestOK, VeleroUnchanged DEF OthersOK
<1>3. queue' \subseteq Names
  BY DEF IInv, WorkerOK, workerVars
<1>4. QED
  BY <1>2, <1>3, BystanderInv DEF world, workerVars

LEMMA CollectorInv == ASSUME IInv, NEW u \in UUIDs, Collector(u) PROVE IInv'
<1>1. CASE CollectSecret(u) \/ CollectBSL(u)
  <2>1. UNCHANGED <<nabslVars, requestVars, world, workerVars, bounds>>
    BY <1>1 DEF CollectSecret, CollectBSL
  <2>2. /\ secret' \subseteq UUIDs /\ secretSeen' \subseteq UUIDs
        /\ bslSeen' \in [UUIDs -> Specs \union {NoSpec}]
        /\ bsl' = bsl \/ bsl' = [bsl EXCEPT ![u] = NoSpec]
    BY <1>1 DEF CollectSecret, CollectBSL, IInv, VeleroOK
  <2>3. OthersOK' /\ ApprovalsKept
    BY <2>1, <2>2, WorldKept, RequestsKept, RemovalOK DEF OthersOK
  <2>4. queue' \subseteq Names
    BY <2>1 DEF IInv, WorkerOK, workerVars
  <2>5. QED
    BY <2>1, <2>3, <2>4, BystanderInv DEF world, workerVars
<1>2. CASE CollectRequest(u)
  BY <1>2, RequestWriteInv, ObjectTypes DEF CollectRequest, IInv, WorldOK, bounds
<1>3. QED
  BY <1>1, <1>2 DEF Collector

LEMMA AdminInv == ASSUME IInv, NEW u \in UUIDs, Admin(u) PROVE IInv'
<1>1. request[u] \in Requests /\ edits \in Nat /\ decisions + 1 \in Nat /\ faults \in Nat
  BY DEF IInv, RequestsOK, WorldOK
<1>2. ASSUME NEW decision \in Decisions, Decide(u, decision) PROVE IInv'
  <2>1. [request[u] EXCEPT !.decision = decision] \in Requests
    BY <1>1 DEF Requests
  <2>2. QED
    BY <1>1, <1>2, <2>1, RequestWriteInv DEF Decide
<1>3. CASE WithdrawRequest(u)
  BY <1>1, <1>3, RequestWriteInv, ObjectTypes DEF WithdrawRequest
<1>4. QED
  BY <1>2, <1>3 DEF Admin

\* A write by a user leaves finalizer and NACUUID alone, and makes the worker's
\* copy stale.
LEMMA UserWritesInv ==
  ASSUME IInv, NEW n \in Names, NEW obj \in NABSLs, UserWrites(n, obj), Guarded(obj),
         Owned(obj, n), nabsl[n].finalizer => obj.finalizer /\ obj.uuid = nabsl[n].uuid,
         obj.uuid \in {NoUUID, nabsl[n].uuid}
  PROVE  IInv'
<1>1. OwnersKept /\ WorldOK' /\ UNCHANGED <<owner, backups>>
  BY DEF IInv, WorldOK, OwnersKept, UserWrites, world
<1>2. OthersOK' /\ ApprovalsKept
  BY <1>1, RequestsKept, VeleroUnchanged DEF UserWrites, OthersOK
<1>3. /\ NABSLsOK'
      /\ nabsl'[n] = obj /\ \A m \in Names \ {n} : nabsl'[m] = nabsl[m]
      /\ cache' = cache
  BY <1>1, WriteOK DEF UserWrites, Owned, IInv, NABSLsOK
<1>4. UNCHANGED <<queue, pc, cur, local>> /\ localFresh' = (localFresh /\ cur # n)
  BY DEF UserWrites
<1>5. pc \in Giving => local.spec \in approved'[local.uuid]
  BY <1>2, <1>4 DEF IInv, WorkerOK, ApprovalsKept, NABSLs, Guarding
<1>6. cur \in Names => /\ Holds(cur, local) => Holds(cur, local)'
                       /\ Holds(cur, cache[cur]) => Holds(cur, cache[cur])'
  BY <1>3, <1>4 DEF Holds
<1>7. localFresh' => localFresh /\ (cur \in Names => nabsl'[cur] = nabsl[cur])
  BY <1>3, <1>4
<1>8. pc \in Opening \union Asking \union Guarding => cur \in Names
  BY DEF IInv, WorkerOK, Opening, Asking, Dropping, Giving, Guarding
<1>9. WorkerOK'
  BY <1>1, <1>3, <1>4, <1>5, <1>6, <1>7, <1>8 DEF IInv, WorkerOK, Guarded, Owned, Agree
<1>10. QED
  BY <1>2, <1>3, <1>9 DEF IInv, OthersOK

LEMMA UserInv == ASSUME IInv, NEW n \in Names, User(n) PROVE IInv'
<1>1. nabsl[n] \in NABSLs /\ Guarded(nabsl[n]) /\ Owned(nabsl[n], n)
  BY DEF IInv, NABSLsOK
<1>2. ASSUME NEW spec \in Specs, CreateNABSL(n, spec) PROVE IInv'
  BY <1>1, <1>2, ObjectTypes, UserWritesInv DEF CreateNABSL, Owned, Guarded
<1>3. ASSUME NEW spec \in Specs, EditSpec(n, spec) PROVE IInv'
  <2>. DEFINE obj == [nabsl[n] EXCEPT !.spec = spec]
  <2>1. /\ obj \in NABSLs /\ Guarded(obj) /\ Owned(obj, n)
        /\ obj.finalizer = nabsl[n].finalizer /\ obj.uuid = nabsl[n].uuid
    BY <1>1, NoneAssumption DEF NABSLs, Guarded, Owned
  <2>2. QED
    BY <1>3, <2>1, UserWritesInv DEF EditSpec
<1>4. CASE DeleteNABSL(n)
  <2>1. CASE nabsl[n].finalizer
    <3>. DEFINE obj == [nabsl[n] EXCEPT !.deletionTimestamp = TRUE]
    <3>1. /\ obj \in NABSLs /\ Guarded(obj) /\ Owned(obj, n)
          /\ obj.finalizer = nabsl[n].finalizer /\ obj.uuid = nabsl[n].uuid
      BY <1>1, <2>1 DEF NABSLs, Guarded, Owned
    <3>2. QED
      BY <1>4, <2>1, <3>1, UserWritesInv DEF DeleteNABSL
  <2>2. CASE ~nabsl[n].finalizer
    BY <1>4, <2>2, ObjectTypes, UserWritesInv DEF DeleteNABSL, Owned
  <2>3. QED
    BY <2>1, <2>2
<1>5. CASE ChangeSource(n)
  <2>1. /\ UNCHANGED <<nabslVars, requestVars, veleroVars, owner, backups, pc, cur, local,
                       localFresh>>
        /\ WorldOK' /\ OwnersKept /\ queue' \subseteq Names
    BY <1>5 DEF ChangeSource, IInv, WorldOK, WorkerOK, OwnersKept
  <2>2. OthersOK' /\ ApprovalsKept
    BY <2>1, RequestsKept, VeleroUnchanged DEF OthersOK
  <2>3. QED
    BY <2>1, <2>2, BystanderInv
<1>6. QED
  BY <1>2, <1>3, <1>4, <1>5 DEF User

LEMMA AcceptBackupInv == ASSUME IInv, NEW n \in Names, AcceptBackup(n) PROVE IInv'
<1>1. /\ UNCHANGED <<nabslVars, requestVars, veleroVars, owner, workerVars>>
      /\ WorldOK' /\ OwnersKept
  BY DEF AcceptBackup, IInv, WorldOK, OwnersKept, bounds
<1>2. OthersOK' /\ ApprovalsKept /\ queue' \subseteq Names
  BY <1>1, RequestsKept, VeleroUnchanged DEF OthersOK, IInv, WorkerOK, workerVars
<1>3. QED
  BY <1>1, <1>2, BystanderInv DEF workerVars

LEMMA NextInv == ASSUME IInv, [Next]_vars PROVE IInv'
<1>1. CASE UNCHANGED vars
  <2>1. OthersOK' /\ ApprovalsKept /\ queue' \subseteq Names
    BY <1>1, OthersKept DEF vars, IInv, WorkerOK, workerVars
  <2>2. QED
    BY <1>1, <2>1, BystanderInv DEF vars, workerVars, world
<1>2. CASE Next
  BY <1>2, ReconcileInv, DeliverNABSLInv, UserInv, AcceptBackupInv, InformersInv, CollectorInv,
     AdminInv, StepInv, CallFailsInv, RestartInv
     DEF Next
<1>3. QED
  BY <1>1, <1>2

-----------------------------------------------------------------------------
(***************************************************************************)
(* Theorems.                                                               *)
(***************************************************************************)
LEMMA Invariance == Spec => []IInv
<1>1. Init => IInv
  BY InitOK
<1>2. IInv /\ [Next]_vars => IInv'
  BY NextInv
<1>3. QED
  BY <1>1, <1>2, PTL DEF Spec

\* Type correctness: no malformed status is written, and the events of requests
\* and BSLs, which know a NABSL only by a label, enqueue nothing but NABSLs.
THEOREM TypeCorrect == Spec => []TypeOK
<1>1. IInv => TypeOK
  BY DEF IInv, RequestsOK, VeleroOK, WorldOK, NABSLsOK, WorkerOK, TypeOK
<1>2. QED
  BY <1>1, Invariance, PTL

\* Velero is given no spec that the admin (or a DPA that wants no approval) did not
\* approve, however old the request and the NABSL are that ensureNonAdminRequest
\* goes by.
THEOREM OnlyApprovedSpecs == Spec => []BSLWasApproved
<1>1. IInv => BSLWasApproved
  BY DEF IInv, VeleroOK, BSLWasApproved
<1>2. QED
  BY <1>1, Invariance, PTL

\* Only syncSecrets and createVeleroBSL create anything, for the NACUUID of the
\* worker's copy.
LEMMA CreationStep ==
  ASSUME IInv, [Next]_vars, NEW u \in UUIDs,
         (u \in secret' \ secret) \/ (bsl[u] = NoSpec /\ bsl'[u] # NoSpec)
  PROVE  u = local.uuid /\ pc \in {"syncSecret", "createBSL"} /\ UNCHANGED <<nabslVars, owner>>
<1>0. bsl \in [UUIDs -> Specs \union {NoSpec}]
  BY DEF IInv, VeleroOK
<1>1. ~UNCHANGED <<secret, bsl>>
  OBVIOUS
<1>2. ASSUME NEW v \in UUIDs,
             secret' \subseteq secret, bsl' \in {bsl, [bsl EXCEPT ![v] = NoSpec]}
      PROVE  FALSE
  BY <1>0, <1>2
<1>3. \A v \in UUIDs : ~DeliverRequest(v) /\ ~DeliverSecret(v) /\ ~DeliverBSL(v)
                       /\ ~VeleroChecks(v) /\ ~Admin(v)
  BY <1>1 DEF DeliverRequest, DeliverSecret, DeliverBSL, VeleroChecks, Admin, WithdrawRequest,
              Decide, veleroVars
<1>4. \A v \in UUIDs : ~Collector(v)
  BY <1>1, <1>2 DEF Collector, CollectSecret, CollectBSL, CollectRequest, veleroVars
<1>5. \A n \in Names : ~Reconcile(n) /\ ~DeliverNABSL(n) /\ ~User(n) /\ ~AcceptBackup(n)
  BY <1>1 DEF Reconcile, DeliverNABSL, User, CreateNABSL, EditSpec, DeleteNABSL, ChangeSource,
              UserWrites, AcceptBackup, veleroVars
<1>6. ~CallFails /\ ~Restart /\ ~UNCHANGED vars
  BY <1>1 DEF CallFails, Restart, vars, veleroVars
<1>7. Step
  BY <1>3, <1>4, <1>5, <1>6 DEF Next
<1>8. /\ ~MarkDelete /\ ~DeleteRequest /\ ~DeleteBackups /\ ~RemoveFinalizer
      /\ ~InitCreate /\ ~ValidateSpec /\ ~SetUUID /\ ~CreateRequest /\ ~ApproveRequest
      /\ ~InitRequest /\ ~SetFinalizer /\ ~Ensure /\ ~Refuse
      /\ ~MarkSynced /\ ~MarkCreated /\ ~SyncStatus
  BY <1>1 DEF MarkDelete, DeleteRequest, DeleteBackups, RemoveFinalizer, InitCreate, ValidateSpec,
              SetUUID, CreateRequest, ApproveRequest, InitRequest, SetFinalizer, Ensure, Refuse,
              MarkSynced, MarkCreated, SyncStatus, veleroVars
<1>9. ~DeleteSecret /\ ~DropSecret
  BY <1>1, <1>2 DEF DeleteSecret, DropSecret, RemoveSecret
<1>10. ~DeleteBSL /\ ~DropBSL
  <2>1. pc \in {"deleteBSL", "dropBSL"} => local.uuid \in UUIDs
    BY WorkerFacts DEF Taking, Guarding, Dropping
  <2>2. QED
    BY <1>2, <2>1 DEF DeleteBSL, DropBSL, RemoveBSL
<1>11. CASE SyncSecret
  BY <1>0, <1>11 DEF SyncSecret, world
<1>12. CASE CreateBSL
  BY <1>0, <1>12 DEF CreateBSL, world
<1>13. QED
  BY <1>7, <1>8, <1>9, <1>10, <1>11, <1>12 DEF Step

\* A Secret or a BSL is created only for a NABSL that is stored with its NACUUID
\* and its finalizer, whatever caches lag.
THEOREM CreationsAreGuarded == Spec => CreatedForNABSL
<1>. DEFINE New(u) == (u \in secret' \ secret) \/ (bsl[u] = NoSpec /\ bsl'[u] # NoSpec)
            Good   == \A u \in UUIDs : New(u) => nabsl[owner[u]].uuid = u /\ nabsl[owner[u]].finalizer
<1>1. ASSUME IInv, [Next]_vars, NEW u \in UUIDs, New(u)
      PROVE  nabsl[owner[u]].uuid = u /\ nabsl[owner[u]].finalizer
  <2>1. u = local.uuid /\ pc \in {"syncSecret", "createBSL"}
    BY <1>1, CreationStep
  <2>2. owner[u] = cur /\ Holds(cur, local)
    BY <1>1, <2>1, WorkerFacts DEF IInv, WorkerOK, Guarding, Giving
  <2>3. QED
    BY <2>1, <2>2 DEF Holds
<1>2. IInv /\ [Next]_vars => [Good]_vars
  BY <1>1
<1>3. QED
  BY <1>2, Invariance, PTL DEF Spec, CreatedForNABSL

\* Nothing but removeNaBSLFinalizerUponVeleroBSLDeletion takes a finalizer away,
\* or a NACUUID with it.
Still(n) == nabsl'[n].finalizer /\ nabsl'[n].uuid = nabsl[n].uuid

LEMMA KeepsNABSL ==
  ASSUME IInv, NEW n \in Names, NEW m \in Names, NEW obj, nabsl[n].finalizer,
         m = n => obj.finalizer /\ obj.uuid = nabsl[n].uuid,
         NEW event, Changed(m, obj, event)
  PROVE  Still(n)
BY DEF IInv, NABSLsOK, Changed, Still

LEMMA UpdateKeepsNABSL ==
  ASSUME IInv, NEW n \in Names, nabsl[n].finalizer, pc # "idle", NEW obj, NEW step,
         obj.uuid = local.uuid, local.finalizer => obj.finalizer,
         \/ UpdateIfChanged(obj, step) \/ Update(obj, FALSE, step) \/ UNCHANGED nabslVars
         \/ localFresh /\ Changed(cur, obj, FALSE)
  PROVE  Still(n)
<1>1. CASE localFresh /\ Changed(cur, obj, FALSE)
  <2>1. cur \in Names /\ Agree(local, nabsl[cur])
    BY <1>1, WorkerFacts DEF IInv, WorkerOK
  <2>2. QED
    BY <1>1, <2>1, KeepsNABSL DEF Agree
<1>2. CASE UNCHANGED nabslVars
  BY <1>2 DEF nabslVars, Still
<1>3. QED
  BY <1>1, <1>2 DEF UpdateIfChanged, Update

LEMMA RemovalStep ==
  ASSUME IInv, [Next]_vars, NEW n \in Names, nabsl[n].finalizer, ~Still(n)
  PROVE  RemoveFinalizer /\ localFresh /\ n = cur
<1>0. nabsl[n].exists /\ nabsl \in [Names -> NABSLs]
  BY DEF IInv, NABSLsOK, Guarded
<1>1. ~UNCHANGED nabsl
  BY <1>0 DEF Still
<1>2. \A u \in UUIDs : ~DeliverRequest(u) /\ ~DeliverSecret(u) /\ ~DeliverBSL(u)
                       /\ ~VeleroChecks(u) /\ ~Admin(u) /\ ~Collector(u)
  BY <1>1 DEF DeliverRequest, DeliverSecret, DeliverBSL, VeleroChecks, Admin, WithdrawRequest,
              Decide, Collector, CollectSecret, CollectBSL, CollectRequest, nabslVars
<1>3. ~Restart /\ ~UNCHANGED vars
      /\ \A m \in Names : ~Reconcile(m) /\ ~DeliverNABSL(m) /\ ~AcceptBackup(m)
  BY <1>1 DEF Restart, vars, nabslVars, Reconcile, DeliverNABSL, AcceptBackup
<1>4. ASSUME NEW m \in Names, User(m) PROVE FALSE
  <2>1. CASE ChangeSource(m)
    BY <1>1, <2>1 DEF ChangeSource, nabslVars
  <2>2. ASSUME NEW spec \in Specs, CreateNABSL(m, spec) PROVE FALSE
    BY <1>0, <2>2, KeepsNABSL DEF CreateNABSL, UserWrites
  <2>3. ASSUME NEW spec \in Specs, EditSpec(m, spec) PROVE FALSE
    <3>1. m = n => LET obj == [nabsl[m] EXCEPT !.spec = spec]
                   IN obj.finalizer /\ obj.uuid = nabsl[n].uuid
      BY <1>0 DEF NABSLs
    <3>2. QED
      BY <1>0, <2>3, <3>1, KeepsNABSL DEF EditSpec, UserWrites
  <2>4. CASE DeleteNABSL(m)
    <3>1. CASE m = n
      <4>1. LET obj == [nabsl[m] EXCEPT !.deletionTimestamp = TRUE]
            IN obj.finalizer /\ obj.uuid = nabsl[n].uuid
        BY <1>0, <3>1 DEF NABSLs
      <4>2. QED
        BY <1>0, <2>4, <3>1, <4>1, KeepsNABSL DEF DeleteNABSL, UserWrites
    <3>2. CASE m # n
      BY <1>0, <2>4, <3>2, KeepsNABSL DEF DeleteNABSL, UserWrites
    <3>3. QED
      BY <3>1, <3>2
  <2>5. QED
    BY <1>4, <2>1, <2>2, <2>3, <2>4 DEF User
<1>5. pc # "idle" => local \in NABSLs
  BY WorkerFacts
<1>6. ~CallFails /\ ~SyncSecret /\ ~CreateBSL
  BY <1>5, UpdateKeepsNABSL DEF CallFails, SyncSecret, CreateBSL, SyncFails
<1>7. Step
  BY <1>2, <1>3, <1>4, <1>6 DEF Next
<1>8. /\ ~DeleteRequest /\ ~DeleteBackups /\ ~CreateRequest /\ ~ApproveRequest /\ ~InitRequest
      /\ ~DeleteSecret /\ ~DropSecret /\ ~DeleteBSL /\ ~DropBSL
  BY <1>1 DEF DeleteRequest, DeleteBackups, CreateRequest, ApproveRequest, InitRequest,
              DeleteSecret, DropSecret, DeleteBSL, DropBSL, nabslVars
<1>. DEFINE Keeps(obj) == obj.uuid = local.uuid /\ (local.finalizer => obj.finalizer)
<1>9. /\ ~MarkDelete /\ ~InitCreate /\ ~ValidateSpec /\ ~SetFinalizer /\ ~Ensure
  <2>1. ASSUME pc # "idle"
        PROVE  /\ Keeps(local) /\ Keeps([local EXCEPT !.phase = "Deleting"])
               /\ Keeps([local EXCEPT !.phase = "New"])
               /\ Keeps([local EXCEPT !.accepted = "True"])
               /\ Keeps([local EXCEPT !.phase = "BackingOff", !.accepted = "False"])
               /\ Keeps([local EXCEPT !.finalizer = TRUE])
               /\ Keeps([local EXCEPT !.refused = TRUE])
               /\ Keeps([local EXCEPT !.phase = "New", !.decided = "approve"])
    BY <1>5, <2>1 DEF NABSLs
  <2>2. ~MarkDelete
    BY <2>1, UpdateKeepsNABSL DEF MarkDelete
  <2>3. ~InitCreate
    BY <2>1, UpdateKeepsNABSL DEF InitCreate
  <2>4. ~ValidateSpec
    BY <2>1, UpdateKeepsNABSL DEF ValidateSpec
  <2>5. ~SetFinalizer
    BY <2>1, UpdateKeepsNABSL DEF SetFinalizer
  <2>6. ~Ensure
    BY <2>1, UpdateKeepsNABSL DEF Ensure
  <2>7. QED
    BY <2>2, <2>3, <2>4, <2>5, <2>6
<1>10. /\ ~Refuse /\ ~MarkSynced /\ ~MarkCreated /\ ~SyncStatus
  <2>1. pc # "idle" => Keeps(local) /\ Keeps([local EXCEPT !.phase = "Created"])
    BY <1>5 DEF NABSLs
  <2>2. QED
    BY <2>1, UpdateKeepsNABSL DEF Refuse, MarkSynced, MarkCreated, SyncStatus
<1>11. ~SetUUID
  <2>1. SUFFICES ASSUME SetUUID PROVE FALSE
    OBVIOUS
  <2>2. cur \in Names
    BY <2>1, WorkerFacts DEF SetUUID
  <2>3. CASE UNCHANGED nabslVars
    BY <1>1, <2>3 DEF nabslVars
  <2>4. ASSUME NEW u, cache[cur].uuid = NoUUID, cacheFresh[cur],
               Changed(cur, [cache[cur] EXCEPT !.uuid = u], FALSE)
        PROVE  FALSE
    <3>1. cur # n
      BY <2>2, <2>4 DEF IInv, NABSLsOK, Guarded
    <3>2. QED
      BY <2>2, <2>4, <3>1, KeepsNABSL
  <2>5. QED
    BY <2>1, <2>3, <2>4 DEF SetUUID
<1>12. RemoveFinalizer
  BY <1>6, <1>7, <1>8, <1>9, <1>10, <1>11 DEF Step
<1>13. localFresh /\ Changed(cur, NoNABSL, TRUE) /\ cur \in Names
  BY <1>1, <1>12, WorkerFacts DEF RemoveFinalizer, Update, nabslVars
<1>14. n = cur
  BY <1>13, KeepsNABSL
<1>15. QED
  BY <1>12, <1>13, <1>14

(***************************************************************************)
(* Where the cache of BSLs keeps up, LocationOK holds too.                 *)
(***************************************************************************)
LEMMA NextOwners == ASSUME IInv, [Next]_vars PROVE OwnersKept
<1>1. CASE UNCHANGED owner
  BY <1>1 DEF OwnersKept
<1>2. CASE SetUUID
  BY <1>2, NoneAssumption DEF SetUUID, OwnersKept, IInv, WorldOK
<1>3. QED
  <2>1. CASE Step
    BY <1>1, <1>2, <2>1
       DEF Step, MarkDelete, DeleteRequest, DeleteSecret, DeleteBSL, DeleteBackups, RemoveFinalizer,
           InitCreate, ValidateSpec, CreateRequest, ApproveRequest, InitRequest, SetFinalizer,
           Ensure, DropSecret, DropBSL, Refuse, SyncSecret, MarkSynced, CreateBSL, MarkCreated,
           SyncStatus, world
  <2>2. CASE \E n \in Names : Reconcile(n) \/ DeliverNABSL(n) \/ User(n) \/ AcceptBackup(n)
    BY <1>1, <2>2 DEF Reconcile, DeliverNABSL, User, CreateNABSL, EditSpec, DeleteNABSL,
                      ChangeSource, UserWrites, AcceptBackup, world
  <2>3. CASE \E u \in UUIDs : \/ DeliverRequest(u) \/ DeliverSecret(u) \/ DeliverBSL(u)
                               \/ VeleroChecks(u) \/ Collector(u) \/ Admin(u)
    BY <1>1, <2>3 DEF DeliverRequest, DeliverSecret, DeliverBSL, VeleroChecks, Collector,
                      CollectSecret, CollectBSL, CollectRequest, Admin, WithdrawRequest, Decide,
                      world
  <2>4. CASE CallFails \/ Restart \/ UNCHANGED vars
    BY <1>1, <2>4 DEF CallFails, Restart, vars, world
  <2>5. QED
    BY <2>1, <2>2, <2>3, <2>4 DEF Next

\* A NonAdminBackup is accepted for a NABSL that holds the BSL it names.
LEMMA AcceptedLocation ==
  ASSUME "bsl" \notin Lagging, LInv, NEW n \in Names, AcceptBackup(n)
  PROVE  nabsl[n].finalizer /\ bsl[nabsl[n].uuid] # NoSpec
<1>. DEFINE u == cache[n].uuid
<1>1. u \in UUIDs /\ owner[u] = n
  BY DEF AcceptBackup, LInv, IInv, NABSLsOK, NABSLs, Owned
<1>2. bsl[u] # NoSpec
  BY DEF AcceptBackup, Prompt
<1>3. QED
  BY <1>1, <1>2 DEF LInv, LocationOK

\* Only two steps lead to where deleteNonAdminBackups looks and beyond.
LEMMA LeavingStep ==
  ASSUME IInv, Step, pc' \in {"deleteBackups", "removeFinalizer"}
  PROVE  DeleteBSL \/ DeleteBackups
<1>1. /\ ~MarkDelete /\ ~DeleteRequest /\ ~DeleteSecret /\ ~RemoveFinalizer
      /\ ~InitCreate /\ ~ValidateSpec /\ ~SetUUID
  BY DEF MarkDelete, DeleteRequest, DeleteSecret, RemoveFinalizer, InitCreate, ValidateSpec, SetUUID,
         RemoveSecret, UpdateIfChanged, Update, Goto, Continue, Exit, Requeue, Return
<1>2. /\ ~CreateRequest /\ ~ApproveRequest /\ ~InitRequest /\ ~SetFinalizer /\ ~Ensure
  BY DEF CreateRequest, ApproveRequest, InitRequest, SetFinalizer, Ensure, UpdateIfChanged, Update,
         Goto, Continue, Exit, Requeue, Return
<1>3. /\ ~DropSecret /\ ~DropBSL /\ ~Refuse /\ ~SyncSecret /\ ~MarkSynced /\ ~CreateBSL
      /\ ~MarkCreated /\ ~SyncStatus
  BY DEF DropSecret, DropBSL, RemoveSecret, RemoveBSL, Refuse, SyncSecret, SyncFails, MarkSynced,
         CreateBSL, MarkCreated, SyncStatus, UpdateIfChanged, Update, Goto, Continue, Exit, Requeue,
         Return
<1>4. QED
  BY <1>1, <1>2, <1>3 DEF Step

\* Others leave the worker where it is, if they leave it there at all.
LEMMA OthersStep ==
  ASSUME IInv, [Next]_vars, ~Step, pc' \in {"deleteBackups", "removeFinalizer"}
  PROVE  /\ UNCHANGED <<pc, cur, local>> /\ (localFresh' => localFresh)
         /\ UNCHANGED backups \/ \E n \in Names : AcceptBackup(n) /\ backups' = backups \union {n}
<1>1. ~CallFails /\ ~Restart
  BY DEF CallFails, Restart, SyncFails, Requeue, Return
<1>2. CASE \E n \in Names : Reconcile(n)
  BY <1>2 DEF Reconcile
<1>3. ASSUME NEW n \in Names, AcceptBackup(n)
      PROVE  UNCHANGED <<pc, cur, local, localFresh>> /\ backups' = backups \union {n}
  BY <1>3 DEF AcceptBackup, workerVars
<1>8. CASE \E n \in Names : DeliverNABSL(n)
  BY <1>8 DEF DeliverNABSL, world
<1>4. CASE \E n \in Names : User(n)
  <2>1. PICK n \in Names : User(n)
    BY <1>4
  <2>2. UNCHANGED <<pc, cur, local, backups>>
    BY <2>1 DEF User, CreateNABSL, EditSpec, DeleteNABSL, ChangeSource, UserWrites, world
  <2>3. ASSUME NEW obj, UserWrites(n, obj) PROVE localFresh' => localFresh
    BY <2>3, Zenon DEF UserWrites
  <2>4. CASE ChangeSource(n)
    BY <2>2, <2>4 DEF ChangeSource
  <2>5. CASE DeleteNABSL(n)
    BY <2>2, <2>3, <2>5, Zenon DEF DeleteNABSL
  <2>6. CASE \E spec \in Specs : CreateNABSL(n, spec) \/ EditSpec(n, spec)
    <3>1. localFresh' => localFresh
      BY <2>3, <2>6, Zenon DEF CreateNABSL, EditSpec
    <3>2. QED
      BY <2>2, <3>1
  <2>7. QED
    BY <2>1, <2>4, <2>5, <2>6, Zenon DEF User
<1>5. CASE \E u \in UUIDs : \/ DeliverRequest(u) \/ DeliverSecret(u) \/ DeliverBSL(u)
                             \/ VeleroChecks(u) \/ Collector(u) \/ Admin(u)
  <2>1. ASSUME NEW u \in UUIDs, DeliverRequest(u) \/ DeliverSecret(u) \/ DeliverBSL(u)
        PROVE  UNCHANGED <<pc, cur, local, localFresh, backups>>
    BY <2>1 DEF DeliverRequest, DeliverSecret, DeliverBSL, world, workerVars
  <2>2. ASSUME NEW u \in UUIDs, VeleroChecks(u) \/ Collector(u)
        PROVE  UNCHANGED <<pc, cur, local, localFresh, backups>>
    BY <2>2 DEF VeleroChecks, Collector, CollectSecret, CollectBSL, CollectRequest, world, workerVars
  <2>3. ASSUME NEW u \in UUIDs, Admin(u)
        PROVE  UNCHANGED <<pc, cur, local, localFresh, backups>>
    <3>1. CASE WithdrawRequest(u)
      BY <3>1 DEF WithdrawRequest, world, workerVars
    <3>2. CASE \E decision \in Decisions : Decide(u, decision)
      BY <3>2, Zenon DEF Decide, world, workerVars
    <3>3. QED
      BY <2>3, <3>1, <3>2 DEF Admin
  <2>4. QED
    BY <1>5, <2>1, <2>2, <2>3
<1>6. CASE UNCHANGED vars
  BY <1>6 DEF vars, workerVars, world
<1>7. QED
  BY <1>1, <1>2, <1>3, <1>4, <1>5, <1>6, <1>8 DEF Next

LEMMA LocationInv ==
  ASSUME "bsl" \notin Lagging, LInv, [Next]_vars
  PROVE  LInv'
<1>0. IInv /\ IInv' /\ OwnersKept
  BY NextInv, NextOwners DEF LInv
<1>1. ASSUME NEW u \in UUIDs, bsl'[u] # NoSpec
      PROVE  nabsl'[owner'[u]].uuid = u /\ nabsl'[owner'[u]].finalizer
  <2>1. CASE bsl[u] = NoSpec
    <3>1. u = local.uuid /\ pc \in {"syncSecret", "createBSL"} /\ UNCHANGED <<nabslVars, owner>>
      BY <1>0, <1>1, <2>1, CreationStep
    <3>2. owner[u] = cur /\ Holds(cur, local)
      BY <1>0, <3>1, WorkerFacts DEF IInv, WorkerOK, Guarding, Giving
    <3>3. QED
      BY <3>1, <3>2 DEF Holds, nabslVars
  <2>2. CASE bsl[u] # NoSpec
    <3>1. PICK n \in Names : n = owner[u] /\ n = owner'[u]
      BY <1>0, <2>2 DEF IInv, VeleroOK, OwnersKept
    <3>2. nabsl[n].uuid = u /\ nabsl[n].finalizer
      BY <2>2, <3>1 DEF LInv, LocationOK
    <3>3. ASSUME ~Still(n) PROVE FALSE
      <4>1. RemoveFinalizer /\ localFresh /\ n = cur
        BY <1>0, <3>2, <3>3, RemovalStep
      <4>2. local = nabsl[n] /\ pc = "removeFinalizer"
        BY <1>0, <4>1 DEF RemoveFinalizer, IInv, WorkerOK, Dropping
      <4>3. QED
        BY <2>2, <3>2, <4>2 DEF LInv, LocationOK
    <3>4. QED
      BY <3>1, <3>2, <3>3 DEF Still
  <2>3. QED
    BY <2>1, <2>2
<1>2. ASSUME Step, pc' \in {"deleteBackups", "removeFinalizer"}
      PROVE  /\ bsl'[local'.uuid] = NoSpec
             /\ pc' = "removeFinalizer" => cur' \notin backups'
  <2>1. CASE DeleteBSL
    <3>1. local.uuid \in UUIDs /\ bslSeen = bsl /\ bsl \in [UUIDs -> Specs \union {NoSpec}]
      BY <1>0, <1>2, <2>1, WorkerFacts DEF DeleteBSL, Step, Prompt, Taking, IInv, VeleroOK
    <3>2. Goto("deleteBackups")
      BY <1>2, <2>1 DEF DeleteBSL, RemoveBSL, Requeue, Return
    <3>3. QED
      BY <2>1, <3>1, <3>2 DEF DeleteBSL, RemoveBSL, Goto, Continue
  <2>2. CASE DeleteBackups
    BY <2>2 DEF DeleteBackups, Goto, Continue, LInv, LocationOK, veleroVars
  <2>3. QED
    BY <1>0, <1>2, <2>1, <2>2, LeavingStep
<1>3. ASSUME ~Step, pc' \in {"deleteBackups", "removeFinalizer"}
      PROVE  /\ bsl'[local'.uuid] = NoSpec
             /\ pc' = "removeFinalizer" /\ localFresh' => cur' \notin backups'
  <2>1. /\ UNCHANGED <<pc, cur, local>> /\ (localFresh' => localFresh)
        /\ UNCHANGED backups \/ \E n \in Names : AcceptBackup(n) /\ backups' = backups \union {n}
    BY <1>0, <1>3, OthersStep
  <2>2. local.uuid \in UUIDs /\ bsl[local.uuid] = NoSpec
    BY <1>0, <1>3, <2>1, WorkerFacts DEF LInv, LocationOK, Taking
  <2>3. bsl'[local.uuid] = NoSpec
    <3>1. pc \notin {"syncSecret", "createBSL"}
      BY <1>3, <2>1
    <3>2. QED
      BY <1>0, <2>2, <3>1, CreationStep
  <2>4. ASSUME pc' = "removeFinalizer", localFresh' PROVE cur' \notin backups'
    <3>1. pc = "removeFinalizer" /\ localFresh /\ cur \notin backups /\ local = nabsl[cur]
      BY <1>0, <2>1, <2>4 DEF LInv, LocationOK, IInv, WorkerOK, Dropping
    <3>2. \A n \in Names : AcceptBackup(n) => n # cur
      BY <2>2, <3>1, AcceptedLocation
    <3>3. QED
      BY <2>1, <3>1, <3>2
  <2>5. QED
    BY <2>1, <2>3, <2>4
<1>4. LocationOK'
  BY <1>1, <1>2, <1>3 DEF LocationOK
<1>5. QED
  BY <1>0, <1>4 DEF LInv

LEMMA LocationInvariance == ASSUME "bsl" \notin Lagging PROVE Spec => []LInv
<1>1. Init => LInv
  BY InitOK DEF Init, LInv, LocationOK
<1>2. LInv /\ [Next]_vars => LInv'
  BY LocationInv
<1>3. QED
  BY <1>1, <1>2, PTL DEF Spec

\* Where the cache of BSLs keeps up, a NABSL with the finalizer goes away only when
\* no live NonAdminBackup uses it, however old the NABSL is that
\* ValidateBackupSpec reads.
THEOREM NoBackupIsLeft == ASSUME "bsl" \notin Lagging PROVE Spec => BackupsGoFirst
<1>. DEFINE Good == \A n \in Names : nabsl[n].finalizer /\ ~nabsl'[n].exists => n \notin backups
<1>1. ASSUME LInv, [Next]_vars, NEW n \in Names, nabsl[n].finalizer, ~nabsl'[n].exists
      PROVE  n \notin backups
  <2>1. IInv /\ IInv'
    BY <1>1, NextInv DEF LInv
  <2>2. ~Still(n)
    BY <1>1, <2>1 DEF IInv, NABSLsOK, Guarded, Still
  <2>3. RemoveFinalizer /\ localFresh /\ n = cur
    BY <1>1, <2>1, <2>2, RemovalStep
  <2>4. QED
    BY <1>1, <2>3 DEF RemoveFinalizer, LInv, LocationOK
<1>2. LInv /\ [Next]_vars => [Good]_vars
  BY <1>1
<1>3. QED
  BY <1>2, LocationInvariance, PTL DEF Spec, BackupsGoFirst

\* What a NABSL of cur has is taken away by the worker, and else only by the
\* collector, for a NABSL its cache lacks.
LEMMA RemovalsStep ==
  ASSUME IInv, [Next]_vars, NEW u \in UUIDs,
         (u \in secret \ secret') \/ (bsl[u] # NoSpec /\ bsl'[u] = NoSpec)
  PROVE  \/ Orphan(u)
         \/ pc # "idle" /\ cur \in Names /\ owner[u] = cur
<1>0. bsl \in [UUIDs -> Specs \union {NoSpec}] /\ secret \subseteq UUIDs
  BY DEF IInv, VeleroOK
<1>1. ~UNCHANGED <<secret, bsl>>
  OBVIOUS
<1>2. \A v \in UUIDs : ~DeliverRequest(v) /\ ~DeliverSecret(v) /\ ~DeliverBSL(v)
                       /\ ~VeleroChecks(v) /\ ~Admin(v)
  BY <1>1 DEF DeliverRequest, DeliverSecret, DeliverBSL, VeleroChecks, Admin, WithdrawRequest,
              Decide, veleroVars
<1>3. ASSUME NEW v \in UUIDs, Collector(v) PROVE Orphan(u)
  <2>1. Orphan(v) /\ (u = v \/ UNCHANGED <<secret, bsl>>)
    BY <1>0, <1>1, <1>3 DEF Collector, CollectSecret, CollectBSL, CollectRequest, veleroVars
  <2>2. QED
    BY <1>1, <2>1
<1>4. \A n \in Names : ~Reconcile(n) /\ ~DeliverNABSL(n) /\ ~User(n) /\ ~AcceptBackup(n)
  BY <1>1 DEF Reconcile, DeliverNABSL, User, CreateNABSL, EditSpec, DeleteNABSL, ChangeSource,
              UserWrites, AcceptBackup, veleroVars
<1>5. ~CallFails /\ ~Restart /\ ~UNCHANGED vars
  BY <1>1 DEF CallFails, Restart, vars, veleroVars
<1>6. ASSUME Step PROVE pc # "idle" /\ cur \in Names /\ owner[u] = cur
  <2>1. /\ ~MarkDelete /\ ~DeleteRequest /\ ~DeleteBackups /\ ~RemoveFinalizer
        /\ ~InitCreate /\ ~ValidateSpec /\ ~SetUUID /\ ~CreateRequest /\ ~ApproveRequest
        /\ ~InitRequest /\ ~SetFinalizer /\ ~Ensure /\ ~Refuse
        /\ ~MarkSynced /\ ~MarkCreated /\ ~SyncStatus
    BY <1>1 DEF MarkDelete, DeleteRequest, DeleteBackups, RemoveFinalizer, InitCreate,
                ValidateSpec, SetUUID, CreateRequest, ApproveRequest, InitRequest, SetFinalizer,
                Ensure, Refuse, MarkSynced, MarkCreated, SyncStatus, veleroVars
  <2>2. /\ pc \in {"deleteSecret", "deleteBSL", "dropSecret", "dropBSL", "syncSecret", "createBSL"}
        /\ u = local.uuid
    <3>1. CASE DeleteSecret \/ DropSecret
      BY <3>1 DEF DeleteSecret, DropSecret, RemoveSecret
    <3>2. CASE DeleteBSL \/ DropBSL
      BY <1>0, <3>2 DEF DeleteBSL, DropBSL, RemoveBSL
    <3>3. CASE SyncSecret
      BY <3>3 DEF SyncSecret
    <3>4. CASE CreateBSL
      BY <1>0, <3>4 DEF CreateBSL
    <3>5. QED
      BY <1>6, <2>1, <3>1, <3>2, <3>3, <3>4 DEF Step
  <2>3. QED
    BY <2>2, WorkerFacts DEF Taking, Guarding, Dropping, Giving
<1>7. QED
  BY <1>2, <1>3, <1>4, <1>5, <1>6 DEF Next

\* What a stored NABSL has is taken away by its own reconcile alone: a NABSL whose
\* NACUUID labels something is one the collector's cache shows, however old it is,
\* since the worker wrote that NACUUID to a NABSL the cache showed.
THEOREM StoredAreSpared == Spec => CollectorSparesStored
<1>. DEFINE Good == \A n \in Names, u \in UUIDs :
              /\ nabsl[n].uuid = u
              /\ (u \in secret \ secret') \/ (bsl[u] # NoSpec /\ bsl'[u] = NoSpec)
              => cur = n
<1>1. ASSUME IInv, [Next]_vars, NEW n \in Names, NEW u \in UUIDs, nabsl[n].uuid = u,
             (u \in secret \ secret') \/ (bsl[u] # NoSpec /\ bsl'[u] = NoSpec)
      PROVE  cur = n
  <2>1. owner[u] = n /\ cache[n].exists
    BY <1>1, NoneAssumption DEF IInv, NABSLsOK, Owned
  <2>2. ~Orphan(u)
    BY <2>1 DEF Orphan
  <2>3. QED
    BY <1>1, <2>1, <2>2, RemovalsStep
<1>2. IInv /\ [Next]_vars => [Good]_vars
  BY <1>1
<1>3. QED
  BY <1>2, Invariance, PTL DEF Spec, CollectorSparesStored

-----------------------------------------------------------------------------
(***************************************************************************)
(* The controller implements LocationLifecycle.  A write of the worker is  *)
(* one of a current copy, so that it says of the life of the NABSL and of  *)
(* its NACUUID what is stored, but for the step it takes; what is created  *)
(* for Velero is created for a NABSL that still is as the worker's copy    *)
(* shows it (WorkerOK).                                                    *)
(***************************************************************************)
Simulated == [Location!Next]_(Location!vars)

\* To LocationLifecycle nothing happens to any NABSL.
SameLife == \A n \in Names : Life(nabsl'[n]) = Life(nabsl[n]) /\ nabsl'[n].uuid = nabsl[n].uuid

LEMMA Stutter ==
  ASSUME SameLife, UNCHANGED <<owner, approved, bsl, secret, backups>>
  PROVE  UNCHANGED Location!vars
BY DEF SameLife, Location!vars, Location!identity, Location!supplies

LEMMA SameLifeKept == ASSUME UNCHANGED nabsl PROVE SameLife
BY DEF SameLife

\* The NABSLs as LocationLifecycle sees them after one was written.
LEMMA ChangedLife ==
  ASSUME IInv, NEW n \in Names, NEW obj, NEW event, Changed(n, obj, event)
  PROVE  /\ Location!Moves(n, Life(nabsl[n]), Life(obj))
         /\ [m \in Names |-> nabsl'[m].uuid]
              = [[m \in Names |-> nabsl[m].uuid] EXCEPT ![n] = obj.uuid]
         /\ obj.uuid = nabsl[n].uuid => \A m \in Names : nabsl'[m].uuid = nabsl[m].uuid
         /\ Life(obj) = Life(nabsl[n]) /\ obj.uuid = nabsl[n].uuid => SameLife
<1>1. \A m \in Names : nabsl'[m] = IF m = n THEN obj ELSE nabsl[m]
  BY DEF IInv, NABSLsOK, Changed
<1>2. QED
  BY <1>1 DEF SameLife, Location!Moves

LEMMA NoNABSLLife ==
  /\ Life(NoNABSL) = "none" /\ NoNABSL.uuid = NoUUID
  /\ \A spec \in Specs : Life(NewNABSL(spec)) = "open" /\ NewNABSL(spec).uuid = NoUUID
BY DEF NoNABSL, NewNABSL, Life

LEMMA LifeInit == Init => Location!Init
<1>. SUFFICES ASSUME Init PROVE Location!Init
  OBVIOUS
<1>1. \A n \in Names : nabsl[n] = NoNABSL
  BY DEF Init
<1>2. {u \in UUIDs : owner[u] # NoName} = {}
  BY DEF Init
<1>3. QED
  BY <1>1, <1>2, NoNABSLLife DEF Init, Location!Init

\* Status().Update of a copy that is current: LocationLifecycle sees nothing of it.
Silent(obj) ==
  /\ obj.exists = local.exists /\ obj.finalizer = local.finalizer
  /\ obj.deletionTimestamp = local.deletionTimestamp /\ obj.uuid = local.uuid

LEMMA StatusWrite ==
  ASSUME IInv, pc # "idle", NEW obj, NEW step, Silent(obj),
         \/ UpdateIfChanged(obj, step) \/ Update(obj, FALSE, step) \/ UNCHANGED nabslVars
         \/ localFresh /\ Changed(cur, obj, FALSE)
  PROVE  SameLife
<1>1. CASE localFresh /\ Changed(cur, obj, FALSE)
  <2>1. cur \in Names /\ Agree(local, nabsl[cur])
    BY <1>1 DEF IInv, WorkerOK
  <2>2. Life(obj) = Life(nabsl[cur]) /\ obj.uuid = nabsl[cur].uuid
    BY <2>1 DEF Agree, Life, Silent
  <2>3. QED
    BY <1>1, <2>1, <2>2, ChangedLife
<1>2. CASE UNCHANGED nabslVars
  BY <1>2, SameLifeKept DEF nabslVars
<1>3. QED
  BY <1>1, <1>2 DEF UpdateIfChanged, Update

\* Who approves grants a spec to the NACUUID of a request.
LEMMA SetRequestSimulated ==
  ASSUME IInv, NEW u \in UUIDs, owner[u] \in Names, NEW obj \in Requests, SetRequest(u, obj),
         UNCHANGED <<nabsl, owner, bsl, secret, backups>>
  PROVE  Simulated
<1>1. SameLife
  BY SameLifeKept
<1>2. CASE obj.decision = "approve" /\ obj.spec # NoSpec
  <2>1. obj.spec \in Specs /\ approved' = [approved EXCEPT ![u] = @ \union {obj.spec}]
    BY <1>2 DEF SetRequest, Requests
  <2>2. u \in {v \in UUIDs : owner[v] # NoName}
    BY NoneAssumption
  <2>3. Location!Grant(u, obj.spec)
    BY <2>1, <2>2 DEF Location!Grant, Location!identity
  <2>4. QED
    BY <2>1, <2>3 DEF Simulated, Location!Next
<1>3. CASE ~(obj.decision = "approve" /\ obj.spec # NoSpec)
  <2>1. approved' = approved
    BY <1>3 DEF SetRequest, IInv, RequestsOK
  <2>2. QED
    BY <1>1, <2>1, Stutter DEF Simulated
<1>4. QED
  BY <1>2, <1>3

\* What is taken away from Velero.
LEMMA WithdrawSimulated ==
  ASSUME IInv, NEW u \in UUIDs, UNCHANGED <<nabsl, owner, approved, backups>>,
         \/ bsl' = [bsl EXCEPT ![u] = NoSpec] /\ UNCHANGED secret
         \/ secret' = secret \ {u} /\ UNCHANGED bsl
         \/ UNCHANGED <<bsl, secret>>
  PROVE  Simulated
<1>1. CASE UNCHANGED <<bsl, secret>>
  BY <1>1, SameLifeKept, Stutter DEF Simulated
<1>2. CASE \/ bsl' = [bsl EXCEPT ![u] = NoSpec] /\ UNCHANGED secret
           \/ secret' = secret \ {u} /\ UNCHANGED bsl
  <2>1. Location!Withdraw(u)
    BY <1>2 DEF Location!Withdraw, Location!identity
  <2>2. QED
    BY <2>1 DEF Simulated, Location!Next
<1>3. QED
  BY <1>1, <1>2

LEMMA StatusStepsSimulated ==
  ASSUME IInv, \/ MarkDelete \/ InitCreate \/ ValidateSpec \/ Ensure
               \/ Refuse \/ MarkSynced \/ MarkCreated \/ SyncStatus
  PROVE  Simulated
<1>1. pc # "idle" /\ UNCHANGED <<owner, approved, bsl, secret, backups>>
  BY DEF MarkDelete, InitCreate, ValidateSpec, Ensure, Refuse, MarkSynced, MarkCreated, SyncStatus,
         requestVars, veleroVars, world
<1>2. /\ Silent(local) /\ Silent([local EXCEPT !.phase = "Deleting"])
      /\ Silent([local EXCEPT !.phase = "New"]) /\ Silent([local EXCEPT !.phase = "Created"])
      /\ Silent([local EXCEPT !.accepted = "True"])
      /\ Silent([local EXCEPT !.phase = "BackingOff", !.accepted = "False"])
      /\ Silent([local EXCEPT !.refused = TRUE])
      /\ Silent([local EXCEPT !.phase = "New", !.decided = "approve"])
  BY <1>1, WorkerFacts DEF NABSLs, Silent
<1>3. SameLife
  <2>1. CASE MarkDelete
    BY <1>1, <1>2, <2>1, StatusWrite DEF MarkDelete
  <2>2. CASE InitCreate
    BY <1>1, <1>2, <2>2, StatusWrite DEF InitCreate
  <2>3. CASE ValidateSpec
    BY <1>1, <1>2, <2>3, StatusWrite DEF ValidateSpec
  <2>4. CASE Ensure
    BY <1>1, <1>2, <2>4, StatusWrite DEF Ensure
  <2>5. CASE Refuse \/ MarkSynced \/ MarkCreated \/ SyncStatus
    BY <1>1, <1>2, <2>5, StatusWrite DEF Refuse, MarkSynced, MarkCreated, SyncStatus
  <2>6. QED
    BY <2>1, <2>2, <2>3, <2>4, <2>5
<1>4. QED
  BY <1>1, <1>3, Stutter DEF Simulated

LEMMA SetFinalizerSimulated == ASSUME IInv, SetFinalizer PROVE Simulated
<1>. DEFINE obj == [local EXCEPT !.finalizer = TRUE]
<1>1. /\ pc = "setFinalizer" /\ UNCHANGED <<owner, approved, bsl, secret, backups>>
      /\ UpdateIfChanged(obj, "ensure")
  BY DEF SetFinalizer, requestVars, veleroVars, world
<1>2. local \in NABSLs /\ local.exists /\ cur \in Names /\ Guarded(local) /\ local.uuid # NoUUID
  BY <1>1, WorkerFacts, NoneAssumption DEF Asking
<1>3. /\ obj.exists = local.exists /\ obj.deletionTimestamp = local.deletionTimestamp
      /\ obj.uuid = local.uuid /\ obj.finalizer = TRUE
  BY <1>2 DEF NABSLs
<1>. HIDE DEF obj
<1>4. CASE local.finalizer
  <2>1. local.finalizer = TRUE
    BY <1>2, <1>4 DEF NABSLs
  <2>2. QED
    BY <1>1, <1>3, <2>1, StatusWrite, Stutter DEF Simulated, Silent
<1>5. CASE UNCHANGED nabslVars
  BY <1>1, <1>5, SameLifeKept, Stutter DEF Simulated, nabslVars
<1>6. CASE ~local.finalizer /\ localFresh /\ Changed(cur, obj, FALSE)
  <2>1. Agree(local, nabsl[cur])
    BY <1>6 DEF IInv, WorkerOK
  <2>2. Life(nabsl[cur]) = "open" /\ Life(obj) = "held" /\ nabsl[cur].uuid = obj.uuid
    BY <1>2, <1>3, <1>6, <2>1 DEF Agree, Life, Guarded
  <2>3. Location!Moves(cur, "open", "held") /\ \A m \in Names : nabsl'[m].uuid = nabsl[m].uuid
    BY <1>2, <1>6, <2>2, ChangedLife
  <2>4. Location!Hold(cur)
    BY <1>1, <1>2, <1>3, <2>2, <2>3 DEF Location!Hold, Location!supplies
  <2>5. QED
    BY <1>2, <2>4 DEF Simulated, Location!Next
<1>7. QED
  BY <1>1, <1>4, <1>5, <1>6 DEF UpdateIfChanged, Update

LEMMA RequestStepsSimulated ==
  ASSUME IInv, DeleteRequest \/ CreateRequest \/ ApproveRequest \/ InitRequest
  PROVE  Simulated
<1>1. /\ pc \in {"deleteRequest", "createRequest", "approveRequest", "initRequest"}
      /\ UNCHANGED <<nabsl, owner, bsl, secret, backups>>
  BY DEF DeleteRequest, CreateRequest, ApproveRequest, InitRequest, nabslVars, veleroVars, world
<1>. DEFINE u == local.uuid
<1>2. /\ u \in UUIDs /\ owner[u] \in Names /\ local.spec \in Specs
      /\ request[u] \in Requests /\ requestSeen[u] \in Requests
  BY <1>1, WorkerFacts DEF IInv, RequestsOK, Taking, Asking
<1>3. \/ UNCHANGED requestVars
      \/ \E obj \in Requests : SetRequest(u, obj)
  <2>1. CASE DeleteRequest
    BY <2>1, ObjectTypes DEF DeleteRequest
  <2>2. CASE CreateRequest
    <3>1. [requestSeen[u] EXCEPT !.phase = requestSeen[u].decision] \in Requests
          /\ [NoRequest EXCEPT !.exists = TRUE, !.decision = FirstDecision] \in Requests
      BY <1>2, ObjectTypes DEF Requests, FirstDecision, Decisions
    <3>2. QED
      BY <2>2, <3>1 DEF CreateRequest
  <2>3. CASE ApproveRequest
    <3>1. [request[u] EXCEPT !.decision = "approve"] \in Requests
      BY <1>2 DEF Requests, Decisions
    <3>2. QED
      BY <2>3, <3>1 DEF ApproveRequest
  <2>4. CASE InitRequest
    <3>1. [request[u] EXCEPT !.spec = local.spec, !.phase = FirstDecision] \in Requests
      BY <1>2 DEF Requests, FirstDecision, Decisions
    <3>2. QED
      BY <2>4, <3>1 DEF InitRequest
  <2>5. QED
    BY <2>1, <2>2, <2>3, <2>4
<1>4. CASE UNCHANGED requestVars
  BY <1>1, <1>4, SameLifeKept, Stutter DEF Simulated, requestVars
<1>5. QED
  BY <1>1, <1>2, <1>3, <1>4, SetRequestSimulated

LEMMA RemovalStepsSimulated ==
  ASSUME IInv, DeleteSecret \/ DeleteBSL \/ DropSecret \/ DropBSL
  PROVE  Simulated
<1>1. /\ local.uuid \in UUIDs
      /\ UNCHANGED <<nabsl, owner, approved, backups>>
  BY WorkerFacts DEF DeleteSecret, DeleteBSL, DropSecret, DropBSL, Taking, Dropping, Guarding,
                     nabslVars, requestVars, world
<1>2. CASE DeleteSecret \/ DropSecret
  BY <1>1, <1>2, WithdrawSimulated DEF DeleteSecret, DropSecret, RemoveSecret
<1>3. CASE DeleteBSL \/ DropBSL
  BY <1>1, <1>3, WithdrawSimulated DEF DeleteBSL, DropBSL, RemoveBSL
<1>4. QED
  BY <1>2, <1>3

\* A Secret and a BSL are created for a NABSL that is held.
LEMMA GivingSimulated == ASSUME IInv, SyncSecret \/ CreateBSL PROVE Simulated
<1>1. /\ cur \in Names /\ local.uuid \in UUIDs /\ Holds(cur, local)
      /\ local.spec \in Specs /\ local.spec \in approved[local.uuid]
      /\ UNCHANGED <<owner, approved, backups>>
  BY WorkerFacts DEF SyncSecret, CreateBSL, IInv, WorkerOK, Giving, Guarding, nabslVars,
                     requestVars, world
<1>2. SameLife
  <2>1. pc # "idle" /\ Silent(local)
    BY DEF SyncSecret, CreateBSL, Silent
  <2>2. QED
    BY <2>1, StatusWrite DEF SyncSecret, CreateBSL, SyncFails
<1>3. Life(nabsl[cur]) \in Location!Held /\ nabsl[cur].uuid = local.uuid
  BY <1>1 DEF IInv, NABSLsOK, Guarded, Holds, Life, Location!Held
<1>4. CASE UNCHANGED <<bsl, secret>>
  BY <1>1, <1>2, <1>4, Stutter DEF Simulated
<1>5. CASE secret' = secret \union {local.uuid} /\ UNCHANGED bsl
  <2>1. Location!Equip(cur)
    BY <1>1, <1>2, <1>3, <1>5 DEF SameLife, Location!Equip, Location!identity
  <2>2. QED
    BY <1>1, <2>1 DEF Simulated, Location!Next
<1>6. CASE bsl' = [bsl EXCEPT ![local.uuid] = local.spec] /\ UNCHANGED secret
  <2>1. Location!Provide(cur, local.spec)
    BY <1>1, <1>2, <1>3, <1>6 DEF SameLife, Location!Provide, Location!identity
  <2>2. QED
    BY <1>1, <2>1 DEF Simulated, Location!Next
<1>7. QED
  BY <1>4, <1>5, <1>6 DEF SyncSecret, CreateBSL

LEMMA DeleteBackupsSimulated == ASSUME IInv, DeleteBackups PROVE Simulated
<1>1. /\ cur \in Names /\ backups' = backups \ {cur}
      /\ UNCHANGED <<nabsl, owner, approved, bsl, secret>>
  BY WorkerFacts DEF DeleteBackups, nabslVars, requestVars, veleroVars
<1>2. Location!Release(cur)
  BY <1>1 DEF Location!Release, Location!identity, Location!supplies
<1>3. QED
  BY <1>1, <1>2 DEF Simulated, Location!Next

LEMMA RemoveFinalizerSimulated == ASSUME LInv, RemoveFinalizer PROVE Simulated
<1>0. IInv
  BY DEF LInv
<1>1. /\ pc = "removeFinalizer" /\ cur \in Names /\ local.exists
      /\ local.deletionTimestamp
      /\ UNCHANGED <<owner, approved, bsl, secret, backups>>
  BY <1>0, WorkerFacts DEF RemoveFinalizer, IInv, WorkerOK, Taking, requestVars, veleroVars, world
<1>2. CASE UNCHANGED nabslVars
  BY <1>1, <1>2, SameLifeKept, Stutter DEF Simulated, nabslVars
<1>3. CASE local.finalizer /\ localFresh /\ Changed(cur, NoNABSL, TRUE)
  <2>1. Agree(local, nabsl[cur]) /\ cur \notin backups
    BY <1>0, <1>1, <1>3 DEF IInv, WorkerOK, LInv, LocationOK
  <2>2. Life(nabsl[cur]) = "leaving"
    BY <1>1, <1>3, <2>1 DEF Agree, Life
  <2>3. Location!Moves(cur, "leaving", "none") /\ NoNABSL.uuid = NoUUID
    BY <1>0, <1>1, <1>3, <2>2, NoNABSLLife, ChangedLife
  <2>4. [m \in Names |-> nabsl'[m].uuid]
          = [[m \in Names |-> nabsl[m].uuid] EXCEPT ![cur] = NoNABSL.uuid]
    BY <1>0, <1>1, <1>3, ChangedLife
  <2>5. Location!Vanish(cur)
    BY <1>1, <2>1, <2>3, <2>4 DEF Location!Vanish, Location!supplies
  <2>6. QED
    BY <1>1, <2>5 DEF Simulated, Location!Next, Location!Vanish, Location!Moves
<1>4. QED
  BY <1>2, <1>3 DEF RemoveFinalizer, Update

\* A NABSL that is given its NACUUID is open, and has none.
LEMMA SetUUIDSimulated == ASSUME IInv, SetUUID PROVE Simulated
<1>. DEFINE again == cache[cur]
<1>1. /\ cur \in Names /\ again \in NABSLs /\ Guarded(again)
      /\ cacheFresh[cur] => again = nabsl[cur]
      /\ UNCHANGED <<approved, bsl, secret, backups>>
  BY WorkerFacts DEF SetUUID, IInv, NABSLsOK, requestVars, veleroVars
<1>2. CASE UNCHANGED <<nabslVars, owner>>
  BY <1>1, <1>2, SameLifeKept, Stutter DEF Simulated, nabslVars
<1>3. ASSUME NEW u \in UUIDs, owner[u] = NoName, again.exists, again.uuid = NoUUID,
             cacheFresh[cur], Changed(cur, [again EXCEPT !.uuid = u], FALSE),
             owner' = [owner EXCEPT ![u] = cur]
      PROVE  Simulated
  <2>. DEFINE obj == [again EXCEPT !.uuid = u]
  <2>1. /\ obj.uuid = u /\ obj.exists = again.exists /\ obj.finalizer = again.finalizer
    BY <1>1 DEF NABSLs
  <2>2. Changed(cur, obj, FALSE) /\ nabsl[cur] = again
    BY <1>1, <1>3
  <2>. HIDE DEF obj
  <2>3. Life(nabsl[cur]) = "open" /\ Life(obj) = "open"
    BY <1>1, <1>3, <2>1, <2>2 DEF Life, Guarded
  <2>4. Location!Moves(cur, "open", "open")
    BY <1>1, <2>2, <2>3, ChangedLife
  <2>5. [m \in Names |-> nabsl'[m].uuid]
          = [[m \in Names |-> nabsl[m].uuid] EXCEPT ![cur] = obj.uuid]
    BY <1>1, <2>2, ChangedLife
  <2>6. [m \in Names |-> Life(nabsl'[m])] = [m \in Names |-> Life(nabsl[m])]
    BY <1>1, <2>4 DEF Location!Moves
  <2>7. {v \in UUIDs : owner'[v] # NoName} = {v \in UUIDs : owner[v] # NoName} \union {u}
    BY <1>1, <1>3, NoneAssumption DEF IInv, WorldOK
  <2>8. Location!Identify(cur, u)
    BY <1>1, <1>3, <2>1, <2>2, <2>3, <2>5, <2>6, <2>7 DEF Location!Identify, Location!supplies
  <2>9. QED
    BY <1>1, <2>8 DEF Simulated, Location!Next
<1>4. QED
  BY <1>2, <1>3 DEF SetUUID

LEMMA StepSimulated == ASSUME LInv, Step PROVE Simulated
<1>1. IInv
  BY DEF LInv
<1>2. QED
  BY <1>1, StatusStepsSimulated, SetFinalizerSimulated, RequestStepsSimulated, RemovalStepsSimulated,
       GivingSimulated, DeleteBackupsSimulated, RemoveFinalizerSimulated, SetUUIDSimulated
     DEF Step

\* What the users do.
LEMMA UserSimulated == ASSUME IInv, NEW n \in Names, User(n) PROVE Simulated
<1>1. UNCHANGED <<owner, approved, bsl, secret, backups>>
  BY DEF User, CreateNABSL, EditSpec, DeleteNABSL, ChangeSource, UserWrites, requestVars,
         veleroVars, world
<1>2. nabsl[n] \in NABSLs /\ Guarded(nabsl[n])
  BY DEF IInv, NABSLsOK
<1>3. ASSUME NEW spec \in Specs, CreateNABSL(n, spec) PROVE Simulated
  <2>1. Changed(n, NewNABSL(spec), TRUE) /\ ~nabsl[n].exists
    BY <1>3 DEF CreateNABSL, UserWrites
  <2>2. Life(nabsl[n]) = "none" /\ nabsl[n].uuid = NewNABSL(spec).uuid
    BY <1>2, <2>1, NoNABSLLife DEF Life, Guarded
  <2>3. Location!Moves(n, "none", "open") /\ \A m \in Names : nabsl'[m].uuid = nabsl[m].uuid
    BY <2>1, <2>2, NoNABSLLife, ChangedLife
  <2>4. Location!Appear(n)
    BY <1>1, <2>3 DEF Location!Appear, Location!supplies
  <2>5. QED
    BY <2>4 DEF Simulated, Location!Next
<1>4. ASSUME NEW spec \in Specs, EditSpec(n, spec) PROVE Simulated
  <2>. DEFINE obj == [nabsl[n] EXCEPT !.spec = spec]
  <2>1. Changed(n, obj, TRUE)
    BY <1>4 DEF EditSpec, UserWrites
  <2>2. Life(obj) = Life(nabsl[n]) /\ obj.uuid = nabsl[n].uuid
    BY <1>2 DEF NABSLs, Life
  <2>. HIDE DEF obj
  <2>3. SameLife
    BY <2>1, <2>2, ChangedLife
  <2>4. QED
    BY <1>1, <2>3, Stutter DEF Simulated
<1>5. CASE DeleteNABSL(n) /\ nabsl[n].finalizer
  <2>. DEFINE obj == [nabsl[n] EXCEPT !.deletionTimestamp = TRUE]
  <2>1. Changed(n, obj, TRUE) /\ nabsl[n].exists /\ ~nabsl[n].deletionTimestamp
    BY <1>5 DEF DeleteNABSL, UserWrites
  <2>2. Life(nabsl[n]) = "held" /\ Life(obj) = "leaving" /\ obj.uuid = nabsl[n].uuid
    BY <1>2, <1>5, <2>1 DEF NABSLs, Life
  <2>. HIDE DEF obj
  <2>3. Location!Moves(n, "held", "leaving") /\ \A m \in Names : nabsl'[m].uuid = nabsl[m].uuid
    BY <2>1, <2>2, ChangedLife
  <2>4. Location!Leave(n)
    BY <1>1, <2>3 DEF Location!Leave, Location!supplies
  <2>5. QED
    BY <2>4 DEF Simulated, Location!Next
<1>6. CASE DeleteNABSL(n) /\ ~nabsl[n].finalizer
  <2>1. Changed(n, NoNABSL, TRUE) /\ nabsl[n].exists
    BY <1>6 DEF DeleteNABSL, UserWrites
  <2>2. Life(nabsl[n]) = "open"
    BY <1>6, <2>1 DEF Life
  <2>3. Location!Moves(n, "open", "none")
    BY <2>1, <2>2, NoNABSLLife, ChangedLife
  <2>4. [m \in Names |-> nabsl'[m].uuid]
          = [[m \in Names |-> nabsl[m].uuid] EXCEPT ![n] = NoNABSL.uuid]
    BY <2>1, ChangedLife
  <2>5. Location!Vanish(n)
    BY <1>1, <2>3, <2>4, NoNABSLLife DEF Location!Vanish, Location!supplies
  <2>6. QED
    BY <2>5 DEF Simulated, Location!Next
<1>7. CASE ChangeSource(n)
  BY <1>1, <1>7, SameLifeKept, Stutter DEF ChangeSource, nabslVars, Simulated
<1>8. QED
  BY <1>3, <1>4, <1>5, <1>6, <1>7 DEF User

\* A NonAdminBackup is accepted for a NABSL that is held: its BSL is there.
LEMMA AcceptBackupSimulated ==
  ASSUME "bsl" \notin Lagging, LInv, NEW n \in Names, AcceptBackup(n) PROVE Simulated
<1>1. /\ backups' = backups \union {n}
      /\ UNCHANGED <<nabsl, owner, approved, bsl, secret>>
  BY DEF AcceptBackup, nabslVars, requestVars, veleroVars
<1>2. nabsl[n].finalizer
  BY AcceptedLocation
<1>3. Life(nabsl[n]) \in Location!Held
  BY <1>2 DEF LInv, IInv, NABSLsOK, Guarded, Life, Location!Held
<1>4. Location!Use(n)
  BY <1>1, <1>3 DEF Location!Use, Location!identity, Location!supplies
<1>5. QED
  BY <1>4 DEF Simulated, Location!Next

LEMMA AdminSimulated ==
  ASSUME IInv, NEW u \in UUIDs, Admin(u) \/ CollectRequest(u) PROVE Simulated
<1>1. /\ owner[u] \in Names /\ UNCHANGED <<nabsl, owner, bsl, secret, backups>>
  BY DEF Admin, WithdrawRequest, Decide, CollectRequest, IInv, RequestsOK, nabslVars, veleroVars,
         world
<1>2. \E obj \in Requests : SetRequest(u, obj)
  <2>1. CASE CollectRequest(u) \/ WithdrawRequest(u)
    BY <2>1, ObjectTypes DEF CollectRequest, WithdrawRequest
  <2>2. ASSUME NEW decision \in Decisions, Decide(u, decision)
        PROVE  \E obj \in Requests : SetRequest(u, obj)
    <3>1. [request[u] EXCEPT !.decision = decision] \in Requests
      BY DEF IInv, RequestsOK, Requests
    <3>2. QED
      BY <2>2, <3>1 DEF Decide
  <2>3. QED
    BY <2>1, <2>2 DEF Admin
<1>3. QED
  BY <1>1, <1>2, SetRequestSimulated

LEMMA CollectorSimulated == ASSUME IInv, NEW u \in UUIDs, Collector(u) PROVE Simulated
<1>1. CASE CollectSecret(u) \/ CollectBSL(u)
  BY <1>1, WithdrawSimulated DEF CollectSecret, CollectBSL, nabslVars, requestVars, world
<1>2. QED
  BY <1>1, AdminSimulated DEF Collector

LEMMA CallFailsSimulated == ASSUME IInv, CallFails PROVE Simulated
<1>1. pc # "idle" /\ Silent(local) /\ UNCHANGED <<owner, approved, bsl, secret, backups>>
  BY DEF CallFails, Silent, requestVars, veleroVars, world
<1>2. SameLife
  BY <1>1, StatusWrite DEF CallFails, SyncFails
<1>3. QED
  BY <1>1, <1>2, Stutter DEF Simulated

LEMMA NextSimulated == ASSUME "bsl" \notin Lagging, LInv, [Next]_vars PROVE Simulated
<1>0. IInv
  BY DEF LInv
<1>1. CASE \/ Restart \/ UNCHANGED vars
           \/ \E n \in Names : Reconcile(n) \/ DeliverNABSL(n)
           \/ \E u \in UUIDs : DeliverRequest(u) \/ DeliverSecret(u) \/ DeliverBSL(u)
                               \/ VeleroChecks(u)
  <2>1. UNCHANGED <<nabsl, owner, approved, bsl, secret, backups>>
    BY <1>1 DEF Restart, vars, Reconcile, DeliverNABSL, DeliverRequest, DeliverSecret,
                DeliverBSL, VeleroChecks, nabslVars, requestVars, veleroVars, world
  <2>2. QED
    BY <2>1, SameLifeKept, Stutter DEF Simulated
<1>2. QED
  BY <1>0, <1>1, StepSimulated, CallFailsSimulated, UserSimulated, AcceptBackupSimulated,
     AdminSimulated, CollectorSimulated
     DEF Next

\* The controller implements LocationLifecycle where the cache of BSLs keeps up,
\* whatever other caches lag and whatever fails: a NABSL is identified once, then
\* held, and only then given to Velero, of a spec that was approved, and used,
\* until nobody uses it.
THEOREM ControllerImplementsLocationLifecycle ==
  ASSUME "bsl" \notin Lagging PROVE Spec => LocationKept
<1>1. Init => Location!Init
  BY LifeInit
<1>2. LInv /\ [Next]_vars => [Location!Next]_(Location!vars)
  BY NextSimulated DEF Simulated
<1>3. QED
  BY <1>1, <1>2, LocationInvariance, PTL DEF Spec, LocationKept, Location!Spec
=============================================================================
