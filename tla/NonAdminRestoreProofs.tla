----------------------- MODULE NonAdminRestoreProofs -----------------------
(***************************************************************************)
(* Theorems about the NonAdminRestore controller, for any set of NARs and  *)
(* NACUUIDs, any choice of the caches that lag and any number of faults.   *)
(*                                                                         *)
(* The worker acts on copies that may be old.  What makes it safe is that  *)
(* it alone takes finalizers off, and only from a NAR it knows to be       *)
(* terminating: an old copy that has the finalizer and is not terminating  *)
(* tells the truth about both the finalizer and the NACUUID (NARsOK), and  *)
(* during the creation path any copy with the finalizer does (WorkerOK).   *)
(***************************************************************************)
EXTENDS NonAdminRestore, TLAPS

Guarded(obj)  == obj.finalizer => obj.exists /\ obj.uuid # NoUUID
Owned(obj, n) == obj.uuid # NoUUID => owner[obj.uuid] = n

\* NAR n still has the finalizer and the NACUUID of the copy.
Holds(n, copy) == nar[n].finalizer /\ nar[n].uuid = copy.uuid

OthersOK ==
  /\ owner \in [UUIDs -> Names \union {NoName}]
  /\ vr \in [UUIDs -> VRs] /\ vrSeen \in [UUIDs -> VRs] /\ vrEvent \in [UUIDs -> BOOLEAN]
  /\ nab \in NABStates /\ nabSeen \in NABStates
  /\ collecting \in UUIDs \union {NoUUID}
  /\ edits \in Nat /\ changes \in Nat /\ faults \in Nat
  /\ \A u \in UUIDs : vr[u].state # "absent" \/ vrSeen[u].state # "absent" \/ vrEvent[u]
                        => owner[u] \in Names

NARsOK ==
  /\ nar \in [Names -> NARs] /\ cache \in [Names -> NARs]
  /\ cacheFresh \in [Names -> BOOLEAN] /\ narEvent \in [Names -> BOOLEAN]
  /\ \A n \in Names :
       /\ Guarded(nar[n]) /\ Owned(nar[n], n)
       /\ Guarded(cache[n]) /\ Owned(cache[n], n)
       /\ cacheFresh[n] => cache[n] = nar[n]
       /\ cache[n].finalizer /\ ~cache[n].deletionTimestamp => Holds(n, cache[n])

Taking  == {"markDelete", "deleteRestore"}
Opening == {"init", "validate", "setUUID"}

\* What holds of the copy the worker is about to take its step with.
WorkerOK ==
  /\ queue \subseteq Names /\ pc \in Steps /\ cur \in Names \union {NoName}
  /\ local \in NARs /\ localFresh \in BOOLEAN /\ vrRead \in VRStates
  /\ localFresh => pc # "idle" /\ local = nar[cur]
  /\ pc # "idle" => /\ cur \in Names
                    /\ local.exists /\ Guarded(local) /\ Owned(local, cur)
                    /\ "nar" \notin Lagging /\ nar[cur].queued => local.queued
  /\ pc \in Taking =>
       local.deletionTimestamp /\ (localFresh => cache[cur].deletionTimestamp)
  /\ pc \in Opening /\ cache[cur].finalizer => Holds(cur, cache[cur])
  /\ pc \in {"setFinalizer", "createRestore", "syncStatus"} => local.uuid # NoUUID
  /\ pc = "setFinalizer" /\ local.finalizer => Holds(cur, local)
  /\ pc \in {"createRestore", "syncStatus"} => Holds(cur, local)

IInv == OthersOK /\ NARsOK /\ WorkerOK

-----------------------------------------------------------------------------
LEMMA NARTypes ==
  /\ NoNAR \in NARs /\ ~NoNAR.exists /\ ~NoNAR.finalizer /\ NoNAR.uuid = NoUUID
  /\ \A valid \in BOOLEAN : /\ NewNAR(valid) \in NARs
                            /\ NewNAR(valid).uuid = NoUUID /\ ~NewNAR(valid).finalizer
                            /\ ~NewNAR(valid).queued
  /\ ~NoNAR.queued
BY DEF NoNAR, NewNAR, NARs, VRStates

LEMMA InitOK == Init => IInv
<1>. SUFFICES ASSUME Init PROVE IInv
  OBVIOUS
<1>1. OthersOK
  BY DEF Init, OthersOK, NoVR, VRs, VRStates, NABStates
<1>2. NARsOK
  BY NARTypes DEF Init, NARsOK, Guarded, Owned
<1>3. WorkerOK
  BY NARTypes DEF Init, WorkerOK, Steps, VRStates, Taking, Opening
<1>4. QED
  BY <1>1, <1>2, <1>3 DEF IInv

-----------------------------------------------------------------------------
(***************************************************************************)
(* Writes of a NAR.                                                        *)
(***************************************************************************)

\* The NACUUIDs given to NARs stay theirs.
OwnersKept == \A u \in UUIDs : owner[u] \in Names => owner'[u] = owner[u]

LEMMA WriteOK ==
  ASSUME IInv, NEW n \in Names, NEW obj \in NARs, NEW event \in BOOLEAN, OwnersKept,
         Changed(n, obj, event), Guarded(obj), obj.uuid # NoUUID => owner'[obj.uuid] = n,
         \/ cache[n].deletionTimestamp
         \/ nar[n].finalizer => obj.finalizer /\ obj.uuid = nar[n].uuid
  PROVE  /\ NARsOK'
         /\ nar'[n] = obj /\ \A m \in Names \ {n} : nar'[m] = nar[m]
         /\ cache' = cache
<1>1. /\ nar' \in [Names -> NARs] /\ cache' = cache
      /\ cacheFresh' \in [Names -> BOOLEAN] /\ narEvent' \in [Names -> BOOLEAN]
      /\ nar'[n] = obj /\ \A m \in Names \ {n} : nar'[m] = nar[m]
      /\ ~cacheFresh'[n] /\ \A m \in Names \ {n} : cacheFresh'[m] = cacheFresh[m]
  BY DEF IInv, NARsOK, Changed
<1>2. ASSUME NEW m \in Names
      PROVE  /\ Guarded(nar[m])' /\ Owned(nar[m], m)' /\ Guarded(cache[m])' /\ Owned(cache[m], m)'
             /\ (cacheFresh[m] => cache[m] = nar[m])'
    <2>1. nar[m] \in NARs /\ cache[m] \in NARs
      BY DEF IInv, NARsOK
    <2>2. ASSUME NEW o \in NARs, Owned(o, m) PROVE o.uuid # NoUUID => owner'[o.uuid] = m
      BY <2>2 DEF OwnersKept, Owned, NARs
    <2>3. QED
      BY <1>1, <2>1, <2>2 DEF IInv, NARsOK, Guarded, Owned
<1>3. ASSUME NEW m \in Names, cache[m].finalizer /\ ~cache[m].deletionTimestamp
      PROVE  Holds(m, cache[m])'
  BY <1>1, <1>3 DEF IInv, NARsOK, Holds
<1>4. QED
  BY <1>1, <1>2, <1>3 DEF NARsOK, IInv

LEMMA NARsKept ==
  ASSUME IInv, UNCHANGED <<narVars, owner>>
  PROVE  NARsOK'
BY DEF IInv, NARsOK, Holds, Guarded, Owned, narVars

LEMMA OthersKept ==
  ASSUME IInv, UNCHANGED <<owner, vrVars, nabVars, collecting, bounds>>
  PROVE  OthersOK' /\ OwnersKept
BY DEF IInv, OthersOK, OwnersKept, vrVars, nabVars, bounds

(***************************************************************************)
(* How a step of the worker ends.                                          *)
(***************************************************************************)
LEMMA ReturnInv ==
  ASSUME IInv, NEW q \in SUBSET Names, Return(q), OthersOK', NARsOK'
  PROVE  IInv'
<1>1. WorkerOK'
  BY NARTypes DEF Return, WorkerOK, Steps, VRStates, Taking, Opening
<1>2. QED
  BY <1>1 DEF IInv

LEMMA StopInv ==
  ASSUME IInv, pc # "idle", Exit \/ Requeue, OthersOK', NARsOK'
  PROVE  IInv'
<1>1. queue \in SUBSET Names /\ queue \union {cur} \in SUBSET Names
  BY DEF IInv, WorkerOK
<1>2. QED
  BY <1>1, ReturnInv DEF Exit, Requeue

\* An edit of the worker's copy that it may write before it takes step.
Edit(obj, step) ==
  /\ obj \in NARs /\ obj.exists /\ Guarded(obj) /\ obj.uuid = local.uuid
  /\ obj.deletionTimestamp = local.deletionTimestamp
  /\ local.finalizer => obj.finalizer
  /\ step # "idle" => obj.queued = local.queued
  /\ step = "createRestore" => obj.finalizer

Follows(step) ==
  \/ step = "idle"
  \/ pc \in Taking /\ step \in Taking
  \/ pc \in Opening /\ step \in Opening
  \/ pc = "setFinalizer" /\ step = "createRestore"

LEMMA UpdateIfChangedInv ==
  ASSUME IInv, pc # "idle", NEW step \in Steps, NEW obj, Edit(obj, step), Follows(step),
         UpdateIfChanged(obj, step) \/ Update(obj, FALSE, step),
         UNCHANGED <<owner, vrVars, nabVars, collecting, bounds>>
  PROVE  IInv'
<1>0. OthersOK' /\ OwnersKept
  BY OthersKept
<1>1. CASE UNCHANGED narVars /\ (Exit \/ Requeue)
  BY <1>0, <1>1, StopInv, NARsKept
<1>2. CASE UNCHANGED narVars /\ obj = local /\ step # "idle" /\ Continue(step, obj)
  <2>1. pc' = step /\ local' = local /\ UNCHANGED <<queue, cur, localFresh, vrRead>>
    BY <1>2 DEF Continue
  <2>2. WorkerOK'
    BY <1>2, <2>1 DEF IInv, WorkerOK, Edit, Follows, Taking, Opening, Holds, Guarded, Owned,
                      narVars
  <2>3. QED
    BY <1>0, <1>2, <2>2, NARsKept DEF IInv
<1>3. CASE localFresh /\ Changed(cur, obj, FALSE) /\ Continue(step, obj)
  <2>1. cur \in Names /\ local = nar[cur] /\ Owned(local, cur)
    BY <1>3 DEF IInv, WorkerOK
  <2>2. /\ NARsOK'
        /\ nar'[cur] = obj /\ \A m \in Names \ {cur} : nar'[m] = nar[m]
        /\ cache' = cache
    BY <1>0, <1>3, <2>1, WriteOK DEF Edit, Owned
  <2>3. CASE step = "idle"
    BY <1>0, <1>3, <2>2, <2>3, StopInv DEF Continue
  <2>4. CASE step # "idle"
    <3>1. pc' = step /\ local' = obj /\ UNCHANGED <<queue, cur, localFresh, vrRead>>
      BY <1>3, <2>4 DEF Continue
    <3>2. Holds(cur, obj)' <=> obj.finalizer
      BY <2>2, <3>1 DEF Holds
    <3>3. pc' \in Opening /\ cache[cur].finalizer => Holds(cur, cache[cur])'
      BY <2>1, <2>2, <2>4, <3>1 DEF IInv, WorkerOK, Edit, Follows, Taking, Opening, Holds
    <3>4. WorkerOK'
      BY <2>1, <2>2, <2>4, <3>1, <3>2, <3>3
         DEF IInv, WorkerOK, Edit, Follows, Taking, Opening, Guarded, Owned, Holds
    <3>5. QED
      BY <1>0, <2>2, <3>4 DEF IInv
  <2>5. QED
    BY <2>3, <2>4
<1>4. QED
  BY <1>1, <1>2, <1>3 DEF UpdateIfChanged, Update, Continue

\* The worker's state and the NARs are untouched: only the queue may grow.
LEMMA BystanderInv ==
  ASSUME IInv, OthersOK', queue' \subseteq Names,
         UNCHANGED <<narVars, owner, pc, cur, local, localFresh, vrRead>>
  PROVE  IInv'
<1>1. WorkerOK'
  BY DEF IInv, WorkerOK, Guarded, Owned, Holds, narVars
<1>2. QED
  BY <1>1, NARsKept DEF IInv

\* A write by a user or the NAB controller leaves finalizer and NACUUID alone,
\* and makes the worker's copy stale.
LEMMA ForeignWriteInv ==
  ASSUME IInv, NEW n \in Names, NEW obj \in NARs, WriteNAR(n, obj), edits' \in Nat,
         Guarded(obj), Owned(obj, n), obj.queued => nar[n].queued,
         nar[n].finalizer => obj.finalizer /\ obj.uuid = nar[n].uuid
  PROVE  IInv'
<1>1. OthersOK' /\ OwnersKept
  BY DEF IInv, OthersOK, OwnersKept, WriteNAR, vrVars, nabVars
<1>2. /\ NARsOK'
      /\ nar'[n] = obj /\ \A m \in Names \ {n} : nar'[m] = nar[m]
      /\ cache' = cache
  BY <1>1, WriteOK DEF WriteNAR, Owned
<1>3. UNCHANGED <<owner, queue, pc, cur, local, vrRead>> /\ localFresh' = (localFresh /\ cur # n)
  BY DEF WriteNAR
<1>4. CASE cur = n
  <2>1. Holds(cur, local) => Holds(cur, local)'
    BY <1>2, <1>3, <1>4 DEF Holds
  <2>2. Holds(cur, cache[cur]) => Holds(cur, cache[cur])'
    BY <1>2, <1>3, <1>4 DEF Holds
  <2>3. nar'[cur].queued => nar[cur].queued
    BY <1>2, <1>4
  <2>4. WorkerOK'
    BY <1>2, <1>3, <1>4, <2>1, <2>2, <2>3 DEF IInv, WorkerOK, Guarded, Owned
  <2>5. QED
    BY <1>1, <1>2, <2>4 DEF IInv
<1>5. CASE cur # n
  <2>1. cur \in Names => nar'[cur] = nar[cur]
    BY <1>2, <1>5
  <2>2. localFresh' = localFresh
    BY <1>3, <1>5 DEF IInv, WorkerOK
  <2>3. WorkerOK'
    BY <1>2, <1>3, <2>1, <2>2
       DEF IInv, WorkerOK, Guarded, Owned, Holds, Taking, Opening
  <2>4. QED
    BY <1>1, <1>2, <2>3 DEF IInv
<1>6. QED
  BY <1>4, <1>5

-----------------------------------------------------------------------------
(***************************************************************************)
(* The steps of the worker.                                                *)
(***************************************************************************)
LEMMA ReconcileInv == ASSUME IInv, Prompt, NEW n \in Names, Reconcile(n) PROVE IInv'
<1>1. OthersOK' /\ NARsOK'
  BY OthersKept, NARsKept DEF Reconcile
<1>2. cache[n] \in NARs /\ Guarded(cache[n]) /\ Owned(cache[n], n)
  BY DEF IInv, NARsOK
<1>3. UNCHANGED <<narVars, owner, vrRead>> /\ queue' \subseteq Names
  BY DEF Reconcile, IInv, WorkerOK
<1>4. CASE cache[n].exists
  <2>1. /\ pc' = IF cache[n].deletionTimestamp THEN "markDelete" ELSE "init"
        /\ cur' = n /\ local' = cache[n] /\ localFresh' = cacheFresh[n]
    BY <1>4 DEF Reconcile
  <2>2. "nar" \notin Lagging => cache[n] = nar[n]
    BY DEF Prompt, IInv, NARsOK
  <2>3. ~cache[n].deletionTimestamp /\ cache[n].finalizer => Holds(n, cache[n])
    BY DEF IInv, NARsOK
  <2>4. cacheFresh[n] => cache[n] = nar[n]
    BY DEF IInv, NARsOK
  <2>5. vrRead \in VRStates /\ cacheFresh[n] \in BOOLEAN /\ cache[n].deletionTimestamp \in BOOLEAN
    BY <1>2 DEF IInv, WorkerOK, NARsOK, NARs
  <2>6. pc' \in Steps /\ pc' \in {"markDelete", "init"}
        /\ (pc' = "markDelete" <=> cache[n].deletionTimestamp)
    BY <2>1, <2>5 DEF Steps
  <2>7. WorkerOK'
    BY <1>2, <1>3, <1>4, <2>1, <2>2, <2>3, <2>4, <2>5, <2>6
       DEF WorkerOK, Guarded, Owned, Holds, Taking, Opening, narVars
  <2>8. QED
    BY <1>1, <2>7 DEF IInv
<1>5. CASE ~cache[n].exists
  BY <1>1, <1>3, <1>5, BystanderInv DEF Reconcile
<1>6. QED
  BY <1>4, <1>5

\* The edits of the worker's copy, one by one.
LEMMA EditsOK ==
  ASSUME IInv, pc # "idle"
  PROVE  /\ Edit([local EXCEPT !.phase = "Deleting"], "deleteRestore")
         /\ Edit([local EXCEPT !.phase = "New"], "validate")
         /\ Edit([local EXCEPT !.accepted = "True"], "setUUID")
         /\ Edit([local EXCEPT !.phase = "BackingOff", !.accepted = "False"], "idle")
         /\ local.uuid # NoUUID => Edit([local EXCEPT !.finalizer = TRUE], "createRestore")
         /\ Edit([local EXCEPT !.phase = "Created", !.queued = TRUE, !.mirror = vrRead], "idle")
         /\ Edit(local, "validate")
<1>1. local \in NARs /\ local.exists /\ Guarded(local) /\ vrRead \in VRStates
  BY DEF IInv, WorkerOK
<1>2. QED
  BY <1>1 DEF Edit, Guarded, NARs

LEMMA EditStepsInv ==
  ASSUME IInv, MarkDelete \/ InitCreate \/ ValidateSpec \/ SetFinalizer \/ SyncStatus
  PROVE  IInv'
<1>. USE EditsOK, UpdateIfChangedInv
<1>1. CASE MarkDelete
  BY <1>1 DEF MarkDelete, Follows, Taking, Steps
<1>2. CASE InitCreate
  <2>1. CASE local.phase # "unset"
    BY <1>2, <2>1 DEF InitCreate, Follows, Opening, Steps, UpdateIfChanged
  <2>2. CASE local.phase = "unset"
    BY <1>2, <2>2 DEF InitCreate, Follows, Opening, Steps
  <2>3. QED
    BY <2>1, <2>2
<1>3. CASE ValidateSpec
  BY <1>3 DEF ValidateSpec, Follows, Opening, Steps
<1>4. CASE SetFinalizer
  <2>1. local.uuid # NoUUID
    BY <1>4 DEF IInv, WorkerOK, SetFinalizer
  <2>2. QED
    BY <1>4, <2>1 DEF SetFinalizer, Follows, Steps
<1>5. CASE SyncStatus
  BY <1>5 DEF SyncStatus, Follows, Steps
<1>6. QED
  BY <1>1, <1>2, <1>3, <1>4, <1>5

LEMMA SetUUIDInv == ASSUME IInv, Prompt, SetUUID PROVE IInv'
<1>. DEFINE again == cache[cur]
<1>1. /\ cur \in Names /\ again \in NARs /\ Guarded(again) /\ Owned(again, cur)
      /\ cacheFresh[cur] \in BOOLEAN /\ (cacheFresh[cur] => again = nar[cur])
      /\ pc = "setUUID" /\ (again.finalizer => Holds(cur, again))
      /\ ("nar" \notin Lagging => cacheFresh[cur])
  BY DEF IInv, WorkerOK, NARsOK, SetUUID, Opening, Prompt
<1>2. CASE Requeue /\ UNCHANGED <<narVars, owner>>
  BY <1>1, <1>2, StopInv, OthersKept, NARsKept DEF SetUUID
<1>3. CASE /\ again.exists /\ again.uuid # NoUUID
           /\ pc' = "setFinalizer"
           /\ local' = again /\ localFresh' = cacheFresh[cur]
           /\ UNCHANGED <<narVars, owner, queue, cur, vrRead>>
  <2>1. OthersOK' /\ NARsOK'
    BY <1>3, OthersKept, NARsKept DEF SetUUID
  <2>2. WorkerOK'
    BY <1>1, <1>3 DEF IInv, WorkerOK, Guarded, Owned, Holds, Taking, Opening, Steps, narVars
  <2>3. QED
    BY <2>1, <2>2 DEF IInv
<1>4. ASSUME again.exists, again.uuid = NoUUID, cacheFresh[cur], pc' = "setFinalizer",
             NEW u \in UUIDs, owner[u] = NoName,
             Changed(cur, [again EXCEPT !.uuid = u], FALSE),
             owner' = [owner EXCEPT ![u] = cur],
             local' = [again EXCEPT !.uuid = u], localFresh' = TRUE,
             UNCHANGED <<queue, cur, vrRead>>
      PROVE  IInv'
  <2>. DEFINE obj == [again EXCEPT !.uuid = u]
  <2>1. /\ obj \in NARs /\ obj.uuid = u /\ u # NoUUID /\ obj.exists /\ ~obj.finalizer
        /\ obj.queued = again.queued /\ ~nar[cur].finalizer
    BY <1>1, <1>4, NamesAssumption DEF NARs, Guarded
  <2>2. owner \in [UUIDs -> Names \union {NoName}] /\ NoName \notin Names
    BY NamesAssumption DEF IInv, OthersOK
  <2>3. OwnersKept /\ owner'[u] = cur /\ owner' \in [UUIDs -> Names \union {NoName}]
    BY <1>1, <1>4, <2>2 DEF OwnersKept
  <2>4. OthersOK'
    BY <2>2, <2>3 DEF IInv, OthersOK, OwnersKept, SetUUID, vrVars, nabVars, bounds
  <2>5. /\ NARsOK' /\ nar'[cur] = obj /\ cache' = cache
    <3>1. Changed(cur, obj, FALSE) /\ Guarded(obj) /\ owner'[obj.uuid] = cur
      BY <1>4, <2>1, <2>3 DEF Guarded
    <3>2. QED
      BY <1>1, <2>1, <2>3, <3>1, WriteOK
  <2>6. WorkerOK'
    BY <1>1, <1>4, <2>1, <2>3, <2>5
       DEF IInv, WorkerOK, Guarded, Owned, Holds, Taking, Opening, Steps
  <2>7. QED
    BY <2>4, <2>5, <2>6 DEF IInv
<1>5. QED
  BY <1>2, <1>3, <1>4 DEF SetUUID

-----------------------------------------------------------------------------
(***************************************************************************)
(* Velero Restores.                                                        *)
(***************************************************************************)
LEMMA SetRestoreOK ==
  ASSUME IInv, NEW u \in UUIDs, NEW obj \in VRs, SetRestore(u, obj),
         obj.state # "absent" => owner[u] \in Names,
         UNCHANGED <<owner, nabVars, bounds>>, collecting' \in UUIDs \union {NoUUID}
  PROVE  OthersOK'
BY DEF IInv, OthersOK, SetRestore, nabVars, bounds, VRs

LEMMA DeleteVROK ==
  ASSUME IInv, NEW u \in UUIDs, vr[u].state # "absent", DeleteVR(u),
         UNCHANGED <<owner, nabVars, bounds>>, collecting' \in UUIDs \union {NoUUID}
  PROVE  OthersOK'
<1>1. NoVR \in VRs /\ NoVR.state = "absent"
  BY DEF NoVR, VRs, VRStates
<1>2. [vr[u] EXCEPT !.terminating = TRUE] \in VRs /\ owner[u] \in Names
  BY DEF IInv, OthersOK, VRs
<1>3. CASE UNCHANGED vrVars
  BY <1>3 DEF IInv, OthersOK, vrVars, nabVars, bounds
<1>4. QED
  BY <1>1, <1>2, <1>3, SetRestoreOK DEF DeleteVR

LEMMA DeleteRestoreInv == ASSUME IInv, DeleteRestore PROVE IInv'
<1>1. /\ cur \in Names /\ local \in NARs /\ local.deletionTimestamp
      /\ (localFresh => cache[cur].deletionTimestamp /\ local = nar[cur])
      /\ pc # "idle"
  BY DEF IInv, WorkerOK, DeleteRestore, Taking
<1>2. CASE (Exit \/ Requeue) /\ UNCHANGED <<narVars, vrVars>>
  BY <1>1, <1>2, StopInv, OthersKept, NARsKept DEF DeleteRestore
<1>3. CASE Update(WithoutFinalizer(local), TRUE, "idle") /\ UNCHANGED vrVars
  <2>1. WithoutFinalizer(local) = NoNAR
    BY <1>1 DEF WithoutFinalizer
  <2>2. OthersOK' /\ OwnersKept
    BY <1>3, OthersKept DEF DeleteRestore
  <2>3. CASE localFresh /\ Changed(cur, NoNAR, TRUE)
    <3>1. NARsOK'
      BY <1>1, <2>2, <2>3, WriteOK, NARTypes DEF Guarded
    <3>2. Exit
      BY <1>3, <2>3 DEF Update, Continue
    <3>3. QED
      BY <1>1, <2>2, <3>1, <3>2, StopInv
  <2>4. CASE Requeue /\ UNCHANGED narVars
    BY <1>1, <2>2, <2>4, StopInv, NARsKept DEF DeleteRestore
  <2>5. QED
    BY <1>3, <2>1, <2>3, <2>4 DEF Update
<1>4. ASSUME NEW u \in UUIDs, vr[u].state # "absent", DeleteVR(u), Exit, UNCHANGED narVars
      PROVE  IInv'
  <2>1. OthersOK'
    BY <1>4, DeleteVROK DEF DeleteRestore, IInv, OthersOK
  <2>2. QED
    BY <1>1, <1>4, <2>1, StopInv, NARsKept DEF DeleteRestore
<1>5. local.uuid # NoUUID => local.uuid \in UUIDs
  BY <1>1 DEF NARs
<1>6. QED
  BY <1>2, <1>3, <1>4, <1>5 DEF DeleteRestore

LEMMA CreateRestoreInv == ASSUME IInv, CreateRestore PROVE IInv'
<1>. DEFINE u == local.uuid
<1>1. /\ cur \in Names /\ local \in NARs /\ u \in UUIDs /\ owner[u] = cur
      /\ pc = "createRestore" /\ Holds(cur, local)
  BY DEF IInv, WorkerOK, CreateRestore, Owned, NARs
<1>2. ASSUME NEW read \in VRStates, pc' = "syncStatus", vrRead' = read, OthersOK',
             UNCHANGED <<narVars, queue, cur, local, localFresh>>
      PROVE  IInv'
  <2>1. owner' = owner /\ NARsOK'
    BY <1>2, NARsKept DEF CreateRestore
  <2>2. WorkerOK'
    BY <1>1, <1>2, <2>1 DEF IInv, WorkerOK, Guarded, Owned, Holds, Taking, Opening, Steps, narVars
  <2>3. QED
    BY <1>2, <2>1, <2>2 DEF IInv
<1>3. CASE /\ pc' = "syncStatus" /\ vrRead' = vrSeen[u].state
           /\ UNCHANGED <<narVars, vrVars, queue, cur, local, localFresh>>
  <2>1. vrSeen[u].state \in VRStates
    BY <1>1 DEF IInv, OthersOK, VRs
  <2>2. QED
    BY <1>2, <1>3, <2>1, OthersKept DEF CreateRestore
<1>4. CASE /\ UpdateIfChanged([local EXCEPT !.phase = "BackingOff", !.accepted = "False"], "idle")
           /\ UNCHANGED vrVars
  BY <1>1, <1>4, EditsOK, UpdateIfChangedInv DEF CreateRestore, Follows, Steps
<1>5. CASE Requeue /\ UNCHANGED <<narVars, vrVars>>
  BY <1>1, <1>5, StopInv, OthersKept, NARsKept DEF CreateRestore
<1>6. CASE /\ SetRestore(u, [state |-> "New", terminating |-> FALSE])
           /\ pc' = "syncStatus" /\ vrRead' = "New"
           /\ UNCHANGED <<narVars, queue, cur, local, localFresh>>
  <2>1. [state |-> "New", terminating |-> FALSE] \in VRs
    BY <1>1 DEF VRs, VRStates, NARs
  <2>2. collecting' \in UUIDs \union {NoUUID} /\ UNCHANGED <<owner, nabVars, bounds>>
    BY DEF CreateRestore, IInv, OthersOK
  <2>3. OthersOK'
    BY <1>1, <1>6, <2>1, <2>2, SetRestoreOK
  <2>4. QED
    BY <1>2, <1>6, <2>3 DEF VRStates
<1>7. QED
  BY <1>3, <1>4, <1>5, <1>6 DEF CreateRestore

LEMMA StepInv == ASSUME IInv, Prompt, Step PROVE IInv'
BY EditStepsInv, SetUUIDInv, DeleteRestoreInv, CreateRestoreInv DEF Step

-----------------------------------------------------------------------------
(***************************************************************************)
(* Everybody else.                                                         *)
(***************************************************************************)
LEMMA CallFailsInv == ASSUME IInv, CallFails PROVE IInv'
<1>1. OthersOK'
  BY DEF IInv, OthersOK, CallFails, vrVars, nabVars
<1>2. QED
  BY <1>1, StopInv, NARsKept DEF CallFails

LEMMA RestartInv == ASSUME IInv, Restart PROVE IInv'
<1>1. OthersOK'
  BY DEF IInv, OthersOK, Restart
<1>2. NARsOK'
  BY DEF IInv, NARsOK, Restart, Guarded, Owned, Holds
<1>3. {n \in Names : nar[n].exists} \in SUBSET Names
  OBVIOUS
<1>4. QED
  BY <1>1, <1>2, <1>3, ReturnInv DEF Restart

LEMMA DeliverNARInv == ASSUME IInv, NEW n \in Names, DeliverNAR(n) PROVE IInv'
<1>1. OthersOK'
  BY OthersKept DEF DeliverNAR
<1>2. /\ UNCHANGED <<nar, owner, pc, cur, local, localFresh, vrRead>>
      /\ queue' \subseteq Names /\ cache \in [Names -> NARs] /\ nar \in [Names -> NARs]
      /\ cache' = [cache EXCEPT ![n] = nar[n]]
  BY DEF DeliverNAR, IInv, NARsOK, WorkerOK
<1>3. NARsOK'
  BY <1>2 DEF IInv, NARsOK, DeliverNAR, Guarded, Owned, Holds
<1>4. cur \in Names => cache'[cur] = cache[cur] \/ cache'[cur] = nar[cur]
  BY <1>2
<1>5. WorkerOK'
  BY <1>2, <1>4 DEF IInv, WorkerOK, Guarded, Owned, Holds, Taking, Opening
<1>6. QED
  BY <1>1, <1>3, <1>5 DEF IInv

LEMMA InformersInv == ASSUME IInv, Informers PROVE IInv'
<1>1. ASSUME NEW u \in UUIDs, DeliverRestore(u) PROVE IInv'
  <2>1. OthersOK'
    BY <1>1 DEF IInv, OthersOK, DeliverRestore, nabVars, bounds
  <2>2. queue' \subseteq Names
    BY <1>1 DEF IInv, OthersOK, WorkerOK, DeliverRestore
  <2>3. QED
    BY <1>1, <2>1, <2>2, BystanderInv DEF DeliverRestore
<1>2. CASE DeliverNAB
  <2>1. OthersOK' /\ queue' \subseteq Names
    BY <1>2 DEF IInv, OthersOK, WorkerOK, DeliverNAB, vrVars, bounds, workerVars
  <2>2. QED
    BY <1>2, <2>1, BystanderInv DEF DeliverNAB, workerVars
<1>3. QED
  BY <1>1, <1>2, DeliverNARInv DEF Informers

LEMMA RemovalOK ==
  ASSUME NEW n \in Names, IInv, nar[n].exists
  PROVE  /\ Deleted(nar[n]) \in NARs /\ Guarded(Deleted(nar[n])) /\ Owned(Deleted(nar[n]), n)
         /\ Deleted(nar[n]).queued => nar[n].queued
         /\ nar[n].finalizer => /\ Deleted(nar[n]).finalizer
                                /\ Deleted(nar[n]).uuid = nar[n].uuid
<1>1. nar[n] \in NARs /\ Guarded(nar[n]) /\ Owned(nar[n], n)
  BY DEF IInv, NARsOK
<1>2. QED
  BY <1>1, NARTypes DEF Deleted, NARs, Guarded, Owned

LEMMA NARWritesInv ==
  ASSUME IInv, NEW n \in Names, User(n) \/ DeletedWithNAB(n)
  PROVE  IInv'
<1>1. nar[n] \in NARs /\ Guarded(nar[n]) /\ Owned(nar[n], n) /\ edits' \in Nat
  BY DEF IInv, NARsOK, OthersOK, User, DeletedWithNAB
<1>2. ASSUME NEW valid \in BOOLEAN, ~nar[n].exists, WriteNAR(n, NewNAR(valid)) PROVE IInv'
  BY <1>1, <1>2, NARTypes, ForeignWriteInv DEF Guarded, Owned
<1>3. CASE nar[n].exists /\ WriteNAR(n, [nar[n] EXCEPT !.valid = ~@])
  <2>. DEFINE obj == [nar[n] EXCEPT !.valid = ~@]
  <2>1. /\ obj \in NARs /\ Guarded(obj) /\ Owned(obj, n) /\ obj.queued = nar[n].queued
        /\ obj.finalizer = nar[n].finalizer /\ obj.uuid = nar[n].uuid
    BY <1>1 DEF NARs, Guarded, Owned
  <2>2. QED
    BY <1>1, <1>3, <2>1, ForeignWriteInv
<1>4. CASE nar[n].exists /\ WriteNAR(n, Deleted(nar[n]))
  BY <1>1, <1>4, RemovalOK, ForeignWriteInv
<1>5. QED
  BY <1>2, <1>3, <1>4 DEF User, DeletedWithNAB

LEMMA VeleroInv ==
  ASSUME IInv, NEW u \in UUIDs, CompleteRestore(u) \/ RemoveRestore(u) \/ FinishDeletion(u)
  PROVE  IInv'
<1>1. OthersOK'
  <2>1. collecting' \in UUIDs \union {NoUUID} /\ UNCHANGED <<owner, nabVars, bounds>>
    BY DEF IInv, OthersOK, CompleteRestore, RemoveRestore, FinishDeletion
  <2>2. CASE CompleteRestore(u)
    <3>1. [vr[u] EXCEPT !.state = "Completed"] \in VRs /\ owner[u] \in Names
      BY <2>2 DEF CompleteRestore, IInv, OthersOK, VRs, VRStates
    <3>2. QED
      BY <2>1, <2>2, <3>1, SetRestoreOK DEF CompleteRestore
  <2>3. CASE RemoveRestore(u)
    BY <2>1, <2>3, DeleteVROK DEF RemoveRestore
  <2>4. CASE FinishDeletion(u)
    <3>1. NoVR \in VRs /\ NoVR.state = "absent"
      BY DEF NoVR, VRs, VRStates
    <3>2. QED
      BY <2>1, <2>4, <3>1, SetRestoreOK DEF FinishDeletion
  <2>5. QED
    BY <2>2, <2>3, <2>4
<1>2. queue' \subseteq Names
  BY DEF IInv, WorkerOK, CompleteRestore, RemoveRestore, FinishDeletion, workerVars
<1>3. QED
  BY <1>1, <1>2, BystanderInv DEF CompleteRestore, RemoveRestore, FinishDeletion, workerVars

LEMMA OthersInv == ASSUME IInv, Others PROVE IInv'
<1>1. ASSUME NEW u \in UUIDs, OtherEvent(u) PROVE IInv'
  <2>1. queue' \subseteq Names
    BY <1>1 DEF IInv, OthersOK, WorkerOK, OtherEvent
  <2>2. QED
    BY <1>1, <2>1, OthersKept, BystanderInv DEF OtherEvent
<1>2. CASE NABChanges
  <2>1. OthersOK' /\ queue' \subseteq Names
    BY <1>2 DEF IInv, OthersOK, WorkerOK, NABChanges, vrVars, workerVars
  <2>2. QED
    BY <1>2, <2>1, BystanderInv DEF NABChanges, workerVars
<1>3. QED
  BY <1>1, <1>2, NARWritesInv, VeleroInv DEF Others

LEMMA CollectorInv == ASSUME IInv, Collector PROVE IInv'
<1>1. UNCHANGED <<narVars, owner, nabVars, workerVars, bounds>>
  BY DEF Collector, CollectFind, CollectDelete
<1>2. OthersOK'
  <2>1. ASSUME NEW u \in UUIDs, CollectFind(u) PROVE OthersOK'
    BY <2>1 DEF IInv, OthersOK, CollectFind, vrVars, nabVars, bounds
  <2>2. CASE CollectDelete /\ UNCHANGED vrVars
    BY <2>2 DEF IInv, OthersOK, CollectDelete, vrVars, nabVars, bounds
  <2>3. CASE CollectDelete /\ vr[collecting].state # "absent" /\ DeleteVR(collecting)
    <3>1. collecting \in UUIDs /\ collecting' \in UUIDs \union {NoUUID}
      BY <2>3 DEF IInv, OthersOK, CollectDelete
    <3>2. QED
      BY <1>1, <2>3, <3>1, DeleteVROK
  <2>4. QED
    BY <2>1, <2>2, <2>3 DEF Collector, CollectDelete
<1>3. queue' \subseteq Names
  BY <1>1 DEF IInv, WorkerOK, workerVars
<1>4. QED
  BY <1>1, <1>2, <1>3, BystanderInv DEF workerVars

LEMMA NextInv == ASSUME IInv, [Next]_vars PROVE IInv'
<1>1. CASE UNCHANGED vars
  <2>1. queue' \subseteq Names
    BY <1>1 DEF IInv, WorkerOK, vars, workerVars
  <2>2. QED
    BY <1>1, <2>1, OthersKept, BystanderInv DEF vars, workerVars
<1>2. CASE Next
  BY <1>2, InformersInv, OthersInv, CollectorInv, CallFailsInv, RestartInv, StepInv,
     ReconcileInv DEF Next
<1>3. QED
  BY <1>1, <1>2

-----------------------------------------------------------------------------
(***************************************************************************)
(* Theorems.                                                               *)
(***************************************************************************)
LEMMA Invariance == Spec => []IInv
<1>1. Init => IInv
  BY InitOK
<1>2. IInv /\ [Next]_vars => IInv'
  BY NextInv
<1>3. QED
  BY <1>1, <1>2, PTL DEF Spec

\* Type correctness: no malformed status is written, and the events of Velero
\* Restores enqueue nothing but NARs.
THEOREM TypeCorrect == Spec => []TypeOK
<1>1. IInv => TypeOK
  BY DEF IInv, OthersOK, NARsOK, WorkerOK, TypeOK
<1>2. QED
  BY <1>1, Invariance, PTL

\* Only createVeleroRestore creates Velero Restores: from a NAR that is stored
\* with the NACUUID and the finalizer of the worker's copy.
LEMMA CreationStep ==
  ASSUME IInv, [Next]_vars, NEW u \in UUIDs, Created(u)
  PROVE  pc = "createRestore" /\ u = local.uuid /\ ~Finalized(local) /\ Step /\ Prompt
<1>1. vr \in [UUIDs -> VRs] /\ vr' # vr
  BY DEF IInv, OthersOK, Created
<1>2. ASSUME NEW w \in UUIDs, DeleteVR(w) PROVE FALSE
  <2>1. vr'[u] = vr[u] \/ vr'[u].state = "absent" \/ vr'[u].state = vr[u].state
    BY <1>1, <1>2 DEF DeleteVR, SetRestore, vrVars, NoVR, VRs
  <2>2. QED
    BY <2>1 DEF Created
<1>3. ASSUME NEW w \in UUIDs, CompleteRestore(w) \/ FinishDeletion(w) PROVE FALSE
  BY <1>1, <1>3 DEF CompleteRestore, FinishDeletion, SetRestore, NoVR, VRs, Created
<1>4. ~Others
  <2>1. ASSUME NEW n \in Names, User(n) \/ DeletedWithNAB(n) PROVE FALSE
    BY <1>1, <2>1 DEF User, DeletedWithNAB, WriteNAR, vrVars
  <2>2. ASSUME NEW w \in UUIDs, OtherEvent(w) \/ RemoveRestore(w) PROVE FALSE
    BY <1>1, <1>2, <2>2 DEF OtherEvent, RemoveRestore, vrVars
  <2>3. ~NABChanges
    BY <1>1 DEF NABChanges, vrVars
  <2>4. QED
    BY <1>3, <2>1, <2>2, <2>3 DEF Others
<1>5. ~Collector
  <2>1. ASSUME NEW w \in UUIDs, CollectFind(w) PROVE FALSE
    BY <1>1, <2>1 DEF CollectFind, vrVars
  <2>2. ASSUME CollectDelete PROVE FALSE
    BY <1>1, <1>2, <2>2 DEF CollectDelete, IInv, OthersOK, vrVars
  <2>3. QED
    BY <2>1, <2>2 DEF Collector
<1>6. ~Informers /\ ~CallFails /\ ~Restart /\ ~UNCHANGED vars
      /\ \A n \in Names : ~Reconcile(n)
  BY <1>1 DEF Informers, DeliverNAR, DeliverRestore, DeliverNAB, CallFails, Restart, Reconcile,
              vars, vrVars
<1>7. ~MarkDelete /\ ~InitCreate /\ ~ValidateSpec /\ ~SetUUID /\ ~SetFinalizer /\ ~SyncStatus
  BY <1>1 DEF MarkDelete, InitCreate, ValidateSpec, SetUUID, SetFinalizer, SyncStatus, vrVars
<1>8. ~DeleteRestore
  <2>1. SUFFICES ASSUME DeleteRestore PROVE FALSE
    OBVIOUS
  <2>2. local.uuid # NoUUID => local.uuid \in UUIDs
    BY DEF IInv, WorkerOK, NARs
  <2>3. QED
    BY <1>1, <1>2, <2>1, <2>2 DEF DeleteRestore, vrVars
<1>9. Prompt /\ CreateRestore /\ Step
  BY <1>4, <1>5, <1>6, <1>7, <1>8 DEF Next, Step
<1>10. vr' # vr => /\ ~Finalized(local)
                   /\ \E obj : SetRestore(local.uuid, obj)
  BY <1>9 DEF CreateRestore, vrVars
<1>11. u = local.uuid
  BY <1>1, <1>10 DEF SetRestore, Created
<1>12. QED
  BY <1>1, <1>9, <1>10, <1>11 DEF CreateRestore

\* A Velero Restore is created only while its NAR is stored, with its NACUUID
\* and with the finalizer, whatever caches lag.
THEOREM RestoresAreCreatedForNARs == Spec => CreatedForNAR
<1>. DEFINE Good == \A u \in UUIDs : Created(u) =>
                      LET obj == nar[owner[u]] IN obj.exists /\ obj.uuid = u /\ obj.finalizer
<1>1. ASSUME IInv, [Next]_vars, NEW u \in UUIDs, Created(u)
      PROVE  LET obj == nar[owner[u]] IN obj.exists /\ obj.uuid = u /\ obj.finalizer
  <2>1. pc = "createRestore" /\ u = local.uuid
    BY <1>1, CreationStep
  <2>2. cur \in Names /\ Holds(cur, local) /\ owner[u] = cur
    BY <1>1, <2>1 DEF IInv, WorkerOK, Owned
  <2>3. Guarded(nar[cur])
    BY <1>1, <2>2 DEF IInv, NARsOK
  <2>4. QED
    BY <2>1, <2>2, <2>3 DEF Holds, Guarded
<1>2. IInv /\ [Next]_vars => [Good]_vars
  BY <1>1
<1>3. QED
  BY <1>2, Invariance, PTL DEF Spec, CreatedForNAR

\* When the cache of NARs keeps up, a NAR that is Queued gets no second Velero
\* Restore, however much the other caches lag.
THEOREM PromptRestoreRunsOnce ==
  ASSUME "nar" \notin Lagging PROVE Spec => RestoreRunsOnce
<1>. DEFINE Good == \A u \in UUIDs : Created(u) => ~nar[owner[u]].queued
<1>1. ASSUME IInv, [Next]_vars, NEW u \in UUIDs, Created(u)
      PROVE  ~nar[owner[u]].queued
  <2>1. pc = "createRestore" /\ u = local.uuid /\ ~local.queued
    BY <1>1, CreationStep DEF Finalized
  <2>2. owner[u] = cur /\ (nar[cur].queued => local.queued)
    BY <1>1, <2>1 DEF IInv, WorkerOK, Owned
  <2>3. QED
    BY <2>1, <2>2
<1>2. IInv /\ [Next]_vars => [Good]_vars
  BY <1>1
<1>3. QED
  BY <1>2, Invariance, PTL DEF Spec, RestoreRunsOnce
=============================================================================
