------------------------ MODULE NonAdminBackupProofs ------------------------
(***************************************************************************)
(* Theorems about the NonAdminBackup controller, for any set of NABs and   *)
(* NACUUIDs, any lag of the caches and any number of failures and          *)
(* restarts.  The inductive invariant IInv says what optimistic locking    *)
(* gives the worker: a copy that has the stored resourceVersion is the     *)
(* stored object, and every copy, stale or not, was once stored.           *)
(***************************************************************************)
EXTENDS NonAdminBackup, TLAPS

Owned(obj) == obj.uuid # NoUUID => owner[obj.uuid] \in Names

\* What holds of the copy the worker is about to take step with.
Stage(step, obj) ==
  /\ Guarded(obj) /\ Owned(obj)
  /\ step \in {"setFinalizer", "createBackup", "syncStatus"} => obj.uuid # NoUUID
  /\ step \in {"createBackup", "syncStatus"} => obj.finalizer
  /\ step \in {"deleteRestores", "requestDeletion", "deleteRequests", "deleteBackup"}
       => obj.phase = "Deleting"

CopiesOK ==
  /\ \A n \in Names : cacheFresh[n] => cache[n] = nab[n]
  /\ pc # "idle" => cur \in Names
  /\ localFresh => pc # "idle" /\ local = nab[cur]

StoredOK ==
  \A n \in Names : /\ Guarded(nab[n]) /\ Owned(nab[n])
                   /\ Guarded(cache[n]) /\ Owned(cache[n])

BackupsOwned ==
  \A u \in UUIDs :
    vb[u] # "absent" \/ vbSeen[u] # "absent" \/ vbEvent[u] \/ store[u]
      => owner[u] \in Names

IInv == TypeOK /\ CopiesOK /\ StoredOK /\ BackupsOwned /\ Stage(pc, local)

-----------------------------------------------------------------------------
\* The object constants and every edit of an object are objects.
LEMMA NewNABType ==
  ASSUME NEW label \in UUIDs \union {NoUUID}, NEW valid \in BOOLEAN
  PROVE  NewNAB(label, valid) \in NABs
BY DEF NewNAB, NABs, Phases, VBStates

LEMMA NoNABType == NoNAB \in NABs /\ ~NoNAB.exists /\ NoNAB.uuid = NoUUID /\ Guarded(NoNAB)
BY DEF NoNAB, NewNAB, NABs, Phases, VBStates, Guarded

LEMMA RemovalType ==
  ASSUME NEW obj \in NABs
  PROVE  Deleted(obj) \in NABs /\ WithoutFinalizer(obj) \in NABs
<1>1. [obj EXCEPT !.deletionTimestamp = TRUE] \in NABs
  BY DEF NABs
<1>2. [obj EXCEPT !.finalizer = FALSE] \in NABs
  BY DEF NABs
<1>3. QED
  BY <1>1, <1>2, NoNABType DEF Deleted, WithoutFinalizer

LEMMA InitOK == Init => IInv
<1>. SUFFICES ASSUME Init PROVE IInv
  OBVIOUS
<1>1. Guarded(NoNAB) /\ Owned(NoNAB)
  BY NoNABType DEF Owned
<1>2. TypeOK
  BY NoNABType DEF Init, TypeOK, NoRequest, Requests, VBStates, Restores, Steps
<1>3. CopiesOK /\ StoredOK
  BY <1>1 DEF Init, CopiesOK, StoredOK, Owned
<1>4. BackupsOwned /\ Stage(pc, local)
  BY <1>1 DEF Init, BackupsOwned, Stage, Owned
<1>5. QED
  BY <1>2, <1>3, <1>4 DEF IInv

-----------------------------------------------------------------------------
(***************************************************************************)
(* What the worker shares with nobody: everything but the NABs, their      *)
(* copies and its own state.                                               *)
(***************************************************************************)
OthersOK ==
  /\ nar \in [Names -> Restores]
  /\ owner \in [UUIDs -> Names \union {NoName}]
  /\ vb \in [UUIDs -> VBStates] /\ vbSeen \in [UUIDs -> VBStates]
  /\ vbEvent \in [UUIDs -> BOOLEAN]
  /\ dbr \in [UUIDs -> Requests] /\ dbrSeen \in [UUIDs -> Requests]
  /\ store \in [UUIDs -> BOOLEAN]
  /\ edits \in Nat /\ resyncs \in Nat /\ faults \in Nat
  /\ BackupsOwned

LEMMA OthersKept ==
  ASSUME IInv, UNCHANGED <<nar, owner, veleroVars, bounds>>
  PROVE  OthersOK' /\ owner' = owner
BY DEF IInv, TypeOK, OthersOK, BackupsOwned, veleroVars, bounds

\* Parts of the state that an action leaves alone keep their part of IInv.
LEMMA NABsKept ==
  ASSUME IInv, OthersOK', owner' = owner, UNCHANGED nabVars
  PROVE  /\ nab' \in [Names -> NABs] /\ cache' \in [Names -> NABs]
         /\ cacheFresh' \in [Names -> BOOLEAN] /\ nabEvent' \in [Names -> BOOLEAN]
         /\ \A m \in Names : cacheFresh'[m] => cache'[m] = nab'[m]
         /\ StoredOK'
BY DEF IInv, TypeOK, CopiesOK, StoredOK, Owned, nabVars

(***************************************************************************)
(* The ways a step of the reconcile ends preserve the invariant.           *)
(***************************************************************************)
LEMMA ReturnInv ==
  ASSUME IInv, NEW q \in SUBSET Names, Return(q), OthersOK', StoredOK',
         nab' \in [Names -> NABs], cache' \in [Names -> NABs],
         cacheFresh' \in [Names -> BOOLEAN], nabEvent' \in [Names -> BOOLEAN],
         \A m \in Names : cacheFresh'[m] => cache'[m] = nab'[m]
  PROVE  IInv'
<1>1. TypeOK'
  BY NoNABType DEF TypeOK, Return, OthersOK, Steps, VBStates
<1>2. CopiesOK' /\ Stage(pc, local)'
  BY NoNABType DEF CopiesOK, Stage, Owned, Return
<1>3. QED
  BY <1>1, <1>2 DEF IInv, OthersOK

LEMMA ContinueInv ==
  ASSUME IInv, pc # "idle", NEW step \in Steps \ {"idle"}, Stage(step, local),
         Continue(step, local), UNCHANGED nabVars, OthersOK', owner' = owner
  PROVE  IInv'
<1>1. /\ pc' = step /\ local' = local
      /\ UNCHANGED <<queue, cur, localFresh, vbRead>>
  BY DEF Continue
<1>2. TypeOK'
  BY <1>1, NABsKept DEF IInv, TypeOK, OthersOK
<1>3. CopiesOK'
  BY <1>1 DEF IInv, CopiesOK, nabVars
<1>4. Stage(pc, local)'
  BY <1>1 DEF Stage, Owned
<1>5. QED
  BY <1>2, <1>3, <1>4, NABsKept DEF IInv, OthersOK

LEMMA ChangedOK ==
  ASSUME IInv, NEW n \in Names, NEW obj \in NABs, NEW event \in BOOLEAN,
         Guarded(obj), Owned(obj), Changed(n, obj, event), UNCHANGED owner
  PROVE  /\ nab' \in [Names -> NABs] /\ cache' \in [Names -> NABs]
         /\ cacheFresh' \in [Names -> BOOLEAN] /\ nabEvent' \in [Names -> BOOLEAN]
         /\ \A m \in Names : cacheFresh'[m] => cache'[m] = nab'[m]
         /\ StoredOK'
         /\ nab'[n] = obj /\ \A m \in Names \ {n} : nab'[m] = nab[m]
BY DEF IInv, TypeOK, CopiesOK, StoredOK, Owned, Changed

LEMMA UpdateInv ==
  ASSUME IInv, pc # "idle", NEW event \in BOOLEAN, NEW step \in Steps,
         NEW obj \in NABs, Stage(step, obj),
         Update(obj, event, step), OthersOK', owner' = owner
  PROVE  IInv'
<1>0. cur \in Names /\ queue \cup {cur} \in SUBSET Names /\ queue \in SUBSET Names
  BY DEF IInv, TypeOK, CopiesOK
<1>1. CASE localFresh /\ Changed(cur, obj, event) /\ Continue(step, obj)
  <2>1. /\ nab' \in [Names -> NABs] /\ cache' \in [Names -> NABs]
        /\ cacheFresh' \in [Names -> BOOLEAN] /\ nabEvent' \in [Names -> BOOLEAN]
        /\ \A m \in Names : cacheFresh'[m] => cache'[m] = nab'[m]
        /\ StoredOK'
        /\ nab'[cur] = obj
    BY <1>0, <1>1, ChangedOK DEF Stage
  <2>2. CASE step = "idle"
    BY <1>0, <1>1, <2>1, <2>2, ReturnInv DEF Continue, Exit
  <2>3. CASE step # "idle"
    <3>1. pc' = step /\ local' = obj /\ UNCHANGED <<queue, cur, localFresh, vbRead>>
      BY <1>1, <2>3 DEF Continue
    <3>2. TypeOK'
      BY <2>1, <3>1 DEF IInv, TypeOK, OthersOK
    <3>3. CopiesOK' /\ Stage(pc, local)'
      BY <1>0, <2>1, <2>3, <3>1 DEF CopiesOK, Stage, Owned
    <3>4. QED
      BY <2>1, <3>2, <3>3 DEF IInv, OthersOK
  <2>4. QED
    BY <2>2, <2>3
<1>2. CASE ~localFresh /\ Requeue /\ UNCHANGED nabVars
  BY <1>0, <1>2, ReturnInv, NABsKept DEF Requeue
<1>3. QED
  BY <1>1, <1>2 DEF Update

LEMMA UpdateIfChangedInv ==
  ASSUME IInv, pc # "idle", NEW step \in Steps, NEW obj \in NABs, Stage(step, obj),
         UpdateIfChanged(obj, step), OthersOK', owner' = owner
  PROVE  IInv'
<1>1. CASE obj = local /\ step = "idle"
  <2>1. Return(queue) /\ UNCHANGED nabVars
    BY <1>1 DEF UpdateIfChanged, Continue, Exit
  <2>2. QED
    BY <2>1, ReturnInv, NABsKept DEF IInv, TypeOK
<1>2. CASE obj = local /\ step # "idle"
  BY <1>2, ContinueInv DEF UpdateIfChanged
<1>3. CASE obj # local
  BY <1>3, UpdateInv DEF UpdateIfChanged
<1>4. QED
  BY <1>1, <1>2, <1>3

\* The worker's state and the NABs are untouched: only the queue may grow.
LEMMA BystanderInv ==
  ASSUME IInv, OthersOK', owner' = owner, queue' \subseteq Names,
         UNCHANGED <<nabVars, pc, cur, local, localFresh, vbRead>>
  PROVE  IInv'
<1>1. TypeOK'
  BY NABsKept DEF IInv, TypeOK, OthersOK
<1>2. CopiesOK' /\ Stage(pc, local)'
  BY DEF IInv, CopiesOK, Stage, Owned, nabVars
<1>3. QED
  BY <1>1, <1>2, NABsKept DEF IInv, OthersOK

\* A write by a user or another controller makes the worker's copy stale.
LEMMA ForeignWriteInv ==
  ASSUME IInv, NEW n \in Names, NEW obj \in NABs, Guarded(obj), Owned(obj),
         Changed(n, obj, TRUE), localFresh' = (localFresh /\ cur # n),
         edits' \in Nat, resyncs' \in Nat,
         UNCHANGED <<nar, owner, veleroVars, queue, pc, cur, local, vbRead, faults>>
  PROVE  IInv'
<1>1. /\ nab' \in [Names -> NABs] /\ cache' \in [Names -> NABs]
      /\ cacheFresh' \in [Names -> BOOLEAN] /\ nabEvent' \in [Names -> BOOLEAN]
      /\ \A m \in Names : cacheFresh'[m] => cache'[m] = nab'[m]
      /\ StoredOK'
      /\ nab'[n] = obj /\ \A m \in Names \ {n} : nab'[m] = nab[m]
  BY ChangedOK
<1>2. TypeOK'
  BY <1>1 DEF IInv, TypeOK, veleroVars
<1>3. CopiesOK'
  BY <1>1 DEF IInv, CopiesOK
<1>4. BackupsOwned' /\ Stage(pc, local)'
  BY DEF IInv, BackupsOwned, Stage, Owned, veleroVars
<1>5. QED
  BY <1>1, <1>2, <1>3, <1>4 DEF IInv

-----------------------------------------------------------------------------
(***************************************************************************)
(* The steps of the worker.                                                *)
(***************************************************************************)
LEMMA EditTypes ==
  ASSUME NEW obj \in NABs
  PROVE  /\ [obj EXCEPT !.phase = "Deleting", !.deleting = "accepted"] \in NABs
         /\ [obj EXCEPT !.phase = "Deleting", !.deleting = "direct"] \in NABs
         /\ [obj EXCEPT !.phase = "BackingOff", !.accepted = "False"] \in NABs
         /\ [obj EXCEPT !.phase = "New"] \in NABs
         /\ [obj EXCEPT !.accepted = "True"] \in NABs
         /\ [obj EXCEPT !.finalizer = TRUE] \in NABs
         /\ \A status \in {"unset", "Processed"} : [obj EXCEPT !.dbrStatus = status] \in NABs
         /\ \A u \in UUIDs : [obj EXCEPT !.uuid = u] \in NABs
         /\ \A seen \in VBStates :
              [obj EXCEPT !.phase = "Created", !.queued = TRUE, !.mirror = seen] \in NABs
BY DEF NABs, Phases

LEMMA ReconcileInv == ASSUME IInv, NEW n \in Names, Reconcile(n) PROVE IInv'
<1>1. OthersOK' /\ owner' = owner
  BY OthersKept DEF Reconcile
<1>2. Path(cache[n]) \in {"markDelete", "markDirect", "setUUID", "init"}
  BY DEF Path
<1>3. TypeOK'
  BY <1>1, <1>2, NABsKept DEF IInv, TypeOK, OthersOK, Reconcile, Steps
<1>4. CopiesOK'
  BY <1>2 DEF IInv, CopiesOK, Reconcile, nabVars
<1>5. Stage(pc, local)'
  BY <1>2 DEF IInv, StoredOK, Stage, Owned, Reconcile
<1>6. StoredOK'
  BY <1>1, NABsKept DEF Reconcile
<1>7. QED
  BY <1>1, <1>3, <1>4, <1>5, <1>6 DEF IInv, OthersOK

LEMMA MarkInv == ASSUME IInv, MarkDelete \/ MarkDirect PROVE IInv'
<1>1. OthersOK' /\ owner' = owner
  BY OthersKept DEF MarkDelete, MarkDirect
<1>2. local \in NABs
  BY DEF IInv, TypeOK
<1>3. CASE MarkDelete
  <2>. DEFINE obj == [local EXCEPT !.phase = "Deleting", !.deleting = "accepted"]
              step == IF local.deletionTimestamp THEN "deleteRestores" ELSE "callDelete"
  <2>1. obj \in NABs /\ step \in Steps
    BY <1>2, EditTypes DEF Steps
  <2>2. Stage(step, obj)
    BY <1>2 DEF IInv, Stage, Guarded, Owned, NABs
  <2>3. UpdateIfChanged(obj, step) /\ pc # "idle"
    BY <1>3 DEF MarkDelete
  <2>. HIDE DEF obj, step
  <2>4. QED
    BY <1>1, <2>1, <2>2, <2>3, UpdateIfChangedInv
<1>4. CASE MarkDirect
  <2>. DEFINE obj == [local EXCEPT !.phase = "Deleting", !.deleting = "direct"]
  <2>1. obj \in NABs /\ "deleteRequests" \in Steps
    BY <1>2, EditTypes DEF Steps
  <2>2. Stage("deleteRequests", obj)
    BY <1>2 DEF IInv, Stage, Guarded, Owned, NABs
  <2>3. UpdateIfChanged(obj, "deleteRequests") /\ pc # "idle"
    BY <1>4 DEF MarkDirect
  <2>. HIDE DEF obj
  <2>4. QED
    BY <1>1, <2>1, <2>2, <2>3, UpdateIfChangedInv
<1>5. QED
  BY <1>3, <1>4

\* A Delete call leaves a NAB guarded.
LEMMA DeletedOK ==
  ASSUME NEW obj \in NABs, Guarded(obj), Owned(obj)
  PROVE  Deleted(obj) \in NABs /\ Guarded(Deleted(obj)) /\ Owned(Deleted(obj))
BY RemovalType, NoNABType DEF Deleted, Guarded, Owned, NABs

LEMMA CallDeleteInv == ASSUME IInv, CallDelete PROVE IInv'
<1>1. OthersOK' /\ owner' = owner
  BY OthersKept DEF CallDelete
<1>2. /\ cur \in Names /\ nab[cur] \in NABs /\ Guarded(nab[cur]) /\ Owned(nab[cur])
      /\ queue \union {cur} \in SUBSET Names
  BY DEF IInv, TypeOK, CopiesOK, StoredOK, CallDelete
<1>3. CASE UNCHANGED nabVars
  BY <1>1, <1>2, <1>3, ReturnInv, NABsKept DEF CallDelete, Requeue
<1>4. CASE Changed(cur, Deleted(nab[cur]), TRUE)
  <2>1. /\ nab' \in [Names -> NABs] /\ cache' \in [Names -> NABs]
        /\ cacheFresh' \in [Names -> BOOLEAN] /\ nabEvent' \in [Names -> BOOLEAN]
        /\ \A m \in Names : cacheFresh'[m] => cache'[m] = nab'[m]
        /\ StoredOK'
    BY <1>1, <1>2, <1>4, DeletedOK, ChangedOK
  <2>2. QED
    BY <1>1, <1>2, <2>1, ReturnInv DEF CallDelete, Requeue
<1>5. QED
  BY <1>3, <1>4 DEF CallDelete

LEMMA DeleteRestoresInv == ASSUME IInv, DeleteRestores PROVE IInv'
<1>1. OthersOK' /\ owner' = owner
  BY DEF IInv, TypeOK, Restores, OthersOK, BackupsOwned, DeleteRestores, veleroVars, bounds
<1>2. Stage("requestDeletion", local) /\ "requestDeletion" \in Steps \ {"idle"}
  BY DEF IInv, Stage, DeleteRestores, Steps
<1>3. QED
  BY <1>1, <1>2, ContinueInv DEF DeleteRestores

\* Taking the finalizer off a NAB that is being deleted.
LEMMA RemoveFinalizerInv ==
  ASSUME IInv, pc \in {"requestDeletion", "deleteBackup"}, RemoveFinalizer,
         UNCHANGED <<nar, owner, bounds>>
  PROVE  IInv'
<1>1. OthersOK' /\ owner' = owner
  BY OthersKept DEF RemoveFinalizer
<1>2. WithoutFinalizer(local) \in NABs
  BY RemovalType DEF IInv, TypeOK
<1>3. Stage("idle", WithoutFinalizer(local))
  <2>1. local \in NABs /\ Guarded(local) /\ Owned(local) /\ local.phase = "Deleting"
    BY DEF IInv, TypeOK, Stage
  <2>2. Guarded(WithoutFinalizer(local)) /\ Owned(WithoutFinalizer(local))
    BY <2>1, NoNABType DEF WithoutFinalizer, Guarded, Owned, NABs
  <2>3. QED
    BY <2>2 DEF Stage
<1>4. QED
  BY <1>1, <1>2, <1>3, UpdateInv DEF RemoveFinalizer, Steps

LEMMA SyncRequestInv ==
  ASSUME IInv, pc # "idle", NEW status \in {"unset", "Processed"},
         SyncRequest(status), OthersOK', owner' = owner
  PROVE  IInv'
<1>. DEFINE edited == [local EXCEPT !.dbrStatus = status]
<1>1. local \in NABs /\ Guarded(local) /\ Owned(local)
  BY DEF IInv, TypeOK, Stage
<1>2. edited \in NABs
  BY <1>1, EditTypes
<1>3. Stage("idle", edited)
  BY <1>1 DEF Stage, Guarded, Owned, NABs
<1>4. UpdateIfChanged(edited, "idle")
  BY DEF SyncRequest
<1>. HIDE DEF edited
<1>5. QED
  BY <1>2, <1>3, <1>4, UpdateIfChangedInv DEF Steps

LEMMA SetRequestsOK ==
  ASSUME IInv, NEW u \in UUIDs, NEW requests \in Requests, SetRequests(u, requests)
  PROVE  dbr' \in [UUIDs -> Requests] /\ dbrSeen' \in [UUIDs -> Requests]
BY DEF IInv, TypeOK, SetRequests

LEMMA RequestDeletionInv == ASSUME IInv, RequestDeletion PROVE IInv'
<1>. DEFINE u == local.uuid
<1>1. /\ local \in NABs /\ Guarded(local) /\ Owned(local) /\ pc = "requestDeletion"
      /\ cur \in Names /\ queue \union {cur} \in SUBSET Names /\ queue \in SUBSET Names
  BY DEF IInv, TypeOK, CopiesOK, Stage, RequestDeletion
<1>2. CASE Exit /\ UNCHANGED <<nabVars, veleroVars>>
  BY <1>1, <1>2, ReturnInv, NABsKept, OthersKept DEF Exit, RequestDeletion
<1>3. CASE RemoveFinalizer
  BY <1>1, <1>3, RemoveFinalizerInv DEF RequestDeletion
<1>4. CASE Requeue /\ UNCHANGED <<nabVars, veleroVars>>
  BY <1>1, <1>4, ReturnInv, NABsKept, OthersKept DEF Requeue, RequestDeletion
<1>5. CASE u # NoUUID /\ SyncRequest(dbrSeen[u].status) /\ UNCHANGED veleroVars
  <2>1. u \in UUIDs /\ dbrSeen[u] \in Requests
    BY <1>1, <1>5 DEF NABs, IInv, TypeOK
  <2>2. dbrSeen[u].status \in {"unset", "Processed"}
    BY <2>1 DEF Requests
  <2>3. OthersOK' /\ owner' = owner
    BY <1>5, OthersKept DEF RequestDeletion
  <2>4. QED
    BY <1>1, <1>5, <2>2, <2>3, SyncRequestInv
<1>6. CASE /\ u # NoUUID
           /\ SetRequests(u, [count |-> dbr[u].count + 1, status |-> "unset"])
           /\ Exit /\ UNCHANGED <<nabVars, vb, vbSeen, vbEvent, store>>
  <2>1. u \in UUIDs /\ dbr[u] \in Requests
    BY <1>1, <1>6 DEF NABs, IInv, TypeOK
  <2>2. [count |-> dbr[u].count + 1, status |-> "unset"] \in Requests
    BY <2>1 DEF Requests
  <2>3. dbr' \in [UUIDs -> Requests] /\ dbrSeen' \in [UUIDs -> Requests]
    BY <1>6, <2>1, <2>2, SetRequestsOK
  <2>4. OthersOK' /\ owner' = owner
    BY <1>6, <2>3 DEF IInv, TypeOK, OthersOK, BackupsOwned, RequestDeletion, bounds
  <2>5. QED
    BY <1>1, <1>6, <2>4, ReturnInv, NABsKept DEF Exit
<1>7. QED
  BY <1>2, <1>3, <1>4, <1>5, <1>6 DEF RequestDeletion

LEMMA DeleteRequestsInv == ASSUME IInv, DeleteRequests PROVE IInv'
<1>. DEFINE u == local.uuid
<1>1. /\ local \in NABs /\ pc = "deleteRequests" /\ UNCHANGED nabVars
      /\ cur \in Names /\ queue \union {cur} \in SUBSET Names
      /\ Stage("deleteBackup", local) /\ "deleteBackup" \in Steps \ {"idle"}
  BY DEF IInv, TypeOK, CopiesOK, Stage, DeleteRequests, Steps
<1>2. CASE Continue("deleteBackup", local) /\ UNCHANGED veleroVars
  BY <1>1, <1>2, ContinueInv, OthersKept DEF DeleteRequests
<1>3. CASE Requeue /\ UNCHANGED veleroVars
  BY <1>1, <1>3, ReturnInv, NABsKept, OthersKept DEF Requeue, DeleteRequests
<1>4. CASE /\ u # NoUUID /\ dbr[u].count # 0
           /\ SetRequests(u, IF dbr[u].count = 1 THEN NoRequest
                             ELSE [dbr[u] EXCEPT !.count = @ - 1])
           /\ Continue("deleteBackup", local)
           /\ UNCHANGED <<vb, vbSeen, vbEvent, store>>
  <2>. DEFINE left == IF dbr[u].count = 1 THEN NoRequest ELSE [dbr[u] EXCEPT !.count = @ - 1]
  <2>1. u \in UUIDs /\ dbr[u] \in Requests
    BY <1>1, <1>4 DEF NABs, IInv, TypeOK
  <2>2. left \in Requests
    BY <1>4, <2>1 DEF Requests, NoRequest
  <2>3. dbr' \in [UUIDs -> Requests] /\ dbrSeen' \in [UUIDs -> Requests]
    BY <1>4, <2>1, <2>2, SetRequestsOK
  <2>4. OthersOK' /\ owner' = owner
    BY <1>4, <2>3 DEF IInv, TypeOK, OthersOK, BackupsOwned, DeleteRequests, bounds
  <2>5. QED
    BY <1>1, <1>4, <2>4, ContinueInv
<1>5. QED
  BY <1>2, <1>3, <1>4 DEF DeleteRequests

LEMMA SetBackupOK ==
  ASSUME IInv, NEW u \in UUIDs, NEW state \in VBStates, NEW event \in BOOLEAN,
         state # "absent" \/ event => owner[u] \in Names, UNCHANGED owner,
         SetBackup(u, state, event), store' \in [UUIDs -> BOOLEAN],
         \A w \in UUIDs : store'[w] => store[w] \/ (w = u /\ owner[u] \in Names)
  PROVE  /\ vb' \in [UUIDs -> VBStates] /\ vbSeen' \in [UUIDs -> VBStates]
         /\ vbEvent' \in [UUIDs -> BOOLEAN]
         /\ BackupsOwned'
<1>1. CASE OthersLag
  BY <1>1 DEF IInv, TypeOK, SetBackup, BackupsOwned
<1>2. CASE ~OthersLag
  BY <1>2 DEF IInv, TypeOK, SetBackup, BackupsOwned
<1>3. QED
  BY <1>1, <1>2

LEMMA DeleteBackupInv == ASSUME IInv, DeleteBackup PROVE IInv'
<1>. DEFINE u == local.uuid
<1>1. /\ local \in NABs /\ pc = "deleteBackup"
      /\ cur \in Names /\ queue \union {cur} \in SUBSET Names /\ queue \in SUBSET Names
  BY DEF IInv, TypeOK, CopiesOK, DeleteBackup
<1>2. CASE Exit /\ UNCHANGED <<nabVars, veleroVars>>
  BY <1>1, <1>2, ReturnInv, NABsKept, OthersKept DEF Exit, DeleteBackup
<1>3. CASE RemoveFinalizer
  BY <1>1, <1>3, RemoveFinalizerInv DEF DeleteBackup
<1>4. CASE Requeue /\ UNCHANGED <<nabVars, dbr, dbrSeen, store, vb, vbSeen, vbEvent>>
  <2>1. UNCHANGED <<nabVars, nar, owner, veleroVars, bounds>>
    BY <1>4 DEF DeleteBackup, veleroVars
  <2>2. QED
    BY <1>1, <1>4, <2>1, ReturnInv, NABsKept, OthersKept DEF Requeue
<1>5. CASE /\ u # NoUUID /\ vb[u] # "absent" /\ SetBackup(u, "absent", TRUE)
           /\ Return(queue \union Notified(u)) /\ UNCHANGED <<nabVars, dbr, dbrSeen, store>>
  <2>1. u \in UUIDs /\ owner[u] \in Names
    BY <1>1, <1>5 DEF NABs, IInv, BackupsOwned
  <2>2. /\ vb' \in [UUIDs -> VBStates] /\ vbSeen' \in [UUIDs -> VBStates]
        /\ vbEvent' \in [UUIDs -> BOOLEAN] /\ BackupsOwned'
    BY <1>5, <2>1, SetBackupOK DEF DeleteBackup, IInv, TypeOK, VBStates
  <2>3. OthersOK' /\ owner' = owner
    BY <1>5, <2>2 DEF IInv, TypeOK, OthersOK, DeleteBackup, bounds
  <2>4. queue \union Notified(u) \in SUBSET Names
    BY <1>1, <2>1 DEF Notified
  <2>5. QED
    BY <1>5, <2>3, <2>4, ReturnInv, NABsKept
<1>6. QED
  BY <1>2, <1>3, <1>4, <1>5 DEF DeleteBackup

LEMMA InitCreateInv == ASSUME IInv, InitCreate PROVE IInv'
<1>1. /\ local \in NABs /\ Guarded(local) /\ Owned(local) /\ pc = "init"
      /\ "validate" \in Steps \ {"idle"}
      /\ OthersOK' /\ owner' = owner
  BY OthersKept DEF IInv, TypeOK, Stage, InitCreate, Steps
<1>2. CASE Continue("validate", local) /\ UNCHANGED nabVars
  <2>1. Stage("validate", local)
    BY <1>1 DEF Stage
  <2>2. QED
    BY <1>1, <1>2, <2>1, ContinueInv
<1>3. CASE Update([local EXCEPT !.phase = "New"], FALSE, "validate")
  <2>. DEFINE obj == [local EXCEPT !.phase = "New"]
  <2>1. obj \in NABs
    BY <1>1, EditTypes
  <2>2. Stage("validate", obj)
    BY <1>1 DEF Stage, Guarded, Owned, NABs
  <2>3. Update(obj, FALSE, "validate")
    BY <1>3
  <2>. HIDE DEF obj
  <2>4. QED
    BY <1>1, <2>1, <2>2, <2>3, UpdateInv
<1>4. QED
  BY <1>2, <1>3 DEF InitCreate

LEMMA BackOffInv ==
  ASSUME IInv, pc # "idle", OthersOK', owner' = owner,
         UpdateIfChanged([local EXCEPT !.phase = "BackingOff", !.accepted = "False"], "idle")
  PROVE  IInv'
<1>. DEFINE obj == [local EXCEPT !.phase = "BackingOff", !.accepted = "False"]
<1>1. local \in NABs /\ Guarded(local) /\ Owned(local)
  BY DEF IInv, TypeOK, Stage
<1>2. obj \in NABs
  BY <1>1, EditTypes
<1>3. Stage("idle", obj)
  BY <1>1 DEF Stage, Guarded, Owned, NABs
<1>4. UpdateIfChanged(obj, "idle")
  OBVIOUS
<1>. HIDE DEF obj
<1>5. QED
  BY <1>2, <1>3, <1>4, UpdateIfChangedInv DEF Steps

LEMMA ValidateSpecInv == ASSUME IInv, ValidateSpec PROVE IInv'
<1>1. /\ local \in NABs /\ Guarded(local) /\ Owned(local) /\ pc = "validate"
      /\ OthersOK' /\ owner' = owner
  BY OthersKept DEF IInv, TypeOK, Stage, ValidateSpec
<1>2. CASE UpdateIfChanged([local EXCEPT !.accepted = "True"], "setUUID")
  <2>. DEFINE obj == [local EXCEPT !.accepted = "True"]
  <2>1. obj \in NABs
    BY <1>1, EditTypes
  <2>2. Stage("setUUID", obj)
    BY <1>1 DEF Stage, Guarded, Owned, NABs
  <2>3. UpdateIfChanged(obj, "setUUID")
    BY <1>2
  <2>. HIDE DEF obj
  <2>4. QED
    BY <1>1, <2>1, <2>2, <2>3, UpdateIfChangedInv DEF Steps
<1>3. QED
  BY <1>1, <1>2, BackOffInv DEF ValidateSpec

LEMMA SetBackupUUIDInv == ASSUME IInv, SetBackupUUID PROVE IInv'
<1>. DEFINE again == cache[cur]
<1>1. /\ cur \in Names /\ again \in NABs /\ Guarded(again) /\ Owned(again)
      /\ pc = "setUUID" /\ queue \union {cur} \in SUBSET Names
      /\ cacheFresh[cur] => again = nab[cur]
  BY DEF IInv, TypeOK, CopiesOK, StoredOK, SetBackupUUID
<1>2. CASE Requeue /\ UNCHANGED <<nabVars, owner>>
  BY <1>1, <1>2, ReturnInv, NABsKept, OthersKept DEF Requeue, SetBackupUUID
<1>3. CASE /\ again.uuid # NoUUID /\ pc' = "setFinalizer"
           /\ local' = again /\ localFresh' = cacheFresh[cur]
           /\ UNCHANGED <<nabVars, owner, queue, cur, vbRead>>
  <2>1. OthersOK' /\ owner' = owner
    BY <1>3, OthersKept DEF SetBackupUUID
  <2>2. TypeOK'
    BY <1>1, <1>3, <2>1, NABsKept DEF IInv, TypeOK, OthersOK, Steps
  <2>3. CopiesOK' /\ Stage(pc, local)'
    BY <1>1, <1>3 DEF IInv, CopiesOK, Stage, Owned, nabVars
  <2>4. QED
    BY <1>3, <2>1, <2>2, <2>3, NABsKept DEF IInv, OthersOK
<1>4. ASSUME NEW u \in UUIDs, Changed(cur, [again EXCEPT !.uuid = u], FALSE),
             owner' = [owner EXCEPT ![u] = cur], local' = [again EXCEPT !.uuid = u],
             pc' = "setFinalizer", localFresh' = TRUE, UNCHANGED <<queue, cur, vbRead>>
      PROVE  IInv'
  <2>. DEFINE obj == [again EXCEPT !.uuid = u]
  <2>1. obj \in NABs /\ obj.uuid = u /\ u # NoUUID
    <3>1. obj \in NABs
      BY <1>1, EditTypes
    <3>2. obj.uuid = u
      BY <1>1 DEF NABs
    <3>3. QED
      BY <3>1, <3>2, NamesAssumption
  <2>2. Guarded(obj)
    BY <1>1, NamesAssumption DEF Guarded, NABs
  <2>3. /\ owner' \in [UUIDs -> Names \union {NoName}] /\ owner'[u] \in Names
        /\ \A w \in UUIDs : owner[w] \in Names => owner'[w] \in Names
    BY <1>1, <1>4 DEF IInv, TypeOK
  <2>4. OthersOK'
    BY <2>3 DEF IInv, TypeOK, OthersOK, BackupsOwned, SetBackupUUID, veleroVars, bounds
  <2>5. /\ nab' = [nab EXCEPT ![cur] = obj] /\ cache' = cache
        /\ cacheFresh' = [cacheFresh EXCEPT ![cur] = FALSE]
        /\ nabEvent' = [nabEvent EXCEPT ![cur] = @ \/ FALSE] /\ local' = obj
    BY <1>4 DEF Changed
  <2>. HIDE DEF obj
  <2>6. TypeOK'
    BY <1>1, <1>4, <2>1, <2>4, <2>5 DEF IInv, TypeOK, OthersOK, Steps
  <2>7. CopiesOK'
    BY <1>1, <1>4, <2>5 DEF IInv, TypeOK, CopiesOK
  <2>8. \A m \in Names : nab[m] \in NABs /\ cache[m] \in NABs
    BY DEF IInv, TypeOK
  <2>9. StoredOK'
    BY <1>1, <2>1, <2>2, <2>3, <2>5, <2>8 DEF IInv, TypeOK, StoredOK, Owned, NABs
  <2>10. Stage(pc, local)'
    BY <1>4, <2>1, <2>2, <2>3, <2>5 DEF Stage, Owned
  <2>11. QED
    BY <2>4, <2>6, <2>7, <2>9, <2>10 DEF IInv, OthersOK
<1>5. ASSUME again.syncLabel # NoUUID PROVE again.syncLabel \in UUIDs
  BY <1>1, <1>5 DEF NABs
<1>6. QED
  BY <1>2, <1>3, <1>4, <1>5 DEF SetBackupUUID

LEMMA SetFinalizerInv == ASSUME IInv, SetFinalizer PROVE IInv'
<1>. DEFINE obj == [local EXCEPT !.finalizer = TRUE]
<1>1. /\ local \in NABs /\ Guarded(local) /\ Owned(local) /\ local.uuid # NoUUID
      /\ pc = "setFinalizer" /\ OthersOK' /\ owner' = owner
  BY OthersKept DEF IInv, TypeOK, Stage, SetFinalizer
<1>2. obj \in NABs
  BY <1>1, EditTypes
<1>3. Stage("createBackup", obj)
  BY <1>1 DEF Stage, Guarded, Owned, NABs
<1>4. UpdateIfChanged(obj, "createBackup")
  BY DEF SetFinalizer
<1>. HIDE DEF obj
<1>5. QED
  BY <1>1, <1>2, <1>3, <1>4, UpdateIfChangedInv DEF Steps

LEMMA SyncStatusInv == ASSUME IInv, SyncStatus PROVE IInv'
<1>. DEFINE obj == [local EXCEPT !.phase = "Created", !.queued = TRUE, !.mirror = vbRead]
<1>1. /\ local \in NABs /\ Guarded(local) /\ Owned(local) /\ local.finalizer
      /\ vbRead \in VBStates /\ pc = "syncStatus" /\ OthersOK' /\ owner' = owner
  BY OthersKept DEF IInv, TypeOK, Stage, SyncStatus
<1>2. obj \in NABs
  BY <1>1, EditTypes
<1>3. Stage("idle", obj)
  BY <1>1 DEF Stage, Guarded, Owned, NABs
<1>4. Update(obj, FALSE, "idle")
  BY DEF SyncStatus
<1>. HIDE DEF obj
<1>5. QED
  BY <1>1, <1>2, <1>3, <1>4, UpdateInv DEF Steps

LEMMA CreateBackupInv == ASSUME IInv, CreateBackup PROVE IInv'
<1>. DEFINE u == local.uuid
<1>1. /\ local \in NABs /\ local.uuid # NoUUID /\ local.finalizer /\ Guarded(local)
      /\ Owned(local) /\ pc = "createBackup" /\ u \in UUIDs /\ owner[u] \in Names
      /\ cur \in Names /\ queue \union {cur} \in SUBSET Names
  BY DEF IInv, TypeOK, CopiesOK, Stage, Owned, CreateBackup, NABs
<1>2. ASSUME NEW seen \in VBStates, vbRead' = seen, pc' = "syncStatus", OthersOK',
             UNCHANGED <<nabVars, owner, queue, cur, local, localFresh>>
      PROVE  IInv'
  <2>1. TypeOK'
    BY <1>2, NABsKept DEF IInv, TypeOK, OthersOK, Steps
  <2>2. CopiesOK' /\ Stage(pc, local)'
    BY <1>1, <1>2 DEF IInv, CopiesOK, Stage, Owned, nabVars
  <2>3. QED
    BY <1>2, <2>1, <2>2, NABsKept DEF IInv, OthersOK
<1>3. CASE /\ pc' = "syncStatus" /\ vbRead' = vbSeen[u]
           /\ UNCHANGED <<nabVars, veleroVars, queue, cur, local, localFresh>>
  <2>1. vbSeen[u] \in VBStates
    BY <1>1 DEF IInv, TypeOK
  <2>2. QED
    BY <1>2, <1>3, <2>1, OthersKept DEF CreateBackup
<1>4. CASE UpdateIfChanged([local EXCEPT !.phase = "BackingOff", !.accepted = "False"], "idle")
           /\ UNCHANGED veleroVars
  BY <1>1, <1>4, BackOffInv, OthersKept DEF CreateBackup
<1>5. CASE Requeue /\ UNCHANGED <<nabVars, veleroVars>>
  BY <1>1, <1>5, ReturnInv, NABsKept, OthersKept DEF Requeue, CreateBackup
<1>6. CASE /\ SetBackup(u, "New", FALSE) /\ pc' = "syncStatus" /\ vbRead' = "New"
           /\ UNCHANGED <<nabVars, dbr, dbrSeen, store, queue, cur, local, localFresh>>
  <2>1. /\ vb' \in [UUIDs -> VBStates] /\ vbSeen' \in [UUIDs -> VBStates]
        /\ vbEvent' \in [UUIDs -> BOOLEAN] /\ BackupsOwned'
    BY <1>1, <1>6, SetBackupOK DEF CreateBackup, IInv, TypeOK, VBStates
  <2>2. OthersOK' /\ UNCHANGED owner
    BY <1>6, <2>1 DEF IInv, TypeOK, OthersOK, CreateBackup, bounds
  <2>3. QED
    BY <1>2, <1>6, <2>2 DEF VBStates
<1>7. QED
  BY <1>3, <1>4, <1>5, <1>6 DEF CreateBackup

LEMMA StepInv == ASSUME IInv, Step PROVE IInv'
BY MarkInv, CallDeleteInv, DeleteRestoresInv, RequestDeletionInv, DeleteRequestsInv,
   DeleteBackupInv, InitCreateInv, ValidateSpecInv, SetBackupUUIDInv, SetFinalizerInv,
   CreateBackupInv, SyncStatusInv
   DEF Step

-----------------------------------------------------------------------------
(***************************************************************************)
(* Failures, informers, users, the other controllers and Velero.           *)
(***************************************************************************)
LEMMA CallFailsInv == ASSUME IInv, CallFails PROVE IInv'
<1>1. OthersOK' /\ owner' = owner
  BY DEF IInv, TypeOK, OthersOK, BackupsOwned, CallFails, veleroVars
<1>2. queue \union {cur} \in SUBSET Names
  BY DEF IInv, TypeOK, CopiesOK, CallFails
<1>3. QED
  BY <1>1, <1>2, ReturnInv, NABsKept DEF CallFails, Requeue

LEMMA RestartInv == ASSUME IInv, Restart PROVE IInv'
<1>1. OthersOK' /\ owner' = owner
  BY DEF IInv, TypeOK, OthersOK, BackupsOwned, Restart
<1>2. /\ nab' \in [Names -> NABs] /\ cache' \in [Names -> NABs]
      /\ cacheFresh' \in [Names -> BOOLEAN] /\ nabEvent' \in [Names -> BOOLEAN]
      /\ \A m \in Names : cacheFresh'[m] => cache'[m] = nab'[m]
      /\ StoredOK'
  BY DEF IInv, TypeOK, StoredOK, Owned, Restart
<1>3. {n \in Names : nab[n].exists} \in SUBSET Names
  OBVIOUS
<1>4. QED
  BY <1>1, <1>2, <1>3, ReturnInv DEF Restart

LEMMA DeliverNABInv == ASSUME IInv, NEW n \in Names, DeliverNAB(n) PROVE IInv'
<1>1. OthersOK' /\ owner' = owner
  BY OthersKept DEF DeliverNAB
<1>2. TypeOK'
  BY <1>1 DEF IInv, TypeOK, OthersOK, DeliverNAB
<1>3. CopiesOK'
  BY DEF IInv, TypeOK, CopiesOK, DeliverNAB
<1>4. StoredOK' /\ Stage(pc, local)'
  BY DEF IInv, TypeOK, StoredOK, Stage, Owned, DeliverNAB
<1>5. QED
  BY <1>1, <1>2, <1>3, <1>4 DEF IInv, OthersOK

LEMMA DeliverVeleroInv ==
  ASSUME IInv, NEW u \in UUIDs, DeliverBackup(u) \/ DeliverRequests(u) \/ OtherEvent(u)
  PROVE  IInv'
<1>1. CASE DeliverBackup(u)
  <2>1. OthersOK' /\ owner' = owner
    BY <1>1 DEF IInv, TypeOK, OthersOK, BackupsOwned, DeliverBackup, bounds
  <2>2. queue' \subseteq Names
    BY <1>1 DEF IInv, TypeOK, BackupsOwned, DeliverBackup
  <2>3. QED
    BY <1>1, <2>1, <2>2, BystanderInv DEF DeliverBackup
<1>2. CASE DeliverRequests(u)
  <2>1. OthersOK' /\ owner' = owner
    BY <1>2 DEF IInv, TypeOK, OthersOK, BackupsOwned, DeliverRequests, bounds
  <2>2. queue' \subseteq Names
    BY <1>2 DEF IInv, TypeOK, DeliverRequests, workerVars
  <2>3. QED
    BY <1>2, <2>1, <2>2, BystanderInv DEF DeliverRequests, workerVars
<1>3. CASE OtherEvent(u)
  <2>1. OthersOK' /\ owner' = owner
    BY <1>3, OthersKept DEF OtherEvent
  <2>2. queue' \subseteq Names
    BY <1>3 DEF IInv, TypeOK, BackupsOwned, OtherEvent
  <2>3. QED
    BY <1>3, <2>1, <2>2, BystanderInv DEF OtherEvent
<1>4. QED
  BY <1>1, <1>2, <1>3

LEMMA NewNABOK ==
  ASSUME NEW label \in UUIDs \union {NoUUID}, NEW valid \in BOOLEAN
  PROVE  /\ NewNAB(label, valid) \in NABs
         /\ Guarded(NewNAB(label, valid)) /\ Owned(NewNAB(label, valid))
BY NewNABType DEF NewNAB, Guarded, Owned

LEMMA UserWritesInv ==
  ASSUME IInv, NEW n \in Names, NEW obj \in NABs, Guarded(obj), Owned(obj), UserWrites(n, obj)
  PROVE  IInv'
<1>1. edits' \in Nat /\ resyncs' \in Nat
  BY DEF IInv, TypeOK, UserWrites
<1>2. QED
  BY <1>1, ForeignWriteInv DEF UserWrites

LEMMA UserInv == ASSUME IInv, NEW n \in Names, User(n) PROVE IInv'
<1>1. nab[n] \in NABs /\ Guarded(nab[n]) /\ Owned(nab[n])
  BY DEF IInv, TypeOK, StoredOK
<1>2. ASSUME NEW label \in UUIDs \union {NoUUID}, NEW valid \in BOOLEAN,
             CreateNAB(n, label, valid)
      PROVE  IInv'
  BY <1>2, NewNABOK, UserWritesInv DEF CreateNAB
<1>3. CASE EditSpec(n)
  <2>. DEFINE obj == [nab[n] EXCEPT !.valid = ~@]
  <2>1. obj \in NABs
    BY <1>1 DEF NABs
  <2>2. Guarded(obj) /\ Owned(obj)
    BY <1>1 DEF Guarded, Owned, NABs
  <2>3. UserWrites(n, obj)
    BY <1>3 DEF EditSpec
  <2>. HIDE DEF obj
  <2>4. QED
    BY <2>1, <2>2, <2>3, UserWritesInv
<1>4. CASE SetDeleteBackup(n)
  <2>. DEFINE obj == [nab[n] EXCEPT !.deleteBackup = ~@]
  <2>1. obj \in NABs
    BY <1>1 DEF NABs
  <2>2. Guarded(obj) /\ Owned(obj)
    BY <1>1 DEF Guarded, Owned, NABs
  <2>3. UserWrites(n, obj)
    BY <1>4 DEF SetDeleteBackup
  <2>. HIDE DEF obj
  <2>4. QED
    BY <2>1, <2>2, <2>3, UserWritesInv
<1>5. CASE DeleteNAB(n)
  BY <1>1, <1>5, DeletedOK, UserWritesInv DEF DeleteNAB
<1>6. CASE CreateRestore(n)
  <2>1. OthersOK' /\ owner' = owner
    BY <1>6 DEF IInv, TypeOK, Restores, OthersOK, BackupsOwned, CreateRestore, veleroVars
  <2>2. queue' \subseteq Names
    BY <1>6 DEF IInv, TypeOK, CreateRestore, workerVars
  <2>3. QED
    BY <1>6, <2>1, <2>2, BystanderInv DEF CreateRestore, workerVars
<1>7. QED
  BY <1>2, <1>3, <1>4, <1>5, <1>6 DEF User

LEMMA RestoreGoneInv == ASSUME IInv, NEW n \in Names, RestoreGone(n) PROVE IInv'
<1>1. OthersOK' /\ owner' = owner
  BY DEF IInv, TypeOK, Restores, OthersOK, BackupsOwned, RestoreGone, veleroVars, bounds
<1>2. queue' \subseteq Names
  BY DEF IInv, TypeOK, RestoreGone, workerVars
<1>3. QED
  BY <1>1, <1>2, BystanderInv DEF RestoreGone, workerVars

LEMMA SyncCreateInv ==
  ASSUME IInv, NEW n \in Names, NEW u \in UUIDs, SyncCreate(n, u)
  PROVE  IInv'
<1>1. edits' \in Nat /\ resyncs' \in Nat
  BY DEF IInv, TypeOK, SyncCreate, bounds
<1>2. NewNAB(u, TRUE) \in NABs /\ Guarded(NewNAB(u, TRUE)) /\ Owned(NewNAB(u, TRUE))
  BY NewNABOK
<1>3. QED
  BY <1>1, <1>2, ForeignWriteInv DEF SyncCreate, bounds

\* What Velero does to a backup is safe once that backup belongs to a NAB.
LEMMA VeleroSetsInv ==
  ASSUME IInv, NEW u \in UUIDs, NEW state \in VBStates, NEW event \in BOOLEAN,
         owner[u] \in Names, VeleroSets(u, state, event),
         store' \in [UUIDs -> BOOLEAN], \A w \in UUIDs : store'[w] => store[w] \/ w = u,
         dbr' \in [UUIDs -> Requests], dbrSeen' \in [UUIDs -> Requests], resyncs' \in Nat
  PROVE  IInv'
<1>1. /\ vb' \in [UUIDs -> VBStates] /\ vbSeen' \in [UUIDs -> VBStates]
      /\ vbEvent' \in [UUIDs -> BOOLEAN] /\ BackupsOwned'
  BY SetBackupOK DEF VeleroSets
<1>2. OthersOK' /\ owner' = owner
  BY <1>1 DEF IInv, TypeOK, OthersOK, VeleroSets
<1>3. queue' \subseteq Names
  BY DEF IInv, TypeOK, VeleroSets, Notified
<1>4. QED
  BY <1>2, <1>3, BystanderInv DEF VeleroSets

LEMMA PurgeInv == ASSUME IInv, NEW u \in UUIDs, vb[u] = "Completed", Purge(u) PROVE IInv'
<1>1. owner[u] \in Names /\ "absent" \in VBStates
  BY DEF IInv, BackupsOwned, VBStates
<1>2. dbr' \in [UUIDs -> Requests] /\ dbrSeen' \in [UUIDs -> Requests]
  BY SetRequestsOK DEF Purge, NoRequest, Requests
<1>3. /\ store' \in [UUIDs -> BOOLEAN] /\ \A w \in UUIDs : store'[w] => store[w] \/ w = u
      /\ resyncs' \in Nat
  BY DEF IInv, TypeOK, Purge
<1>4. QED
  BY <1>1, <1>2, <1>3, VeleroSetsInv DEF Purge

LEMMA CollectBackupInv == ASSUME IInv, NEW u \in UUIDs, CollectBackup(u) PROVE IInv'
<1>1. owner[u] \in Names /\ "absent" \in VBStates
  BY DEF IInv, BackupsOwned, CollectBackup, VBStates
<1>2. /\ store' \in [UUIDs -> BOOLEAN] /\ \A w \in UUIDs : store'[w] => store[w] \/ w = u
      /\ dbr' \in [UUIDs -> Requests] /\ dbrSeen' \in [UUIDs -> Requests] /\ resyncs' \in Nat
  BY DEF IInv, TypeOK, CollectBackup
<1>3. QED
  BY <1>1, <1>2, VeleroSetsInv DEF CollectBackup

LEMMA VeleroInv == ASSUME IInv, NEW u \in UUIDs, Velero(u) PROVE IInv'
<1>1. /\ vb[u] \in VBStates /\ dbr[u] \in Requests
      /\ vb[u] # "absent" \/ store[u] => owner[u] \in Names
  BY DEF IInv, TypeOK, BackupsOwned
<1>2. CASE CompleteBackup(u)
  <2>1. /\ store' \in [UUIDs -> BOOLEAN] /\ \A w \in UUIDs : store'[w] => store[w] \/ w = u
        /\ dbr' \in [UUIDs -> Requests] /\ dbrSeen' \in [UUIDs -> Requests] /\ resyncs' \in Nat
    BY <1>2 DEF IInv, TypeOK, CompleteBackup
  <2>2. QED
    BY <1>1, <1>2, <2>1, VeleroSetsInv DEF CompleteBackup, VBStates
<1>3. CASE ProcessRequest(u) \/ ExpireBackup(u)
  BY <1>3, PurgeInv DEF ProcessRequest, ExpireBackup
<1>4. CASE RejectRequest(u)
  <2>1. [dbr[u] EXCEPT !.status = "Processed"] \in Requests
    BY <1>1 DEF Requests
  <2>2. dbr' \in [UUIDs -> Requests] /\ dbrSeen' \in [UUIDs -> Requests]
    BY <1>4, <2>1, SetRequestsOK DEF RejectRequest
  <2>3. /\ store' \in [UUIDs -> BOOLEAN] /\ \A w \in UUIDs : store'[w] => store[w] \/ w = u
        /\ resyncs' \in Nat
    BY <1>4 DEF IInv, TypeOK, RejectRequest
  <2>4. VeleroSets(u, vb[u], TRUE) /\ owner[u] \in Names
    BY <1>1, <1>4 DEF RejectRequest
  <2>5. QED
    BY <1>1, <2>2, <2>3, <2>4, VeleroSetsInv
<1>5. CASE ExpireRequest(u)
  <2>1. dbr' \in [UUIDs -> Requests] /\ dbrSeen' \in [UUIDs -> Requests]
    BY <1>5, SetRequestsOK DEF ExpireRequest, NoRequest, Requests
  <2>2. OthersOK' /\ owner' = owner
    BY <1>5, <2>1 DEF IInv, TypeOK, OthersOK, BackupsOwned, ExpireRequest, bounds
  <2>3. queue' \subseteq Names
    BY <1>5 DEF IInv, TypeOK, ExpireRequest, workerVars
  <2>4. QED
    BY <1>5, <2>2, <2>3, BystanderInv DEF ExpireRequest, workerVars
<1>6. CASE ResyncBackup(u)
  <2>1. /\ store' \in [UUIDs -> BOOLEAN] /\ \A w \in UUIDs : store'[w] => store[w] \/ w = u
        /\ dbr' \in [UUIDs -> Requests] /\ dbrSeen' \in [UUIDs -> Requests] /\ resyncs' \in Nat
    BY <1>6 DEF IInv, TypeOK, ResyncBackup
  <2>2. QED
    BY <1>1, <1>6, <2>1, VeleroSetsInv DEF ResyncBackup, VBStates
<1>7. QED
  BY <1>2, <1>3, <1>4, <1>5, <1>6 DEF Velero

LEMMA StutterInv == ASSUME IInv, UNCHANGED vars PROVE IInv'
<1>1. OthersOK' /\ owner' = owner
  BY OthersKept DEF vars
<1>2. queue' \subseteq Names
  BY DEF IInv, TypeOK, vars, workerVars
<1>3. QED
  BY <1>1, <1>2, BystanderInv DEF vars, workerVars

LEMMA NextInv == ASSUME IInv, [Next]_vars PROVE IInv'
BY StepInv, CallFailsInv, RestartInv, ReconcileInv, DeliverNABInv, UserInv, RestoreGoneInv,
   DeliverVeleroInv, VeleroInv, SyncCreateInv, CollectBackupInv, StutterInv
   DEF Next, Operation

-----------------------------------------------------------------------------
(***************************************************************************)
(* Theorems.                                                               *)
(***************************************************************************)
\* What optimistic locking gives the worker, with which every result about it is
\* proved: a fresh copy is the stored NAB, and every copy was stored once.
THEOREM Invariance == Spec => []IInv
<1>1. Init => IInv
  BY InitOK
<1>2. IInv /\ [Next]_vars => IInv'
  BY NextInv
<1>3. QED
  BY <1>1, <1>2, PTL DEF Spec

\* Type correctness: whatever interleaving, staleness, failures and restarts,
\* the controller writes no malformed status, and the events of Velero Backups
\* enqueue nothing but NABs.
THEOREM TypeCorrect == Spec => []TypeOK
<1>1. IInv => TypeOK
  BY DEF IInv
<1>2. QED
  BY <1>1, Invariance, PTL

\* A NAB with the finalizer has a NACUUID, and one that is Created has the
\* finalizer and is Queued, however many NABs, backups and faults there are.
THEOREM AlwaysGuarded == Spec => []NABGuarded
<1>1. IInv => NABGuarded
  BY DEF IInv, StoredOK, NABGuarded
<1>2. QED
  BY <1>1, Invariance, PTL

-----------------------------------------------------------------------------
(***************************************************************************)
(* A NACUUID is never replaced: every write starts from a copy that is the *)
(* stored NAB, or is refused.                                              *)
(***************************************************************************)
LEMMA UnchangedKeeps == ASSUME nab' = nab PROVE UUIDKept
BY DEF UUIDKept

LEMMA ChangedKeeps ==
  ASSUME IInv, NEW n \in Names, NEW obj, NEW event, Changed(n, obj, event),
         obj.exists /\ nab[n].exists /\ nab[n].uuid # NoUUID => obj.uuid = nab[n].uuid
  PROVE  UUIDKept
<1>1. nab' = [nab EXCEPT ![n] = obj] /\ nab \in [Names -> NABs]
  BY DEF Changed, IInv, TypeOK
<1>2. ASSUME NEW m \in Names, nab[m].exists, nab'[m].exists, nab[m].uuid # NoUUID
      PROVE  nab'[m].uuid = nab[m].uuid
  BY <1>1, <1>2
<1>3. QED
  BY <1>2 DEF UUIDKept

LEMMA UpdateKeeps ==
  ASSUME IInv, NEW obj, NEW event, NEW step, Update(obj, event, step),
         obj.exists => obj.uuid = local.uuid
  PROVE  UUIDKept
<1>1. CASE localFresh /\ Changed(cur, obj, event)
  <2>1. cur \in Names /\ local = nab[cur]
    BY <1>1 DEF IInv, CopiesOK
  <2>2. QED
    BY <1>1, <2>1, ChangedKeeps
<1>2. CASE UNCHANGED nabVars
  BY <1>2, UnchangedKeeps DEF nabVars
<1>3. QED
  BY <1>1, <1>2 DEF Update

LEMMA UpdateIfChangedKeeps ==
  ASSUME IInv, NEW obj, NEW step, UpdateIfChanged(obj, step), obj.uuid = local.uuid
  PROVE  UUIDKept
BY UpdateKeeps, UnchangedKeeps DEF UpdateIfChanged, nabVars

LEMMA StepKeeps == ASSUME IInv, Step PROVE UUIDKept
<1>1. local \in NABs /\ (pc # "idle" => cur \in Names)
  BY DEF IInv, TypeOK, CopiesOK
<1>2. ASSUME MarkDelete \/ MarkDirect \/ InitCreate \/ ValidateSpec \/ SetFinalizer
             \/ SyncStatus \/ CreateBackup
      PROVE  UUIDKept
  <2>. DEFINE deleting(how) == [local EXCEPT !.phase = "Deleting", !.deleting = how]
              backingOff    == [local EXCEPT !.phase = "BackingOff", !.accepted = "False"]
              new           == [local EXCEPT !.phase = "New"]
              accepted      == [local EXCEPT !.accepted = "True"]
              finalized     == [local EXCEPT !.finalizer = TRUE]
              created       == [local EXCEPT !.phase = "Created", !.queued = TRUE,
                                             !.mirror = vbRead]
  <2>1. /\ \A how \in {"accepted", "direct"} : deleting(how).uuid = local.uuid
        /\ backingOff.uuid = local.uuid /\ new.uuid = local.uuid
        /\ accepted.uuid = local.uuid /\ finalized.uuid = local.uuid
        /\ created.uuid = local.uuid
    BY <1>1 DEF NABs
  <2>2. CASE MarkDelete \/ MarkDirect
    BY <2>1, <2>2, UpdateIfChangedKeeps DEF MarkDelete, MarkDirect
  <2>3. CASE InitCreate
    BY <2>1, <2>3, UpdateKeeps, UnchangedKeeps DEF InitCreate, nabVars
  <2>4. CASE ValidateSpec \/ SetFinalizer
    BY <2>1, <2>4, UpdateIfChangedKeeps DEF ValidateSpec, SetFinalizer
  <2>5. CASE SyncStatus
    BY <2>1, <2>5, UpdateKeeps DEF SyncStatus
  <2>6. CASE CreateBackup
    BY <2>1, <2>6, UpdateIfChangedKeeps, UnchangedKeeps DEF CreateBackup, nabVars
  <2>7. QED
    BY <1>2, <2>2, <2>3, <2>4, <2>5, <2>6
<1>3. CASE CallDelete
  <2>1. cur \in Names /\ nab[cur] \in NABs
    BY <1>1, <1>3 DEF CallDelete, IInv, TypeOK
  <2>2. Deleted(nab[cur]).exists => Deleted(nab[cur]).uuid = nab[cur].uuid
    BY <2>1, NoNABType DEF Deleted, NABs
  <2>3. QED
    BY <1>3, <2>1, <2>2, ChangedKeeps, UnchangedKeeps DEF CallDelete, nabVars
<1>4. CASE DeleteRestores \/ DeleteRequests
  BY <1>4, UnchangedKeeps DEF DeleteRestores, DeleteRequests, nabVars
<1>5. CASE RequestDeletion \/ DeleteBackup
  <2>1. WithoutFinalizer(local).exists => WithoutFinalizer(local).uuid = local.uuid
    BY <1>1, NoNABType DEF WithoutFinalizer, NABs
  <2>2. CASE RemoveFinalizer
    BY <2>1, <2>2, UpdateKeeps DEF RemoveFinalizer
  <2>3. ASSUME NEW status, SyncRequest(status) PROVE UUIDKept
    <3>1. [local EXCEPT !.dbrStatus = status].uuid = local.uuid
      BY <1>1 DEF NABs
    <3>2. QED
      BY <2>3, <3>1, UpdateIfChangedKeeps DEF SyncRequest
  <2>4. CASE RequestDeletion
    BY <2>2, <2>3, <2>4, UnchangedKeeps DEF RequestDeletion, nabVars
  <2>5. CASE DeleteBackup
    BY <2>2, <2>5, UnchangedKeeps DEF DeleteBackup, nabVars
  <2>6. QED
    BY <1>5, <2>4, <2>5
<1>6. CASE SetBackupUUID
  <2>1. cur \in Names /\ (cacheFresh[cur] => cache[cur] = nab[cur])
    BY <1>1, <1>6 DEF SetBackupUUID, IInv, CopiesOK
  <2>2. CASE UNCHANGED nabVars
    BY <2>2, UnchangedKeeps DEF nabVars
  <2>3. ASSUME cache[cur].uuid = NoUUID, cacheFresh[cur],
               NEW u, Changed(cur, [cache[cur] EXCEPT !.uuid = u], FALSE)
        PROVE  UUIDKept
    <3>1. nab[cur].uuid = NoUUID
      BY <2>1, <2>3
    <3>2. QED
      BY <2>1, <2>3, <3>1, ChangedKeeps
  <2>4. QED
    BY <1>6, <2>2, <2>3 DEF SetBackupUUID
<1>7. QED
  BY <1>2, <1>3, <1>4, <1>5, <1>6 DEF Step

LEMMA UserKeeps == ASSUME IInv, NEW n \in Names, User(n) PROVE UUIDKept
<1>1. nab[n] \in NABs
  BY DEF IInv, TypeOK
<1>2. ASSUME NEW label, NEW valid \in BOOLEAN, CreateNAB(n, label, valid) PROVE UUIDKept
  BY <1>2, ChangedKeeps DEF CreateNAB, UserWrites
<1>3. [nab[n] EXCEPT !.valid = ~@].uuid = nab[n].uuid
  BY <1>1 DEF NABs
<1>4. [nab[n] EXCEPT !.deleteBackup = ~@].uuid = nab[n].uuid
  BY <1>1 DEF NABs
<1>5. Deleted(nab[n]).exists => Deleted(nab[n]).uuid = nab[n].uuid
  BY <1>1, NoNABType DEF Deleted, NABs
<1>6. CASE EditSpec(n)
  BY <1>3, <1>6, ChangedKeeps DEF EditSpec, UserWrites
<1>7. CASE SetDeleteBackup(n)
  BY <1>4, <1>7, ChangedKeeps DEF SetDeleteBackup, UserWrites
<1>8. CASE DeleteNAB(n)
  BY <1>5, <1>8, ChangedKeeps DEF DeleteNAB, UserWrites
<1>9. CASE CreateRestore(n)
  BY <1>9, UnchangedKeeps DEF CreateRestore, nabVars
<1>10. QED
  BY <1>2, <1>6, <1>7, <1>8, <1>9 DEF User

LEMMA NextKeeps == ASSUME IInv, [Next]_vars PROVE UUIDKept
<1>1. ASSUME NEW n \in Names, Reconcile(n) \/ DeliverNAB(n) \/ RestoreGone(n)
      PROVE  UUIDKept
  BY <1>1, UnchangedKeeps DEF Reconcile, DeliverNAB, RestoreGone, nabVars
<1>2. ASSUME NEW u \in UUIDs, DeliverBackup(u) \/ DeliverRequests(u) \/ OtherEvent(u)
      PROVE  UUIDKept
  BY <1>2, UnchangedKeeps DEF DeliverBackup, DeliverRequests, OtherEvent, nabVars
<1>3. ASSUME NEW u \in UUIDs, Velero(u) PROVE UUIDKept
  BY <1>3, UnchangedKeeps
     DEF Velero, CompleteBackup, ProcessRequest, ExpireBackup, Purge, RejectRequest,
         ExpireRequest, ResyncBackup, VeleroSets, nabVars
<1>4. ASSUME NEW n \in Names, NEW u \in UUIDs, SyncCreate(n, u) PROVE UUIDKept
  BY <1>4, ChangedKeeps DEF SyncCreate
<1>5. ASSUME NEW u \in UUIDs, CollectBackup(u) PROVE UUIDKept
  BY <1>5, UnchangedKeeps DEF CollectBackup, VeleroSets, nabVars
<1>6. CASE CallFails \/ Restart \/ UNCHANGED vars
  BY <1>6, UnchangedKeeps DEF CallFails, Restart, vars, nabVars
<1>7. QED
  BY <1>1, <1>2, <1>3, <1>4, <1>5, <1>6, StepKeeps, UserKeeps DEF Next, Operation

\* Once stored, the NACUUID of a NAB never changes: although the controller
\* decides by a cache that may not show it yet, a second one is never written.
THEOREM NACUUIDIsStable == Spec => UUIDStable
<1>1. IInv /\ [Next]_vars => [UUIDKept]_vars
  BY NextKeeps
<1>2. QED
  BY <1>1, Invariance, PTL DEF Spec, UUIDStable
=============================================================================
