-------------------- MODULE NonAdminDownloadRequestProofs --------------------
(***************************************************************************)
(* Theorems about NonAdminDownloadRequest, for any set of names, UIDs and  *)
(* VDRs and any number of changes, failures and restarts.                  *)
(*                                                                         *)
(* A NADR is patched by its name while its VDR is found by the UID in a    *)
(* copy of it that may be old.  The invariant says why the two agree: a    *)
(* UID is remembered under one name only, and a VDR for the NADR that is   *)
(* stored now was asked for by a worker that had read that very NADR, so   *)
(* that no older copy of it is left.                                       *)
(***************************************************************************)
EXTENDS NonAdminDownloadRequest, TLAPS

\* A copy of the NADR n, or a VDR made for it, has this UID.
Bears(n, uid) ==
  \/ nadr[n].uid = uid \/ cache[n].uid = uid \/ (cur = n /\ req.uid = uid)
  \/ \E v \in VDRs : vdr[v].name = n /\ vdr[v].uid = uid
UIDsOK == \A uid \in UIDs : \A m, n \in Names : Bears(m, uid) /\ Bears(n, uid) => m = n

VDROK(v) ==
  /\ vdr[v].state # "unused" => vdr[v].uid \in UIDs /\ vdr[v].name \in Names
  /\ vdrSeen[v].state # "unused" => vdr[v].state # "unused" /\ vdrSeen[v].uid = vdr[v].uid
  /\ vdrSeen[v].state = "Processed" => Provided(v)
  /\ v \in late => Provided(v)
  /\ vdr[v].state = "gone" => v \in late
VDRsOK ==
  /\ \A v \in VDRs : VDROK(v)
  /\ \A v, w \in VDRs : Live(vdr[v]) /\ Live(vdr[w]) /\ vdr[v].uid = vdr[w].uid => v = w

\* Once there is a VDR for the stored NADR, nothing older than that is read.
Known(n) ==
  \A v \in VDRs : (nadr[n].uid # NoUID /\ vdr[v].uid = nadr[n].uid)
    => cache[n].uid = nadr[n].uid /\ (cur = n => req.uid = nadr[n].uid)
CopiesOK ==
  /\ \A n \in Names : Known(n)
  /\ (pc # "idle" /\ req.uid = nadr[cur].uid) => cache[cur].uid = req.uid

WorkerOK ==
  /\ IF pc = "idle" THEN cur = NoName /\ req = NoNADR ELSE cur \in Names /\ req.uid \in UIDs
  /\ pc = "patchURL" => /\ req.url \in VDRs /\ vdr[req.url].name = cur /\ Provided(req.url)
                        /\ \A v \in VDRs : Shows(cur, v) => v = req.url

IInv == TypeOK /\ UIDsOK /\ VDRsOK /\ CopiesOK /\ WorkerOK /\ OwnURL

LEMMA NoneFacts ==
  /\ NoNADR \in NADRs /\ NoNADR.uid = NoUID /\ NoNADR.url = NoVDR
  /\ Unused \in VDRObjects /\ Unused.state = "unused"
BY DEF NoNADR, NewNADR, NADRs, Kinds, Conditions, Unused, VDRObjects

LEMMA InitOK == Init => IInv
<1> SUFFICES ASSUME Init PROVE IInv
  OBVIOUS
<1>1. TypeOK
  BY NoneFacts DEF Init, TypeOK, BackupStates, RestoreStates
<1>2. UIDsOK
  BY NoneFacts, NoneAssumption DEF Init, UIDsOK, Bears, Unused
<1>3. VDRsOK
  BY NoneFacts DEF Init, VDRsOK, VDROK, Live, Provided
<1>4. CopiesOK /\ WorkerOK /\ OwnURL
  BY NoneFacts DEF Init, CopiesOK, Known, WorkerOK, OwnURL
<1>5. QED
  BY <1>1, <1>2, <1>3, <1>4 DEF IInv

-----------------------------------------------------------------------------
(***************************************************************************)
(* What steps have in common.                                              *)
(***************************************************************************)
Finished  == pc' = "idle" /\ cur' = NoName /\ req' = NoNADR
Continued == pc # "idle" /\ pc' # "idle" /\ cur' = cur /\ req'.uid = req.uid
Started   == pc' # "idle" /\ cur' \in Names /\ req'.uid \in UIDs /\ req'.uid = cache[cur'].uid

\* No NADR is created, and what is copied is older or the same.
Steady ==
  /\ \A n \in Names : nadr'[n].uid \in {nadr[n].uid, NoUID}
  /\ \A n \in Names : cache'[n].uid \in {cache[n].uid, nadr'[n].uid}
  /\ Finished \/ Continued \/ Started

VDRsSame == \A v \in VDRs : vdr'[v].uid = vdr[v].uid /\ vdr'[v].name = vdr[v].name

\* No NADR gets another URL, and a VDR whose URL it shows stays what it is.
URLsKept ==
  /\ \A n \in Names : \/ nadr'[n].url = NoVDR
                      \/ nadr'[n].url = nadr[n].url /\ nadr'[n].uid = nadr[n].uid
  /\ \A v \in VDRs : Provided(v) => /\ Provided(v)' /\ vdr'[v].uid = vdr[v].uid
                                    /\ vdr'[v].name = vdr[v].name
  /\ late \subseteq late'

\* The worker does not come to the patch of the URL.
NotToPatch == pc' = "patchURL" => pc = "patchURL" /\ UNCHANGED <<cur, req>>

LEMMA SteadyUIDs == ASSUME IInv, Steady, VDRsSame PROVE UIDsOK'
<1>1. ASSUME NEW n \in Names, NEW uid \in UIDs, Bears(n, uid)' PROVE Bears(n, uid)
  <2>1. uid # NoUID /\ NoName \notin Names /\ n # NoName
    BY NoneAssumption
  <2>2. CASE nadr'[n].uid = uid \/ cache'[n].uid = uid
    BY <2>1, <2>2 DEF Steady, Bears
  <2>3. CASE cur' = n /\ req'.uid = uid
    BY <2>1, <2>3 DEF Steady, Bears, Finished, Continued, Started
  <2>4. CASE \E v \in VDRs : vdr'[v].name = n /\ vdr'[v].uid = uid
    BY <2>4 DEF Bears, VDRsSame
  <2>5. QED
    BY <1>1, <2>2, <2>3, <2>4 DEF Bears
<1>2. QED
  BY <1>1 DEF IInv, UIDsOK

LEMMA SteadyCopies == ASSUME IInv, Steady, VDRsSame PROVE CopiesOK'
<1>1. ASSUME NEW n \in Names PROVE Known(n)'
  <2> SUFFICES ASSUME NEW v \in VDRs, nadr'[n].uid # NoUID, vdr'[v].uid = nadr'[n].uid
               PROVE  cache'[n].uid = nadr'[n].uid /\ (cur' = n => req'.uid = nadr'[n].uid)
    BY DEF Known
  <2>1. nadr'[n].uid = nadr[n].uid /\ vdr[v].uid = nadr[n].uid
    BY DEF Steady, VDRsSame
  <2>2. cache[n].uid = nadr[n].uid /\ (cur = n => req.uid = nadr[n].uid)
    BY <2>1 DEF IInv, CopiesOK, Known
  <2>3. cache'[n].uid = nadr'[n].uid
    BY <2>1, <2>2 DEF Steady
  <2>4. cur' = n => req'.uid = nadr'[n].uid
    BY <2>1, <2>2, NoneAssumption DEF Steady, Finished, Continued, Started
  <2>5. QED
    BY <2>3, <2>4
<1>2. ASSUME pc' # "idle", req'.uid = nadr'[cur'].uid PROVE cache'[cur'].uid = req'.uid
  <2>1. CASE Continued
    <3>1. cur \in Names /\ req.uid \in UIDs /\ cur' = cur /\ req'.uid = req.uid
      BY <2>1 DEF Continued, IInv, WorkerOK
    <3>2. nadr'[cur].uid = nadr[cur].uid
      BY <1>2, <3>1, NoneAssumption DEF Steady
    <3>3. cache[cur].uid = req.uid
      BY <1>2, <2>1, <3>1, <3>2 DEF IInv, CopiesOK, Continued
    <3>4. QED
      BY <1>2, <3>1, <3>3 DEF Steady
  <2>2. CASE Started
    BY <1>2, <2>2 DEF Steady, Started
  <2>3. QED
    BY <1>2, <2>1, <2>2 DEF Steady, Finished
<1>3. QED
  BY <1>1, <1>2 DEF CopiesOK

LEMMA SteadyWorker ==
  ASSUME IInv, Steady
  PROVE  (IF pc = "idle" THEN cur = NoName /\ req = NoNADR ELSE cur \in Names /\ req.uid \in UIDs)'
BY DEF Steady, Finished, Continued, Started, IInv, WorkerOK

LEMMA KeptOwnURL == ASSUME IInv, URLsKept PROVE OwnURL'
<1>1. \A n \in Names : nadr[n].url \in VDRs \union {NoVDR}
  BY DEF IInv, TypeOK, NADRs
<1>2. QED
  BY <1>1 DEF IInv, OwnURL, URLsKept, Provided

LEMMA KeptPatch ==
  ASSUME IInv, URLsKept, NotToPatch, pc' = "patchURL"
  PROVE  (/\ req.url \in VDRs /\ vdr[req.url].name = cur /\ Provided(req.url)
          /\ \A v \in VDRs : Shows(cur, v) => v = req.url)'
<1>1. pc = "patchURL" /\ cur' = cur /\ req' = req /\ cur \in Names /\ req.url \in VDRs
      /\ vdr[req.url].name = cur /\ Provided(req.url)
  BY DEF NotToPatch, IInv, WorkerOK
<1>2. ASSUME NEW v \in VDRs, Shows(cur, v)' PROVE v = req'.url
  <2>1. nadr'[cur].url = v /\ vdr'[v].uid = nadr'[cur].uid /\ v \notin late'
    BY <1>1, <1>2 DEF Shows
  <2>2. nadr[cur].url = v /\ nadr'[cur].uid = nadr[cur].uid
    BY <1>1, <2>1, NoneAssumption DEF URLsKept
  <2>3. Provided(v)
    BY <1>1, <2>2, NoneAssumption DEF IInv, OwnURL
  <2>4. Shows(cur, v)
    BY <2>1, <2>2, <2>3 DEF Shows, URLsKept
  <2>5. QED
    BY <1>1, <2>4 DEF IInv, WorkerOK
<1>3. vdr'[req.url].name = cur /\ Provided(req.url)'
  BY <1>1 DEF URLsKept
<1>4. QED
  BY <1>1, <1>2, <1>3 DEF Provided

\* A step that touches neither the VDRs nor, to set it, a URL.
LEMMA SteadyOK ==
  ASSUME IInv, TypeOK', Steady, URLsKept, NotToPatch, UNCHANGED velero
  PROVE  IInv'
<1>1. VDRsSame /\ vdr' = vdr /\ vdrSeen' = vdrSeen /\ late' = late
  BY DEF VDRsSame, velero
<1>2. VDRsOK'
  BY <1>1 DEF IInv, VDRsOK, VDROK, Provided
<1>3. WorkerOK'
  BY SteadyWorker, KeptPatch DEF WorkerOK
<1>4. QED
  BY <1>1, <1>2, <1>3, SteadyUIDs, SteadyCopies, KeptOwnURL DEF IInv

-----------------------------------------------------------------------------
(***************************************************************************)
(* The types.                                                              *)
(***************************************************************************)
LEMMA RequestFields ==
  ASSUME IInv
  PROVE  /\ req \in NADRs /\ cur \in Names \union {NoName}
         /\ pc # "idle" => cur \in Names /\ nadr[cur] \in NADRs
         /\ \A n \in Names : nadr[n] \in NADRs /\ cache[n] \in NADRs
BY DEF IInv, TypeOK, WorkerOK

LEMMA PatchedType ==
  ASSUME NEW obj \in NADRs, NEW url \in VDRs \union {NoVDR},
         NEW phase \in {"unset", "BackingOff", "Created"}, NEW condition \in Conditions
  PROVE  /\ Patched(obj, url, phase, condition) \in NADRs
         /\ Patched(obj, url, phase, condition).url = url
         /\ Patched(obj, url, phase, condition).uid = obj.uid
BY DEF Patched, NADRs

\* A patch of the NADR being worked on keeps its UID.
LEMMA PatchType ==
  ASSUME IInv, pc # "idle", NEW url \in VDRs \union {NoVDR},
         NEW phase \in {"unset", "BackingOff", "Created"}, NEW condition \in Conditions,
         Patch(url, phase, condition)
  PROVE  /\ nadr' \in [Names -> NADRs] /\ \A n \in Names : nadr'[n].uid = nadr[n].uid
         /\ nadr'[cur].url = url /\ \A n \in Names : n # cur => nadr'[n] = nadr[n]
<1>1. cur \in Names /\ nadr \in [Names -> NADRs] /\ nadr[cur] \in NADRs
  BY RequestFields DEF IInv, TypeOK
<1>2. PICK obj \in NADRs : obj = nadr[cur]
  BY <1>1
<1>3. /\ Patched(obj, url, phase, condition) \in NADRs
      /\ Patched(obj, url, phase, condition).url = url
      /\ Patched(obj, url, phase, condition).uid = obj.uid
  BY PatchedType
<1>4. nadr' = [nadr EXCEPT ![cur] = Patched(obj, url, phase, condition)]
  BY <1>2 DEF Patch
<1>5. QED
  BY <1>1, <1>2, <1>3, <1>4

\* Backing off sets phase and condition, if there is still such a NADR.
LEMMA BackOffType ==
  ASSUME IInv, pc # "idle", NEW condition \in Conditions, BackOff(condition)
  PROVE  /\ nadr' \in [Names -> NADRs]
         /\ \A n \in Names : nadr'[n].uid = nadr[n].uid /\ nadr'[n].url = nadr[n].url
<1>1. CASE UNCHANGED nadr
  BY <1>1 DEF IInv, TypeOK
<1>2. CASE Patch(nadr[cur].url, "BackingOff", condition)
  <2>1. nadr[cur].url \in VDRs \union {NoVDR}
    BY RequestFields DEF NADRs
  <2>2. QED
    BY <1>2, <2>1, PatchType
<1>3. QED
  BY <1>1, <1>2 DEF BackOff

WorkerType ==
  /\ queue \subseteq Names
  /\ pc \in {"idle", "check", "delete", "schedule", "get", "patchURL", "patchPhase",
             "getRestore", "getBackup", "create"}
  /\ cur \in Names \union {NoName} /\ req \in NADRs /\ target \in Kinds \union {"none"}

\* However a step of the worker ends, it moves the queue and the worker only.
LEMMA EndType ==
  ASSUME IInv, pc # "idle", Exit \/ Requeue
  PROVE  WorkerType' /\ Finished
<1>1. CASE Exit
  BY <1>1, NoneFacts DEF Exit, Return, WorkerType, Finished, IInv, TypeOK
<1>2. CASE Requeue
  BY <1>2, NoneFacts, RequestFields DEF Requeue, Return, WorkerType, Finished, IInv, TypeOK
<1>3. QED
  BY <1>1, <1>2

LEMMA EndCallType ==
  ASSUME IInv, pc # "idle", ExitAfterCall \/ RequeueAfterCall \/ ExitIfStored
  PROVE  WorkerType' /\ Finished /\ faults' \in Nat
<1>1. Exit \/ Requeue
  BY DEF ExitAfterCall, RequeueAfterCall, ExitIfStored
<1>2. faults' \in Nat
  BY DEF ExitAfterCall, RequeueAfterCall, ExitIfStored, IInv, TypeOK
<1>3. QED
  BY <1>1, <1>2, EndType

LEMMA GotoType ==
  ASSUME IInv, pc # "idle", NEW step \in {"check", "delete", "schedule", "get", "patchURL",
           "patchPhase", "getRestore", "getBackup", "create"}, Goto(step)
  PROVE  WorkerType' /\ Continued /\ UNCHANGED <<cur, req>>
BY DEF Goto, WorkerType, Continued, IInv, TypeOK

LEMMA AimType ==
  ASSUME IInv, pc # "idle", NEW step \in {"getBackup", "create"},
         NEW object \in Kinds \union {"none"}, Aim(step, object)
  PROVE  WorkerType' /\ Continued
BY DEF Aim, WorkerType, Continued, IInv, TypeOK

-----------------------------------------------------------------------------
(***************************************************************************)
(* The worker.                                                             *)
(***************************************************************************)
\* What a step does to a NADR that it does not create.
Faded(n) == \/ nadr'[n].uid = nadr[n].uid /\ nadr'[n].url = nadr[n].url
            \/ nadr'[n].uid = NoUID /\ nadr'[n].url = NoVDR

LEMMA WorkerStepOK ==
  ASSUME IInv, WorkerType', Finished \/ Continued, NotToPatch,
         nadr' \in [Names -> NADRs], \A n \in Names : Faded(n),
         created' \in [Names -> BOOLEAN], timers' \subseteq Names, gaveUp' \subseteq Names, faults' \in Nat,
         UNCHANGED <<cache, world, velero>>
  PROVE  IInv'
<1>1. TypeOK'
  BY DEF IInv, TypeOK, WorkerType, world, velero
<1>2. Steady
  BY DEF Steady, Faded
<1>3. URLsKept
  BY DEF URLsKept, Faded, Provided, velero
<1>4. QED
  BY <1>1, <1>2, <1>3, SteadyOK DEF velero

\* A step of the worker that writes nothing.
LEMMA ReadStepOK ==
  ASSUME IInv, WorkerType', Finished \/ Continued, NotToPatch, timers' \subseteq Names, gaveUp' \subseteq Names, faults' \in Nat,
         UNCHANGED <<nadr, cache, created, world, velero>>
  PROVE  IInv'
<1>1. nadr' \in [Names -> NADRs] /\ (\A n \in Names : Faded(n)) /\ created' \in [Names -> BOOLEAN]
  BY DEF IInv, TypeOK, Faded
<1>2. QED
  BY <1>1, WorkerStepOK

LEMMA ReconcileOK == ASSUME IInv, NEW n \in Names, Reconcile(n) PROVE IInv'
<1>1. pc = "idle" /\ queue' \subseteq Names /\ cache[n] \in NADRs
      /\ UNCHANGED <<nadr, cache, created, world, velero, timers, faults>>
  BY DEF Reconcile, IInv, TypeOK
<1>2. TypeOK'
  BY <1>1 DEF Reconcile, worker, IInv, TypeOK, world, velero
<1>3. Finished \/ Started
  <2>1. CASE cache[n].uid = NoUID
    BY <1>1, <2>1 DEF Reconcile, worker, Finished, IInv, WorkerOK
  <2>2. CASE cache[n].uid # NoUID
    BY <1>1, <2>2 DEF Reconcile, Started, NADRs
  <2>3. QED
    BY <2>1, <2>2
<1>4. NotToPatch
  BY DEF Reconcile, worker, NotToPatch
<1>5. Steady /\ URLsKept
  BY <1>1, <1>3 DEF Steady, URLsKept, Provided, velero
<1>6. QED
  BY <1>1, <1>2, <1>4, <1>5, SteadyOK DEF velero

LEMMA CheckOK == ASSUME IInv, Check PROVE IInv'
<1>1. PICK step \in {"get", "delete", "schedule"} : Goto(step)
  BY DEF Check
<1>2. WorkerType' /\ Continued
  BY <1>1, GotoType DEF Check
<1>3. NotToPatch
  BY <1>1 DEF Goto, NotToPatch
<1>4. timers' \subseteq Names /\ gaveUp' \subseteq Names /\ faults' \in Nat
  BY DEF Check, IInv, TypeOK
<1>5. QED
  BY <1>2, <1>3, <1>4, ReadStepOK DEF Check

LEMMA DeleteOK == ASSUME IInv, Delete PROVE IInv'
<1>1. WorkerType' /\ Finished /\ faults' \in Nat
  BY EndCallType DEF Delete
<1>2. nadr' \in [Names -> NADRs] /\ (\A n \in Names : Faded(n))
  BY RequestFields, NoneFacts DEF Delete, IInv, TypeOK, Faded
<1>3. created' \in [Names -> BOOLEAN] /\ timers' \subseteq Names /\ gaveUp' \subseteq Names
  BY RequestFields DEF Delete, IInv, TypeOK
<1>4. NotToPatch
  BY <1>1 DEF Finished, NotToPatch
<1>5. QED
  BY <1>1, <1>2, <1>3, <1>4, WorkerStepOK DEF Delete

LEMMA ScheduleOK == ASSUME IInv, Schedule PROVE IInv'
<1>1. WorkerType' /\ Finished
  BY EndType DEF Schedule
<1>2. timers' \subseteq Names /\ gaveUp' \subseteq Names /\ faults' \in Nat
  BY RequestFields DEF Schedule, IInv, TypeOK
<1>3. NotToPatch
  BY <1>1 DEF Finished, NotToPatch
<1>4. QED
  BY <1>1, <1>2, <1>3, ReadStepOK DEF Schedule

LEMMA CallFailsOK == ASSUME IInv, CallFails PROVE IInv'
<1>1. WorkerType' /\ Finished
  BY EndType DEF CallFails
<1>2. timers' \subseteq Names /\ gaveUp' \subseteq Names /\ faults' \in Nat
  BY DEF CallFails, IInv, TypeOK
<1>3. NotToPatch
  BY <1>1 DEF Finished, NotToPatch
<1>4. QED
  BY <1>1, <1>2, <1>3, ReadStepOK DEF CallFails

LEMMA PatchPhaseOK == ASSUME IInv, PatchPhase PROVE IInv'
<1>1. WorkerType' /\ Finished /\ faults' \in Nat
  BY EndCallType DEF PatchPhase
<1>2. nadr' \in [Names -> NADRs] /\ (\A n \in Names : Faded(n))
  <2>1. CASE UNCHANGED nadr
    BY <2>1 DEF IInv, TypeOK, Faded
  <2>2. CASE Patch(nadr[cur].url, "Created", "Processed")
    <3>1. nadr[cur].url \in VDRs \union {NoVDR} /\ "Processed" \in Conditions /\ pc # "idle"
      BY RequestFields DEF NADRs, Conditions, PatchPhase
    <3>2. QED
      BY <2>2, <3>1, PatchType DEF Faded
  <2>3. QED
    BY <2>1, <2>2 DEF PatchPhase
<1>3. created' \in [Names -> BOOLEAN] /\ timers' \subseteq Names /\ gaveUp' \subseteq Names
  BY DEF PatchPhase, IInv, TypeOK
<1>4. NotToPatch
  BY <1>1 DEF Finished, NotToPatch
<1>5. QED
  BY <1>1, <1>2, <1>3, <1>4, WorkerStepOK DEF PatchPhase

\* Whether the step backs off or goes on.
LEMMA BackedOff ==
  ASSUME IInv, pc # "idle",
         UNCHANGED nadr \/ \E condition \in Conditions : BackOff(condition)
  PROVE  nadr' \in [Names -> NADRs] /\ \A n \in Names : Faded(n)
<1>1. CASE UNCHANGED nadr
  BY <1>1 DEF IInv, TypeOK, Faded
<1>2. ASSUME NEW condition \in Conditions, BackOff(condition)
      PROVE  nadr' \in [Names -> NADRs] /\ \A n \in Names : Faded(n)
  BY <1>2, BackOffType DEF Faded
<1>3. QED
  BY <1>1, <1>2

LEMMA GetRestoreOK == ASSUME IInv, GetRestore PROVE IInv'
<1>1. nadr' \in [Names -> NADRs] /\ \A n \in Names : Faded(n)
  BY BackedOff DEF GetRestore, Conditions
<1>2. WorkerType' /\ (Finished \/ Continued) /\ NotToPatch
  <2>1. CASE nar = "absent"
    BY <2>1, EndType DEF GetRestore, NotToPatch, Finished
  <2>2. CASE nar # "absent"
    <3>1. PICK object \in Kinds \union {"none"} : Aim("getBackup", object)
      BY <2>2 DEF GetRestore, Kinds
    <3>2. QED
      BY <3>1, AimType DEF GetRestore, NotToPatch, Aim
  <2>3. QED
    BY <2>1, <2>2
<1>3. created' \in [Names -> BOOLEAN] /\ timers' \subseteq Names /\ gaveUp' \subseteq Names /\ faults' \in Nat
  BY DEF GetRestore, IInv, TypeOK
<1>4. QED
  BY <1>1, <1>2, <1>3, WorkerStepOK DEF GetRestore

LEMMA GetBackupOK == ASSUME IInv, GetBackup PROVE IInv'
<1>1. nadr' \in [Names -> NADRs] /\ \A n \in Names : Faded(n)
  BY BackedOff DEF GetBackup, GiveUp, Conditions
<1>2. WorkerType' /\ (Finished \/ Continued) /\ NotToPatch /\ faults' \in Nat
  <2>1. CASE RequeueAfterCall \/ ExitIfStored \/ (Exit /\ faults' = faults + 1)
    <3>1. WorkerType' /\ Finished /\ faults' \in Nat
      BY <2>1, EndCallType, EndType DEF GetBackup, IInv, TypeOK
    <3>2. QED
      BY <3>1 DEF NotToPatch, Finished
  <2>2. CASE Aim("create", BackupUnlessSet) /\ UNCHANGED faults
    <3>1. PICK object \in Kinds \union {"none"} : Aim("create", object)
      BY <2>2 DEF Kinds, BackupUnlessSet, IInv, TypeOK
    <3>2. QED
      BY <2>2, <3>1, AimType DEF GetBackup, NotToPatch, Aim, IInv, TypeOK
  <2>3. QED
    BY <2>1, <2>2 DEF GetBackup, GiveUp
<1>3. created' \in [Names -> BOOLEAN] /\ timers' \subseteq Names /\ gaveUp' \subseteq Names
  BY RequestFields DEF GetBackup, GiveUp, IInv, TypeOK
<1>4. QED
  BY <1>1, <1>2, <1>3, WorkerStepOK DEF GetBackup

\* The VDR found for the worker's copy is one made for the NADR it works on, and
\* if the stored NADR shows a good URL of its own, that VDR is the one.
LEMMA FoundIsOwn ==
  ASSUME IInv, pc # "idle", NEW w \in Found
  PROVE  /\ w \in VDRs /\ vdr[w].name = cur /\ vdr[w].uid = req.uid
         /\ vdrSeen[w].state = "Processed" => Provided(w)
         /\ vdrSeen[w].state = "Processed" /\ w \notin late
              => \A v \in VDRs : Shows(cur, v) => v = w
<1>1. w \in VDRs /\ vdrSeen[w].uid = req.uid /\ vdrSeen[w].state # "unused"
  BY DEF Found, Live
<1>2. cur \in Names /\ req.uid \in UIDs /\ VDROK(w)
  BY <1>1 DEF IInv, WorkerOK, VDRsOK
<1>3. vdr[w].uid = req.uid /\ vdr[w].name \in Names
  BY <1>1, <1>2 DEF VDROK
<1>4. vdr[w].name = cur
  <2>1. Bears(vdr[w].name, req.uid) /\ Bears(cur, req.uid)
    BY <1>1, <1>3 DEF Bears
  <2>2. QED
    BY <1>2, <1>3, <2>1 DEF IInv, UIDsOK
<1>5. vdrSeen[w].state = "Processed" => Provided(w)
  BY <1>2 DEF VDROK
<1>6. ASSUME vdrSeen[w].state = "Processed", w \notin late, NEW v \in VDRs, Shows(cur, v)
      PROVE  v = w
  <2>1. Live(vdr[w])
    BY <1>2, <1>5, <1>6 DEF Provided, VDROK, Live
  <2>2. Provided(v) /\ v \notin late /\ vdr[v].uid = nadr[cur].uid
    BY <1>2, <1>6, NoneAssumption DEF Shows, IInv, OwnURL
  <2>3. VDROK(v)
    BY DEF IInv, VDRsOK
  <2>4. Live(vdr[v]) /\ vdr[v].uid \in UIDs
    BY <2>2, <2>3 DEF Provided, VDROK, Live
  <2>5. Known(cur) /\ nadr[cur].uid # NoUID
    BY <1>2, <2>2, <2>4, NoneAssumption DEF IInv, CopiesOK
  <2>6. req.uid = nadr[cur].uid
    BY <2>2, <2>5 DEF Known
  <2>7. QED
    BY <1>1, <1>3, <2>1, <2>2, <2>4, <2>6 DEF IInv, VDRsOK
<1>7. QED
  BY <1>1, <1>3, <1>4, <1>5, <1>6

LEMMA GetVDROK == ASSUME IInv, GetVDR PROVE IInv'
<1>1. timers' \subseteq Names /\ gaveUp' \subseteq Names /\ faults' \in Nat /\ pc = "get"
      /\ UNCHANGED <<nadr, cache, created, world, velero>>
  BY DEF GetVDR, IInv, TypeOK
<1>2. CASE Goto(IF req.kind = "restore" THEN "getRestore" ELSE "getBackup") \/ Exit
  <2>1. PICK step \in {"getRestore", "getBackup"} : Goto(step) \/ Exit
    BY <1>2
  <2>2. WorkerType' /\ (Finished \/ Continued)
    BY <1>1, <2>1, GotoType, EndType
  <2>3. NotToPatch
    BY <2>1 DEF Goto, Exit, Return, NotToPatch
  <2>4. QED
    BY <1>1, <2>2, <2>3, ReadStepOK
<1>3. ASSUME NEW v \in Found, vdrSeen[v].state = "Processed", v \notin late,
             pc' = "patchURL", req' = [req EXCEPT !.url = v], UNCHANGED <<cur, target, queue>>
      PROVE  IInv'
  <2>1. /\ v \in VDRs /\ vdr[v].name = cur /\ Provided(v)
        /\ \A w \in VDRs : Shows(cur, w) => w = v
    BY <1>1, <1>3, FoundIsOwn
  <2>2. req' \in NADRs /\ req'.url = v /\ req'.uid = req.uid
    BY <1>3, <2>1, RequestFields DEF NADRs
  <2>3. TypeOK'
    BY <1>1, <1>3, <2>2 DEF IInv, TypeOK, world, velero
  <2>4. Steady
    BY <1>1, <1>3, <2>2 DEF Steady, Continued
  <2>5. VDRsSame /\ URLsKept
    BY <1>1 DEF VDRsSame, URLsKept, Provided, velero
  <2>6. VDRsOK'
    BY <1>1 DEF IInv, VDRsOK, VDROK, Provided, velero
  <2>7. (/\ req.url \in VDRs /\ vdr[req.url].name = cur /\ Provided(req.url)
         /\ \A w \in VDRs : Shows(cur, w) => w = req.url)'
    BY <1>1, <1>3, <2>1, <2>2 DEF Provided, Shows, velero
  <2>8. WorkerOK'
    BY <2>4, <2>7, SteadyWorker DEF WorkerOK
  <2>9. QED
    BY <2>3, <2>4, <2>5, <2>6, <2>8, SteadyUIDs, SteadyCopies, KeptOwnURL DEF IInv
<1>4. QED
  BY <1>2, <1>3 DEF GetVDR

\* The step that gives the NADR a URL, by whatever copy the worker has.
LEMMA PatchURLOK == ASSUME IInv, PatchURL PROVE IInv'
<1>1. timers' \subseteq Names /\ gaveUp' \subseteq Names /\ faults' \in Nat /\ created' \in [Names -> BOOLEAN] /\ pc = "patchURL"
      /\ UNCHANGED <<cache, created, world, velero>>
  BY DEF PatchURL, IInv, TypeOK
<1>2. CASE Requeue /\ UNCHANGED nadr
  <2>1. WorkerType' /\ Finished
    BY <1>1, <1>2, EndType
  <2>2. NotToPatch
    BY <2>1 DEF Finished, NotToPatch
  <2>3. QED
    BY <1>1, <1>2, <2>1, <2>2, ReadStepOK
<1>3. CASE Patch(req.url, nadr[cur].phase, nadr[cur].condition) /\ Goto("patchPhase")
  <2>1. WorkerType' /\ Continued /\ UNCHANGED <<cur, req>> /\ pc' = "patchPhase"
    BY <1>1, <1>3, GotoType DEF Goto
  <2>2. cur \in Names /\ req.url \in VDRs /\ vdr[req.url].name = cur /\ Provided(req.url)
    BY <1>1 DEF IInv, WorkerOK
  <2>3. /\ nadr' \in [Names -> NADRs] /\ \A n \in Names : nadr'[n].uid = nadr[n].uid
        /\ nadr'[cur].url = req.url /\ \A n \in Names : n # cur => nadr'[n] = nadr[n]
    BY <1>1, <1>3, <2>2, RequestFields, PatchType DEF NADRs
  <2>4. TypeOK'
    BY <1>1, <2>1, <2>3 DEF IInv, TypeOK, WorkerType, world, velero
  <2>5. Steady /\ VDRsSame
    BY <1>1, <2>1, <2>3 DEF Steady, VDRsSame, velero
  <2>6. VDRsOK'
    BY <1>1 DEF IInv, VDRsOK, VDROK, Provided, velero
  <2>7. WorkerOK'
    BY <2>1, <2>5, SteadyWorker DEF WorkerOK
  <2>8. OwnURL'
    BY <1>1, <2>2, <2>3 DEF IInv, OwnURL, Provided, velero
  <2>9. QED
    BY <2>4, <2>5, <2>6, <2>7, <2>8, SteadyUIDs, SteadyCopies DEF IInv
<1>4. QED
  BY <1>2, <1>3 DEF PatchURL

-----------------------------------------------------------------------------
(***************************************************************************)
(* The creation of a VDR.                                                  *)
(***************************************************************************)
LEMMA CreateVDROK == ASSUME IInv, CreateVDR PROVE IInv'
<1>1. /\ pc = "create" /\ timers' \subseteq Names /\ gaveUp' \subseteq Names
      /\ UNCHANGED <<nadr, cache, created, world, vdrSeen, late>>
  BY DEF CreateVDR, IInv, TypeOK
<1>2. CASE RequeueAfterCall /\ UNCHANGED vdr
  <2>1. WorkerType' /\ Finished /\ faults' \in Nat
    BY <1>1, <1>2, EndCallType
  <2>2. NotToPatch
    BY <2>1 DEF Finished, NotToPatch
  <2>3. QED
    BY <1>1, <1>2, <2>1, <2>2, ReadStepOK DEF velero
<1>3. ASSUME ~Spent, ~\E v \in VDRs : Live(vdr[v]) /\ vdr[v].uid = req.uid, ExitAfterCall,
             vdr' = [vdr EXCEPT ![NextVDR] = [state |-> "New", uid |-> req.uid, name |-> cur,
                                              kind |-> req.kind, target |-> target]]
      PROVE  IInv'
  <2>1. WorkerType' /\ Finished /\ faults' \in Nat
    BY <1>1, <1>3, EndCallType
  <2>2. PICK x \in VDRs : x = NextVDR /\ vdr[x].state = "unused"
    BY <1>3 DEF Spent, NextVDR
  <2>3. cur \in Names /\ req.uid \in UIDs /\ req \in NADRs
    BY <1>1, RequestFields DEF IInv, WorkerOK
  <2>4. vdr[x] \in VDRObjects /\ vdr \in [VDRs -> VDRObjects]
    BY DEF IInv, TypeOK
  <2>5. /\ vdr' \in [VDRs -> VDRObjects] /\ \A v \in VDRs : v # x => vdr'[v] = vdr[v]
        /\ vdr'[x].state = "New" /\ vdr'[x].uid = req.uid /\ vdr'[x].name = cur
    BY <1>3, <2>2, <2>3, <2>4 DEF VDRObjects, NADRs, IInv, TypeOK
  <2>6. ~Provided(x) /\ ~Live(vdr[x]) /\ vdrSeen[x].state = "unused"
    <3>1. VDROK(x)
      BY DEF IInv, VDRsOK
    <3>2. QED
      BY <2>2, <3>1 DEF Provided, Live, VDROK
  <2>7. TypeOK'
    BY <1>1, <2>1, <2>5 DEF IInv, TypeOK, WorkerType, world
  <2>8. UIDsOK'
    <3>1. ASSUME NEW n \in Names, NEW uid \in UIDs, Bears(n, uid)' PROVE Bears(n, uid)
      BY <1>1, <2>1, <2>5, <3>1, NoneAssumption DEF Bears, Finished
    <3>2. QED
      BY <3>1 DEF IInv, UIDsOK
  <2>9. VDRsOK'
    <3>1. ASSUME NEW v \in VDRs PROVE VDROK(v)'
      <4>1. VDROK(v)
        BY DEF IInv, VDRsOK
      <4>2. CASE v = x
        BY <1>1, <2>3, <2>5, <2>6, <4>1, <4>2 DEF VDROK, Provided
      <4>3. CASE v # x
        BY <1>1, <2>5, <4>1, <4>3 DEF VDROK, Provided
      <4>4. QED
        BY <4>2, <4>3
    <3>2. ASSUME NEW v \in VDRs, NEW w \in VDRs, Live(vdr'[v]), Live(vdr'[w]),
                 vdr'[v].uid = vdr'[w].uid
          PROVE  v = w
      BY <1>3, <2>5, <3>2 DEF IInv, VDRsOK
    <3>3. QED
      BY <3>1, <3>2 DEF VDRsOK
  <2>10. CopiesOK'
    <3>1. ASSUME NEW n \in Names PROVE Known(n)'
      <4> SUFFICES ASSUME NEW v \in VDRs, nadr[n].uid # NoUID, vdr'[v].uid = nadr[n].uid
                   PROVE  cache[n].uid = nadr[n].uid
        BY <1>1, <2>1, NoneAssumption DEF Known, Finished
      <4>1. CASE v # x
        BY <2>5, <4>1 DEF IInv, CopiesOK, Known
      <4>2. CASE v = x
        <5>1. req.uid = nadr[n].uid
          BY <2>5, <4>2
        <5>2. n = cur
          BY <2>3, <5>1 DEF IInv, UIDsOK, Bears
        <5>3. QED
          BY <1>1, <5>1, <5>2 DEF IInv, CopiesOK
      <4>3. QED
        BY <4>1, <4>2
    <3>2. QED
      BY <2>1, <3>1 DEF CopiesOK, Finished
  <2>11. WorkerOK'
    BY <2>1 DEF WorkerOK, Finished
  <2>12. OwnURL'
    <3>1. URLsKept
      BY <1>1, <2>5, <2>6 DEF URLsKept, Provided
    <3>2. QED
      BY <3>1, KeptOwnURL
  <2>13. QED
    BY <2>7, <2>8, <2>9, <2>10, <2>11, <2>12 DEF IInv
<1>4. QED
  BY <1>2, <1>3 DEF CreateVDR

-----------------------------------------------------------------------------
(***************************************************************************)
(* Informers, users, the other controllers, Velero and time.               *)
(***************************************************************************)
LEMMA WorkerStays == ASSUME IInv, UNCHANGED worker PROVE (Finished \/ Continued) /\ NotToPatch
BY DEF worker, Finished, Continued, NotToPatch, IInv, WorkerOK

\* What others do to NADRs, short of creating one.
LEMMA OtherStepOK ==
  ASSUME IInv, UNCHANGED worker, nadr' \in [Names -> NADRs], \A n \in Names : Faded(n),
         cache' \in [Names -> NADRs], \A n \in Names : cache'[n].uid \in {cache[n].uid, nadr'[n].uid},
         created' \in [Names -> BOOLEAN], queue' \subseteq Names, timers' \subseteq Names,
         nab' \in BackupStates, nar' \in RestoreStates, changes' \in Nat,
         UNCHANGED <<velero, gaveUp, faults>>
  PROVE  IInv'
<1>1. TypeOK'
  BY DEF IInv, TypeOK, worker, velero
<1>2. Steady
  BY WorkerStays DEF Steady, Faded
<1>3. URLsKept
  BY DEF URLsKept, Faded, Provided, velero
<1>4. QED
  BY <1>1, <1>2, <1>3, WorkerStays, SteadyOK DEF velero

LEMMA NADRsUnchanged ==
  ASSUME IInv
  PROVE  /\ UNCHANGED nadr => nadr' \in [Names -> NADRs] /\ \A n \in Names : Faded(n)
         /\ UNCHANGED cache => /\ cache' \in [Names -> NADRs]
                               /\ \A n \in Names : cache'[n].uid \in {cache[n].uid, nadr'[n].uid}
         /\ UNCHANGED world => nab' \in BackupStates /\ nar' \in RestoreStates /\ changes' \in Nat
BY DEF IInv, TypeOK, Faded, world

LEMMA DeliverNADROK == ASSUME IInv, NEW n \in Names, DeliverNADR(n) PROVE IInv'
<1>1. /\ cache' \in [Names -> NADRs] /\ created' \in [Names -> BOOLEAN]
      /\ queue' \subseteq Names /\ timers' \subseteq Names
      /\ \A m \in Names : cache'[m].uid \in {cache[m].uid, nadr'[m].uid}
  BY DEF DeliverNADR, IInv, TypeOK
<1>2. QED
  BY <1>1, NADRsUnchanged, OtherStepOK DEF DeliverNADR

LEMMA TimerFiresOK == ASSUME IInv, NEW n \in Names, TimerFires(n) PROVE IInv'
<1>1. created' \in [Names -> BOOLEAN] /\ queue' \subseteq Names /\ timers' \subseteq Names
  BY DEF TimerFires, IInv, TypeOK
<1>2. QED
  BY <1>1, NADRsUnchanged, OtherStepOK DEF TimerFires

LEMMA DeleteNADROK == ASSUME IInv, NEW n \in Names, DeleteNADR(n) PROVE IInv'
<1>1. nadr' \in [Names -> NADRs] /\ \A m \in Names : Faded(m)
  BY NoneFacts DEF DeleteNADR, IInv, TypeOK, Faded
<1>2. /\ created' \in [Names -> BOOLEAN] /\ queue' \subseteq Names /\ timers' \subseteq Names
      /\ nab' \in BackupStates /\ nar' \in RestoreStates /\ changes' \in Nat
  BY DEF DeleteNADR, IInv, TypeOK
<1>3. QED
  BY <1>1, <1>2, NADRsUnchanged, OtherStepOK DEF DeleteNADR

LEMMA EditNADROK == ASSUME IInv, NEW n \in Names, EditNADR(n) PROVE IInv'
<1>1. nadr \in [Names -> NADRs] /\ nadr[n] \in NADRs
  BY DEF IInv, TypeOK
<1>2. PICK kind \in Kinds : nadr' = [nadr EXCEPT ![n].kind = kind]
  BY <1>1 DEF EditNADR, Kinds
<1>3. nadr' \in [Names -> NADRs] /\ \A m \in Names : Faded(m)
  BY <1>1, <1>2 DEF NADRs, Faded
<1>4. /\ created' \in [Names -> BOOLEAN] /\ queue' \subseteq Names /\ timers' \subseteq Names
      /\ nab' \in BackupStates /\ nar' \in RestoreStates /\ changes' \in Nat
  BY DEF EditNADR, IInv, TypeOK
<1>5. QED
  BY <1>3, <1>4, NADRsUnchanged, OtherStepOK DEF EditNADR

LEMMA WorldChangesOK == ASSUME IInv, BackupChanges \/ RestoreChanges PROVE IInv'
<1>1. /\ created' \in [Names -> BOOLEAN] /\ queue' \subseteq Names /\ timers' \subseteq Names
      /\ nab' \in BackupStates /\ nar' \in RestoreStates /\ changes' \in Nat
  BY DEF BackupChanges, RestoreChanges, BackupStates, RestoreStates, IInv, TypeOK
<1>2. UNCHANGED <<nadr, cache, velero, worker, gaveUp, faults>>
  BY DEF BackupChanges, RestoreChanges
<1>3. QED
  BY <1>1, <1>2, NADRsUnchanged, OtherStepOK

\* A new UID is one that nothing remembers.
LEMMA CreateNADROK == ASSUME IInv, NEW n \in Names, NEW kind \in Kinds, CreateNADR(n, kind) PROVE IInv'
<1>1. PICK uid \in FreeUIDs : nadr' = [nadr EXCEPT ![n] = NewNADR(uid, kind)]
  BY DEF CreateNADR
<1>2. uid \in UIDs /\ uid # NoUID /\ req.uid # uid
      /\ (\A m \in Names : nadr[m].uid # uid /\ cache[m].uid # uid)
      /\ (\A v \in VDRs : vdr[v].uid # uid)
  BY <1>1, NoneAssumption DEF FreeUIDs
<1>3. NewNADR(uid, kind) \in NADRs /\ NewNADR(uid, kind).uid = uid /\ NewNADR(uid, kind).url = NoVDR
  BY <1>2 DEF NewNADR, NADRs, Conditions
<1>4. nadr' \in [Names -> NADRs] /\ nadr'[n].uid = uid /\ nadr'[n].url = NoVDR
      /\ \A m \in Names : m # n => nadr'[m] = nadr[m]
  BY <1>1, <1>3 DEF IInv, TypeOK
<1>5. /\ created' \in [Names -> BOOLEAN] /\ gaveUp' \subseteq Names
      /\ UNCHANGED <<cache, nab, nar, changes, vdr, vdrSeen, late, queue, timers, pc, cur, req, target, faults>>
  BY DEF CreateNADR, IInv, TypeOK, world, velero, worker
<1>6. TypeOK'
  BY <1>4, <1>5 DEF IInv, TypeOK
<1>7. UIDsOK'
  <2>1. ASSUME NEW m \in Names, NEW other \in UIDs, Bears(m, other)'
        PROVE  IF other = uid THEN m = n ELSE Bears(m, other)
    BY <1>2, <1>4, <1>5, <2>1 DEF Bears
  <2>2. QED
    BY <2>1 DEF IInv, UIDsOK
<1>8. VDRsOK'
  BY <1>5 DEF IInv, VDRsOK, VDROK, Provided
<1>9. CopiesOK'
  <2>1. ASSUME NEW m \in Names PROVE Known(m)'
    <3>1. CASE m = n
      BY <1>2, <1>4, <1>5, <3>1 DEF Known
    <3>2. CASE m # n
      BY <1>4, <1>5, <3>2 DEF Known, IInv, CopiesOK
    <3>3. QED
      BY <3>1, <3>2
  <2>2. ASSUME pc # "idle", req.uid = nadr'[cur].uid PROVE cache[cur].uid = req.uid
    BY <1>2, <1>4, <2>2 DEF IInv, CopiesOK, WorkerOK
  <2>3. QED
    BY <1>5, <2>1, <2>2 DEF CopiesOK
<1>10. URLsKept /\ NotToPatch
  <2>1. \A m \in Names : nadr'[m].url = NoVDR \/ (nadr'[m].url = nadr[m].url /\ nadr'[m].uid = nadr[m].uid)
    BY <1>4
  <2>2. QED
    BY <1>5, <2>1 DEF URLsKept, NotToPatch, Provided
<1>11. WorkerOK'
  BY <1>5, <1>10, KeptPatch DEF WorkerOK, IInv
<1>12. QED
  BY <1>6, <1>7, <1>8, <1>9, <1>10, <1>11, KeptOwnURL DEF IInv

LEMMA RestartOK == ASSUME IInv, Restart PROVE IInv'
<1>1. /\ pc' = "idle" /\ cur' = NoName /\ req' = NoNADR /\ target' = "none" /\ queue' \subseteq Names
      /\ cache' = nadr /\ vdrSeen' = vdr /\ timers' = {} /\ created' = [n \in Names |-> FALSE]
      /\ faults' \in Nat /\ UNCHANGED <<nadr, world, vdr, late, gaveUp>>
  BY DEF Restart, Return, IInv, TypeOK
<1>2. TypeOK'
  BY <1>1, NoneFacts DEF IInv, TypeOK, world
<1>3. Steady /\ VDRsSame /\ URLsKept
  BY <1>1 DEF Steady, Finished, VDRsSame, URLsKept, Provided
<1>4. VDRsOK'
  BY <1>1 DEF IInv, VDRsOK, VDROK, Provided
<1>5. WorkerOK'
  BY <1>1 DEF WorkerOK
<1>6. QED
  BY <1>2, <1>3, <1>4, <1>5, SteadyUIDs, SteadyCopies, KeptOwnURL DEF IInv

\* What becomes of VDRs: an answer stays, and what has expired has had one.
LEMMA VeleroStepOK ==
  ASSUME IInv, TypeOK', VDRsOK', VDRsSame, UNCHANGED <<nadr, cache, worker>>,
         \A v \in VDRs : Provided(v) => Provided(v)', late \subseteq late'
  PROVE  IInv'
<1>1. Steady
  BY WorkerStays DEF Steady
<1>2. URLsKept
  BY DEF URLsKept, VDRsSame
<1>3. WorkerOK'
  BY <1>1, <1>2, WorkerStays, SteadyWorker, KeptPatch DEF WorkerOK
<1>4. QED
  BY <1>1, <1>2, <1>3, SteadyUIDs, SteadyCopies, KeptOwnURL DEF IInv

LEMMA DeliverVDROK == ASSUME IInv, NEW v \in VDRs, DeliverVDR(v) PROVE IInv'
<1>1. vdrSeen' = [vdrSeen EXCEPT ![v] = vdr[v]]
      /\ UNCHANGED <<nadr, cache, created, world, vdr, late, timers, worker, gaveUp, faults>>
  BY DEF DeliverVDR
<1>2. VDROK(v)
  BY DEF IInv, VDRsOK
<1>3. queue' \subseteq Names
  BY <1>2 DEF DeliverVDR, VDROK, IInv, TypeOK
<1>4. TypeOK'
  BY <1>1, <1>3 DEF IInv, TypeOK, world, worker
<1>5. VDRsOK'
  BY <1>1 DEF IInv, VDRsOK, VDROK, Provided, TypeOK
<1>6. QED
  BY <1>1, <1>4, <1>5, VeleroStepOK DEF VDRsSame, Provided

\* Velero moves one VDR from one state to the next.
LEMMA StateStepOK ==
  ASSUME IInv, NEW v \in VDRs, NEW state \in {"Processed", "gone"},
         Live(vdr[v]), state = "gone" => v \in late,
         vdr' = [vdr EXCEPT ![v].state = state],
         UNCHANGED <<nadr, cache, created, world, vdrSeen, late, queue, timers, worker, gaveUp, faults>>
  PROVE  IInv'
<1>1. vdr \in [VDRs -> VDRObjects] /\ vdr[v] \in VDRObjects
  BY DEF IInv, TypeOK
<1>2. /\ vdr' \in [VDRs -> VDRObjects] /\ \A w \in VDRs : w # v => vdr'[w] = vdr[w]
      /\ vdr'[v].state = state /\ vdr'[v].uid = vdr[v].uid /\ vdr'[v].name = vdr[v].name
  BY <1>1 DEF VDRObjects
<1>3. TypeOK'
  BY <1>2 DEF IInv, TypeOK, world, worker
<1>4. VDRsSame /\ \A w \in VDRs : Provided(w) => Provided(w)'
  BY <1>2 DEF VDRsSame, Provided
<1>5. VDRsOK'
  <2>1. ASSUME NEW w \in VDRs PROVE VDROK(w)'
    <3>1. VDROK(w)
      BY DEF IInv, VDRsOK
    <3>2. QED
      BY <1>2, <3>1 DEF VDROK, Provided, Live
  <2>2. ASSUME NEW w \in VDRs, NEW x \in VDRs, Live(vdr'[w]), Live(vdr'[x]), vdr'[w].uid = vdr'[x].uid
        PROVE  w = x
    BY <1>2, <2>2 DEF IInv, VDRsOK, Live
  <2>3. QED
    BY <2>1, <2>2 DEF VDRsOK
<1>6. QED
  BY <1>3, <1>4, <1>5, VeleroStepOK

LEMMA VeleroProcessesOK == ASSUME IInv, NEW v \in VDRs, VeleroProcesses(v) PROVE IInv'
BY StateStepOK DEF VeleroProcesses, Live

LEMMA VeleroDeletesOK == ASSUME IInv, NEW v \in VDRs, VeleroDeletes(v) PROVE IInv'
BY StateStepOK DEF VeleroDeletes, Live

LEMMA URLExpiresOK == ASSUME IInv, NEW v \in VDRs, URLExpires(v) PROVE IInv'
<1>1. late' = late \union {v} /\ Provided(v)
      /\ UNCHANGED <<nadr, cache, created, world, vdr, vdrSeen, queue, timers, worker, gaveUp, faults>>
  BY DEF URLExpires, Provided
<1>2. TypeOK'
  BY <1>1 DEF IInv, TypeOK, world, worker
<1>3. VDRsOK'
  BY <1>1 DEF IInv, VDRsOK, VDROK, Provided
<1>4. QED
  BY <1>1, <1>2, <1>3, VeleroStepOK DEF VDRsSame, Provided

-----------------------------------------------------------------------------
LEMMA NextOK == ASSUME IInv, [Next]_vars PROVE IInv'
<1>1. CASE Step
  BY <1>1, CheckOK, DeleteOK, ScheduleOK, GetVDROK, PatchURLOK, PatchPhaseOK, GetRestoreOK,
     GetBackupOK, CreateVDROK DEF Step
<1>2. CASE CallFails \/ Restart
  BY <1>2, CallFailsOK, RestartOK
<1>3. CASE BackupChanges \/ RestoreChanges
  BY <1>3, WorldChangesOK
<1>4. ASSUME NEW n \in Names,
             \/ Reconcile(n) \/ DeliverNADR(n) \/ TimerFires(n) \/ DeleteNADR(n) \/ EditNADR(n)
             \/ \E kind \in Kinds : CreateNADR(n, kind)
      PROVE  IInv'
  BY <1>4, ReconcileOK, DeliverNADROK, TimerFiresOK, DeleteNADROK, EditNADROK, CreateNADROK
<1>5. ASSUME NEW v \in VDRs,
             DeliverVDR(v) \/ VeleroProcesses(v) \/ URLExpires(v) \/ VeleroDeletes(v)
      PROVE  IInv'
  BY <1>5, DeliverVDROK, VeleroProcessesOK, URLExpiresOK, VeleroDeletesOK
<1>6. CASE UNCHANGED vars
  BY <1>6 DEF vars, world, velero, worker, IInv, TypeOK, UIDsOK, Bears, VDRsOK, VDROK, CopiesOK,
              Known, WorkerOK, OwnURL, Provided, Shows, Live
<1>7. QED
  BY <1>1, <1>2, <1>3, <1>4, <1>5, <1>6 DEF Next

LEMMA Invariance == Spec => []IInv
BY InitOK, NextOK, PTL DEF Spec

\* Every variable keeps its type; in particular the handler of VDR events only
\* enqueues names of NADRs.
THEOREM TypeCorrect == Spec => []TypeOK
<1>1. IInv => TypeOK
  BY DEF IInv
<1>2. QED
  BY <1>1, Invariance, PTL

\* No NADR shows the URL of a VDR that was made for a NADR of another name, or
\* that Velero has not answered.
THEOREM URLsAreOwn == Spec => []OwnURL
<1>1. IInv => OwnURL
  BY DEF IInv
<1>2. QED
  BY <1>1, Invariance, PTL

\* Apart from PatchURL, a step that leaves a NADR leaves its URL.
LEMMA OnlyPatchSetsURL ==
  ASSUME IInv, Next, ~PatchURL, NEW n \in Names, nadr[n].uid # NoUID, nadr'[n].uid = nadr[n].uid
  PROVE  nadr'[n].url = nadr[n].url
<1>1. CASE UNCHANGED nadr
  BY <1>1
<1>2. ASSUME Delete \/ \E m \in Names : DeleteNADR(m) PROVE nadr'[n].url = nadr[n].url
  <2>1. PICK m : nadr' = [nadr EXCEPT ![m] = NoNADR]
    BY <1>2 DEF Delete, DeleteNADR
  <2>2. n # m
    BY <2>1, NoneFacts DEF IInv, TypeOK
  <2>3. QED
    BY <2>1, <2>2 DEF IInv, TypeOK
<1>3. ASSUME PatchPhase PROVE nadr'[n].url = nadr[n].url
  <2>1. nadr[cur].url \in VDRs \union {NoVDR} /\ "Processed" \in Conditions /\ pc # "idle"
    BY <1>3, RequestFields DEF NADRs, Conditions, PatchPhase
  <2>2. CASE Patch(nadr[cur].url, "Created", "Processed")
    BY <2>1, <2>2, PatchType
  <2>3. QED
    BY <1>3, <2>2 DEF PatchPhase
<1>4. ASSUME GetRestore \/ GetBackup PROVE nadr'[n].url = nadr[n].url
  <2>1. pc # "idle" /\ (UNCHANGED nadr \/ \E condition \in Conditions : BackOff(condition))
    BY <1>4 DEF GetRestore, GetBackup, GiveUp, Conditions
  <2>2. QED
    BY <2>1, BackOffType
<1>5. ASSUME NEW m \in Names, NEW kind \in Kinds, CreateNADR(m, kind)
      PROVE  nadr'[n].url = nadr[n].url
  BY <1>5 DEF CreateNADR, IInv, TypeOK
<1>6. ASSUME NEW m \in Names, EditNADR(m) PROVE nadr'[n].url = nadr[n].url
  <2>1. nadr \in [Names -> NADRs] /\ nadr[m] \in NADRs
    BY DEF IInv, TypeOK
  <2>2. PICK kind \in Kinds : nadr' = [nadr EXCEPT ![m].kind = kind]
    BY <1>6, <2>1 DEF EditNADR, Kinds
  <2>3. QED
    BY <2>1, <2>2 DEF NADRs
<1>7. ASSUME Check \/ Schedule \/ GetVDR \/ CreateVDR \/ CallFails \/ Restart
             \/ BackupChanges \/ RestoreChanges
      PROVE  UNCHANGED nadr
  BY <1>7 DEF Check, Schedule, GetVDR, CreateVDR, CallFails, Restart, BackupChanges, RestoreChanges
<1>8. ASSUME NEW m \in Names, Reconcile(m) \/ DeliverNADR(m) \/ TimerFires(m) PROVE UNCHANGED nadr
  BY <1>8 DEF Reconcile, DeliverNADR, TimerFires
<1>9. ASSUME NEW v \in VDRs, DeliverVDR(v) \/ VeleroProcesses(v) \/ URLExpires(v) \/ VeleroDeletes(v)
      PROVE  UNCHANGED nadr
  BY <1>9 DEF DeliverVDR, VeleroProcesses, URLExpires, VeleroDeletes
<1>10. QED
  BY <1>1, <1>2, <1>3, <1>4, <1>5, <1>6, <1>7, <1>8, <1>9 DEF Next, Step

\* A good URL that was provided for this incarnation of a NADR is not replaced,
\* although the worker may have found another VDR by an old copy of the NADR.
THEOREM GoodURLsAreKept == Spec => GoodURLKept
<1>1. ASSUME IInv, [Next]_vars, NEW n \in Names, NEW v \in VDRs, Shows(n, v),
             nadr'[n].uid = nadr[n].uid
      PROVE  nadr'[n].url = v
  <2>1. nadr[n].url = v /\ nadr[n].uid # NoUID
    <3>1. nadr[n].url = v /\ vdr[v].uid = nadr[n].uid /\ Provided(v)
      BY <1>1, NoneAssumption DEF Shows, IInv, OwnURL
    <3>2. VDROK(v)
      BY <1>1 DEF IInv, VDRsOK
    <3>3. QED
      BY <3>1, <3>2, NoneAssumption DEF VDROK, Provided
  <2>2. CASE UNCHANGED vars
    BY <2>1, <2>2 DEF vars
  <2>3. CASE Next /\ ~PatchURL
    BY <1>1, <2>1, <2>3, OnlyPatchSetsURL
  <2>4. CASE PatchURL /\ ~UNCHANGED nadr
    <3>1. pc = "patchURL" /\ Patch(req.url, nadr[cur].phase, nadr[cur].condition)
      BY <2>4 DEF PatchURL
    <3>2. req.url \in VDRs /\ (n = cur => v = req.url)
      BY <1>1, <3>1 DEF IInv, WorkerOK
    <3>3. nadr'[cur].url = req.url /\ (n # cur => nadr'[n] = nadr[n])
      BY <1>1, <3>1, <3>2, RequestFields, PatchType DEF NADRs
    <3>4. QED
      BY <2>1, <3>2, <3>3
  <2>5. QED
    BY <1>1, <2>1, <2>2, <2>3, <2>4
<1>2. IInv /\ [Next]_vars => [\A n \in Names, v \in VDRs :
                                 Shows(n, v) /\ nadr'[n].uid = nadr[n].uid => nadr'[n].url = v]_vars
  BY <1>1
<1>3. QED
  BY <1>2, Invariance, PTL DEF Spec, GoodURLKept
=============================================================================
