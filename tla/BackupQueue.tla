---------------------------- MODULE BackupQueue ----------------------------
(***************************************************************************)
(* status.queueInfo of NonAdminBackups (NABs): how many Velero Backups,    *)
(* the administrator's included, are to be run before the NAB's own        *)
(* (GetBackupQueueInfo, internal/common/function/function.go), and the     *)
(* predicate and handler that refresh it when any backup completes         *)
(* (internal/predicate/velerobackup_queue_predicate.go,                    *)
(* internal/handler/velerobackup_queue_handler.go).                        *)
(*                                                                         *)
(* The worker counts in the informer's list; a completion reaches the list *)
(* and, later, the handlers.  What else the controller does with a NAB is  *)
(* NonAdminBackup's: a NAB is the name of its backup here.                 *)
(***************************************************************************)
EXTENDS Naturals, FiniteSets

CONSTANTS
  Backups,   \* Velero Backups
  Foreign,   \* the ones no NAB belongs to
  NoBackup,  \* none of them
  MaxTime,   \* bound: seconds creation timestamps tell apart
  MaxFaults  \* bound: failed API calls and restarts of the manager

ASSUME BackupsAssumption ==
  IsFiniteSet(Backups) /\ Foreign \subseteq Backups /\ NoBackup \notin Backups
ASSUME QueueBoundsAssumption == MaxTime \in Nat /\ MaxFaults \in Nat

VARIABLES
  now,        \* the clock creation timestamps are taken from
  vb,         \* Velero Backups stored by the API server
  seen,       \* the informer's list of them
  completed,  \* completions in the list the handlers have yet to serve
  nabs,       \* NABs, by their backup
  passed,     \* history: NABs whose last reconcile ended before the position is set
  shown,      \* estimatedQueuePosition in their status
  queue,      \* work queue
  pc,         \* step the worker is about to take
  cur,        \* NAB it reconciles
  target,     \* that NAB's backup as it read or created it
  position,   \* the position it has worked out
  missed,     \* NABs whose backup the list did not show when a completion was handled
  faults

workerVars == <<queue, pc, cur, target, position>>
nabVars    == <<nabs, shown, passed>>
vars == <<now, vb, seen, completed, nabVars, workerVars, missed, faults>>

VBs  == [state : {"none", "waiting", "done", "gone"}, time : 0 .. MaxTime]
NoVB == [state |-> "none", time |-> 0]
NoPosition == Cardinality(Backups) + 2     \* status.queueInfo is not set
Positions  == 0 .. Cardinality(Backups) \union {NoPosition}

TypeOK ==
  /\ now \in 0 .. MaxTime
  /\ vb \in [Backups -> VBs] /\ seen \in [Backups -> VBs]
  /\ completed \subseteq Backups /\ nabs \subseteq Backups \ Foreign
  /\ shown \in [Backups -> Positions]
  /\ queue \subseteq Backups \ Foreign
  /\ pc \in {"idle", "count", "write"} /\ cur \in Backups \union {NoBackup}
  /\ target \in VBs /\ position \in Positions
  /\ passed \subseteq nabs /\ missed \subseteq nabs
  /\ faults \in Nat

Init ==
  /\ now = 0
  /\ vb = [b \in Backups |-> NoVB] /\ seen = vb /\ completed = {}
  /\ nabs = {} /\ passed = {} /\ shown = [b \in Backups |-> NoPosition]
  /\ queue = {} /\ pc = "idle" /\ cur = NoBackup /\ target = NoVB /\ position = NoPosition
  /\ missed = {} /\ faults = 0

(***************************************************************************)
(* The worker.                                                             *)
(***************************************************************************)

\* Mutant of GetBackupQueueInfo: backups of the same second, the target among
\* them, are counted.
QueueInfoInclusive(list, backup) ==
  IF backup.state = "done" THEN 0
  ELSE 1 + Cardinality({b \in Backups : list[b].state = "waiting" /\ list[b].time <= backup.time})

GetBackupQueueInfo(list, backup) ==
  IF backup.state = "done" THEN 0
  ELSE 1 + Cardinality({b \in Backups : list[b].state = "waiting" /\ list[b].time < backup.time})

Return(q) ==
  /\ pc' = "idle" /\ cur' = NoBackup /\ target' = NoVB /\ position' = NoPosition
  /\ queue' = q

Turn(b, backup) ==
  /\ pc' = "count" /\ cur' = b /\ target' = backup
  /\ queue' = queue \ {b} /\ UNCHANGED position

\* Up to the backup that the reconcile reads or creates.  A second create, of a
\* backup the list does not show yet, is refused and retried: it takes no step here.
Reconcile(b) ==
  /\ pc = "idle" /\ b \in queue
  /\ \/ /\ b \notin nabs \/ seen[b].state = "gone"
        /\ queue' = queue \ {b} /\ UNCHANGED <<vb, pc, cur, target, position>>
     \/ /\ b \in nabs /\ seen[b].state \in {"waiting", "done"}
        /\ Turn(b, seen[b]) /\ UNCHANGED vb
     \/ /\ b \in nabs /\ vb[b].state = "none"
        /\ vb' = [vb EXCEPT ![b] = [state |-> "waiting", time |-> now]]
        /\ Turn(b, vb'[b])
  /\ missed' = missed \ {b} /\ passed' = passed \ {b}
  /\ UNCHANGED <<now, seen, completed, nabs, shown, faults>>

\* validateSpec refuses the NAB, which is not retried, or it is on a deletion path:
\* either may be so at one reconcile and no more at the next.
EndEarly(b) ==
  /\ pc = "idle" /\ b \in queue /\ b \in nabs
  /\ queue' = queue \ {b} /\ passed' = passed \union {b}
  /\ UNCHANGED <<now, vb, seen, completed, nabs, shown, pc, cur, target, position, missed, faults>>

\* The list is the cache's, which is read without a call.
Count ==
  /\ pc = "count"
  /\ pc' = "write" /\ position' = GetBackupQueueInfo(seen, target)
  /\ UNCHANGED <<now, vb, seen, completed, nabVars, queue, cur, target, missed, faults>>

Write ==
  /\ pc = "write"
  /\ shown' = IF cur \in nabs THEN [shown EXCEPT ![cur] = position] ELSE shown
  /\ Return(queue)
  /\ UNCHANGED <<now, vb, seen, completed, nabs, passed, missed, faults>>

CallFails ==   \* the status update is refused
  /\ pc = "write" /\ faults < MaxFaults
  /\ faults' = faults + 1
  /\ Return(queue \union {cur})
  /\ UNCHANGED <<now, vb, seen, completed, nabVars, missed>>

Restart ==
  /\ faults < MaxFaults
  /\ faults' = faults + 1
  /\ seen' = vb /\ completed' = {} /\ missed' = {}
  /\ Return(nabs)
  /\ UNCHANGED <<now, vb, nabVars>>

(***************************************************************************)
(* The informer and its handlers.                                          *)
(***************************************************************************)
Deliver(b) ==   \* VeleroBackupQueuePredicate: a new CompletionTimestamp
  /\ seen[b] # vb[b]
  /\ seen' = [seen EXCEPT ![b] = IF seen[b].state = "none" /\ vb[b].state = "done"
                                   THEN [vb[b] EXCEPT !.state = "waiting"] ELSE vb[b]]
  /\ completed' = IF seen[b].state = "waiting" /\ vb[b].state = "done"
                    THEN completed \union {b} ELSE completed
  /\ UNCHANGED <<now, vb, nabVars, workerVars, missed, faults>>

\* Mutant of Handle: the queue handler is not registered.
HandleOwn(b) ==
  /\ b \in completed
  /\ completed' = completed \ {b}
  /\ queue' = queue \union ({b} \ Foreign)
  /\ UNCHANGED <<now, vb, seen, nabVars, pc, cur, target, position, missed, faults>>

\* VeleroBackupQueueHandler: the NABs of all backups that are not completed, and
\* VeleroBackupHandler: the backup's own.
Handle(b) ==
  /\ b \in completed
  /\ completed' = completed \ {b}
  /\ queue' = queue \union ({b} \ Foreign)
                    \union {c \in Backups \ Foreign : seen[c].state = "waiting"}
  /\ missed' = missed \union {c \in nabs : vb[c].state = "waiting" /\ seen[c].state = "none"}
  /\ UNCHANGED <<now, vb, seen, nabVars, pc, cur, target, position, faults>>

(***************************************************************************)
(* Users, the administrator and Velero.                                    *)
(***************************************************************************)

\* Timestamps are in seconds: the list shows a backup before the next second.
Tick ==
  /\ now < MaxTime /\ \A b \in Backups : vb[b].state # "none" => seen[b].state # "none"
  /\ now' = now + 1
  /\ UNCHANGED <<vb, seen, completed, nabVars, workerVars, missed, faults>>

CreateNAB(b) ==
  /\ b \notin Foreign /\ b \notin nabs /\ vb[b].state = "none"
  /\ nabs' = nabs \union {b} /\ queue' = queue \union {b}
  /\ UNCHANGED <<now, vb, seen, completed, shown, passed, pc, cur, target, position, missed, faults>>

CreateForeign(b) ==
  /\ b \in Foreign /\ vb[b].state = "none"
  /\ vb' = [vb EXCEPT ![b] = [state |-> "waiting", time |-> now]]
  /\ UNCHANGED <<now, seen, completed, nabVars, workerVars, missed, faults>>

Complete(b) ==
  /\ vb[b].state = "waiting"
  /\ vb' = [vb EXCEPT ![b].state = "done"]
  /\ UNCHANGED <<now, seen, completed, nabVars, workerVars, missed, faults>>

EditNAB(b) ==   \* an update of the NAB that its predicate lets through
  /\ b \in nabs \ queue
  /\ queue' = queue \union {b}
  /\ UNCHANGED <<now, vb, seen, completed, nabVars, pc, cur, target, position, missed, faults>>

\* A backup that waits is deleted, with its NAB.  That one goes that is done
\* changes no position, and is left out.
Withdraw(b) ==
  /\ vb[b].state = "waiting"
  /\ vb' = [vb EXCEPT ![b].state = "gone"]
  /\ nabs' = nabs \ {b} /\ passed' = passed \ {b} /\ missed' = missed \ {b}
  /\ UNCHANGED <<now, seen, completed, shown, workerVars, faults>>

Next ==
  \/ \E b \in Backups : Reconcile(b) \/ EndEarly(b) \/ Deliver(b) \/ Handle(b)
  \/ Count \/ Write \/ CallFails \/ Restart \/ Tick
  \/ \E b \in Backups : CreateNAB(b) \/ CreateForeign(b) \/ Complete(b) \/ Withdraw(b) \/ EditNAB(b)

Spec == Init /\ [][Next]_vars

(***************************************************************************)
(* Safety.                                                                 *)
(***************************************************************************)
AtRest == queue = {} /\ pc = "idle" /\ completed = {} /\ seen = vb

\* Once everything has been served, a NAB shows where its backup stands: no
\* completion, handled while a position was being worked out or written, is
\* missed.  A NAB whose last reconcile was refused, or went along a deletion path,
\* keeps what it showed, also of a backup that has completed since.  Of the others
\* two estimates stay too high until the NAB's own backup changes: of a backup that
\* was so new when the completion was handled that the list did not show it, and
\* behind a backup that was deleted while it waited, which no handler looks at.
PositionsSettle ==
  AtRest => \A b \in nabs \ passed :
    LET before  == {c \in Backups : vb[c].state # "none" /\ vb[c].time < vb[b].time}
        waiting == {c \in before : vb[c].state = "waiting"}
        gone    == {c \in before : vb[c].state = "gone"}
        counted == IF b \in missed THEN before ELSE waiting \union gone
    IN /\ vb[b].state = "waiting" =>
            shown[b] \in 1 + Cardinality(waiting) .. 1 + Cardinality(counted)
       /\ vb[b].state = "done" => shown[b] = 0
=============================================================================
