------------------------- MODULE BackupQueueProofs -------------------------
(***************************************************************************)
(* Theorems about the functions of internal/common/function that compute   *)
(* something: GetBackupQueueInfo and the handlers that call for it, for    *)
(* any set of backups and any number of completions, failures and          *)
(* restarts, and GenerateNacObjectUUID, for every namespace, name and UUID.*)
(*                                                                         *)
(* The invariant QInv says of a NAB that nobody is about to reconcile how  *)
(* far the position it shows may be off: by the completions that are still *)
(* on their way through the informer and its handlers, and by no other.    *)
(***************************************************************************)
EXTENDS MCBackupQueue, FiniteSetTheorems, TLAPS

\* The list is the stored backups as they once were.
SeenOK ==
  \A b \in Backups :
    seen[b].state # "none" =>
      /\ seen[b].time = vb[b].time
      /\ seen[b].state = vb[b].state \/ (seen[b].state = "waiting" /\ vb[b].state # "none")

\* A backup of an earlier second than the clock's is in the list.
ClockOK ==
  \A b \in Backups :
    vb[b].state # "none" => /\ vb[b].time <= now
                            /\ vb[b].time < now => seen[b].state # "none"

\* Completions are handed to the handlers once the list has them.
CompletedOK == \A b \in completed : vb[b].state = "done"

\* The worker's copy of the backup it works out the position of.
TargetOK ==
  pc # "idle" =>
    /\ cur \in Backups \ Foreign
    /\ vb[cur].state # "none" /\ target.time = vb[cur].time
    /\ target.state = "waiting" \/ (target.state = "done" /\ vb[cur].state = "done")

\* The backups before b, the ones of them that wait, and the ones that a position
\* worked out earlier may have counted and no handler has yet made up for.
Before(b)  == {c \in Backups : vb[c].state # "none" /\ vb[c].time < vb[b].time}
Waiting(b) == {c \in Before(b) : vb[c].state = "waiting"}
Pending(b) == {c \in Before(b) : vb[c].state = "done" => seen[c].state = "waiting" \/ c \in completed}
Counted(b) == IF b \in missed THEN Before(b) ELSE Pending(b)

\* What the NAB of b shows, or will when the worker has written it.
Value(b) == IF pc = "write" /\ cur = b THEN position ELSE shown[b]
Told(b)  == b \in completed \/ seen[b].state # "done"

NABPositionOK(b) ==
  IF pc = "count" /\ cur = b
    THEN vb[b].state = "done" => Told(b) \/ target.state = "done"
    ELSE /\ vb[b].state = "waiting" =>
              Value(b) \in 1 + Cardinality(Waiting(b)) .. 1 + Cardinality(Counted(b))
         /\ vb[b].state = "done" => Told(b) \/ Value(b) = 0
PositionsOK == \A b \in nabs \ passed : b \notin queue => NABPositionOK(b)

QInv == TypeOK /\ SeenOK /\ ClockOK /\ CompletedOK /\ TargetOK /\ PositionsOK

-----------------------------------------------------------------------------
(***************************************************************************)
(* Counting.                                                               *)
(***************************************************************************)
LEMMA CountsCompare ==
  ASSUME NEW S, NEW T \in SUBSET Backups, S \subseteq T
  PROVE  /\ Cardinality(S) \in Nat /\ Cardinality(T) \in Nat /\ Cardinality(Backups) \in Nat
         /\ Cardinality(S) <= Cardinality(T) /\ Cardinality(T) <= Cardinality(Backups)
<1>1. IsFiniteSet(Backups)
  BY BackupsAssumption
<1>2. IsFiniteSet(T) /\ Cardinality(T) <= Cardinality(Backups)
  BY <1>1, FS_Subset
<1>3. IsFiniteSet(S) /\ Cardinality(S) <= Cardinality(T)
  BY <1>2, FS_Subset
<1>4. QED
  BY <1>1, <1>2, <1>3, FS_CardinalityType

\* The backup whose position is worked out is not before itself.
LEMMA CountLeavesOneOut ==
  ASSUME NEW T \in SUBSET Backups, NEW b \in Backups, b \notin T
  PROVE  Cardinality(T) \in Nat /\ 1 + Cardinality(T) \in 0 .. Cardinality(Backups)
<1>1. IsFiniteSet(Backups) /\ IsFiniteSet(T)
  BY BackupsAssumption, FS_Subset
<1>2. Cardinality(T \union {b}) = Cardinality(T) + 1
  BY <1>1, FS_AddElement
<1>3. T \union {b} \in SUBSET Backups
  OBVIOUS
<1>4. Cardinality(T \union {b}) <= Cardinality(Backups) /\ Cardinality(Backups) \in Nat
  BY <1>3, CountsCompare
<1>5. Cardinality(T) \in Nat
  BY <1>1, FS_CardinalityType
<1>6. QED
  BY <1>2, <1>4, <1>5

LEMMA BeforeAreBackups ==
  ASSUME NEW b
  PROVE  /\ Before(b) \in SUBSET Backups /\ Waiting(b) \in SUBSET Before(b)
         /\ Pending(b) \in SUBSET Before(b) /\ Counted(b) \in SUBSET Backups
         /\ Waiting(b) \subseteq Counted(b)
BY DEF Before, Waiting, Pending, Counted

LEMMA QInitOK == Init => QInv
<1>. SUFFICES ASSUME Init PROVE QInv
  OBVIOUS
<1>1. NoVB \in VBs /\ NoPosition \in Positions /\ NoVB.state = "none"
  BY QueueBoundsAssumption DEF NoVB, VBs, NoPosition, Positions
<1>2. TypeOK
  BY <1>1, QueueBoundsAssumption DEF Init, TypeOK
<1>3. SeenOK /\ ClockOK /\ CompletedOK /\ TargetOK /\ PositionsOK
  BY <1>1 DEF Init, SeenOK, ClockOK, CompletedOK, TargetOK, PositionsOK
<1>4. QED
  BY <1>2, <1>3 DEF QInv

-----------------------------------------------------------------------------
(***************************************************************************)
(* What is true of the position of a NAB stays true while nobody works it  *)
(* out anew, no backup is added before its own, and a completion that it   *)
(* counts stays pending.                                                   *)
(***************************************************************************)
LEMMA PositionSteady ==
  ASSUME NEW b, NABPositionOK(b), UNCHANGED <<pc, cur, target>>, Value(b)' = Value(b),
         vb'[b].state = vb[b].state, Told(b) => Told(b)',
         vb[b].state = "waiting" =>
           Waiting(b)' \subseteq Waiting(b) /\ Counted(b) \subseteq Counted(b)'
  PROVE  NABPositionOK(b)'
<1>1. CASE pc = "count" /\ cur = b
  BY <1>1 DEF NABPositionOK
<1>2. CASE ~(pc = "count" /\ cur = b)
  <2>1. CASE vb[b].state = "waiting"
    <3>1. /\ Waiting(b)' \subseteq Waiting(b) /\ Counted(b) \subseteq Counted(b)'
          /\ Value(b) \in 1 + Cardinality(Waiting(b)) .. 1 + Cardinality(Counted(b))
      BY <1>2, <2>1 DEF NABPositionOK
    <3>2. Waiting(b) \in SUBSET Backups /\ Counted(b)' \in SUBSET Backups
      BY DEF Waiting, Before, Counted, Pending
    <3>3. /\ Cardinality(Waiting(b)') \in Nat /\ Cardinality(Waiting(b)) \in Nat
          /\ Cardinality(Waiting(b)') <= Cardinality(Waiting(b))
      BY <3>1, <3>2, CountsCompare
    <3>4. /\ Cardinality(Counted(b)) \in Nat /\ Cardinality(Counted(b)') \in Nat
          /\ Cardinality(Counted(b)) <= Cardinality(Counted(b)')
      BY <3>1, <3>2, CountsCompare
    <3>5. Value(b) \in 1 + Cardinality(Waiting(b)') .. 1 + Cardinality(Counted(b)')
      BY <3>1, <3>3, <3>4
    <3>6. QED
      BY <1>2, <2>1, <3>5 DEF NABPositionOK
  <2>2. CASE vb[b].state # "waiting"
    BY <1>2, <2>2 DEF NABPositionOK
  <2>3. QED
    BY <2>1, <2>2
<1>3. QED
  BY <1>1, <1>2

\* The backups do not change, and neither do the missed.
LEMMA CountsSame ==
  ASSUME NEW b, UNCHANGED <<vb, missed>>,
         \A c \in Before(b) : vb[c].state = "done" /\ (seen[c].state = "waiting" \/ c \in completed)
                                => seen'[c].state = "waiting" \/ c \in completed'
  PROVE  Waiting(b)' = Waiting(b) /\ Counted(b) \subseteq Counted(b)'
BY DEF Waiting, Before, Pending, Counted

-----------------------------------------------------------------------------
(***************************************************************************)
(* The worker.                                                             *)
(***************************************************************************)
LEMMA ReconcileQ == ASSUME QInv, NEW b \in Backups, Reconcile(b) PROVE QInv'
<1>1. /\ pc = "idle" /\ b \in queue /\ b \in Backups \ Foreign /\ now \in 0 .. MaxTime
      /\ vb \in [Backups -> VBs] /\ seen \in [Backups -> VBs]
  BY DEF Reconcile, QInv, TypeOK
<1>2. /\ UNCHANGED <<now, seen, completed, nabs, shown, faults>>
      /\ missed' = missed \ {b} /\ passed' = passed \ {b}
  BY DEF Reconcile
<1>. DEFINE new == [state |-> "waiting", time |-> now]
<1>3. new \in VBs /\ new.state = "waiting" /\ new.time = now
  BY <1>1 DEF VBs
<1>. HIDE DEF new
<1>4. \/ /\ b \notin nabs \/ seen[b].state = "gone"
         /\ queue' = queue \ {b} /\ UNCHANGED <<vb, pc, cur, target, position>>
      \/ /\ b \in nabs /\ seen[b].state \in {"waiting", "done"}
         /\ Turn(b, seen[b]) /\ UNCHANGED vb
      \/ /\ b \in nabs /\ vb[b].state = "none"
         /\ vb' = [vb EXCEPT ![b] = new] /\ Turn(b, new)
  <2>1. vb' = [vb EXCEPT ![b] = new] => vb'[b] = new
    BY <1>1
  <2>2. QED
    BY <2>1 DEF Reconcile, new
<1>5. /\ vb' \in [Backups -> VBs]
      /\ \A c \in Backups : vb'[c] = vb[c] \/ (c = b /\ vb[c].state = "none" /\ vb'[c] = new)
  BY <1>1, <1>3, <1>4
<1>6. TypeOK'
  <2>1. missed' \subseteq nabs' /\ passed' \subseteq nabs'
    BY <1>2 DEF QInv, TypeOK
  <2>2. /\ queue' = queue \ {b} /\ pc' \in {"idle", "count"} /\ cur' \in Backups \union {NoBackup}
        /\ target' \in VBs /\ position' = position
    BY <1>1, <1>3, <1>4 DEF QInv, TypeOK, Turn
  <2>3. QED
    BY <1>1, <1>2, <1>5, <2>1, <2>2 DEF QInv, TypeOK
<1>7. SeenOK' /\ ClockOK' /\ CompletedOK'
  <2>1. SeenOK'
    BY <1>2, <1>5 DEF QInv, SeenOK
  <2>2. ClockOK'
    BY <1>1, <1>2, <1>3, <1>5 DEF QInv, ClockOK
  <2>3. CompletedOK'
    BY <1>2, <1>5 DEF QInv, TypeOK, CompletedOK
  <2>4. QED
    BY <2>1, <2>2, <2>3
<1>8. TargetOK'
  BY <1>1, <1>3, <1>4, <1>5 DEF QInv, TargetOK, SeenOK, Turn
<1>9. ASSUME NEW d \in nabs \ passed', d \notin queue' PROVE NABPositionOK(d)'
  <2>1. CASE d = b
    <3>1. CASE seen[b].state = "gone"
      BY <1>1, <1>4, <2>1, <3>1, <1>2, <1>5 DEF QInv, SeenOK, NABPositionOK, Turn
    <3>2. CASE seen[b].state # "gone"
      BY <1>1, <1>2, <1>3, <1>4, <2>1, <3>2 DEF NABPositionOK, Turn, Told
    <3>3. QED
      BY <3>1, <3>2
  <2>2. CASE d # b
    <3>1. /\ d \in Backups /\ d \notin passed /\ d \notin queue /\ vb'[d] = vb[d]
          /\ d \in missed' <=> d \in missed
      <4>1. /\ queue' = queue \ {b} /\ missed' = missed \ {b} /\ passed' = passed \ {b}
            /\ d \in Backups
        BY <1>2, <1>4 DEF QInv, TypeOK, Turn
      <4>2. QED
        BY <1>5, <1>9, <2>2, <4>1
    <3>2. NABPositionOK(d)
      BY <1>9, <3>1 DEF QInv, PositionsOK
    <3>3. vb[d].state # "none" =>
            Before(d)' = Before(d) /\ \A c \in Before(d) : vb'[c] = vb[c]
      BY <1>1, <1>3, <1>5, <3>1 DEF Before, QInv, ClockOK, VBs
    <3>4. vb[d].state # "none" => Waiting(d)' = Waiting(d) /\ Counted(d)' = Counted(d)
      BY <1>2, <3>1, <3>3 DEF Waiting, Pending, Counted
    <3>5. Value(d)' = Value(d) /\ (Told(d) => Told(d)') /\ ~(pc' = "count" /\ cur' = d)
          /\ Value(d) = shown[d] /\ ~(pc = "count" /\ cur = d)
      BY <1>1, <1>2, <1>4, <2>2 DEF Value, Told, Turn
    <3>6. QED
      BY <3>1, <3>2, <3>4, <3>5 DEF NABPositionOK
  <2>3. QED
    BY <2>1, <2>2
<1>10. PositionsOK'
  BY <1>2, <1>9 DEF PositionsOK
<1>11. QED
  BY <1>6, <1>7, <1>8, <1>10 DEF QInv

\* A reconcile that ends early, and an update that calls for one, leave everything
\* else as it is.
LEMMA EndEarlyQ == ASSUME QInv, NEW b \in Backups, EndEarly(b) PROVE QInv'
<1>1. /\ b \in nabs /\ queue' = queue \ {b} /\ passed' = passed \union {b}
      /\ UNCHANGED <<now, vb, seen, completed, nabs, shown, pc, cur, target, position, missed, faults>>
  BY DEF EndEarly
<1>2. TypeOK'
  BY <1>1 DEF QInv, TypeOK
<1>3. SeenOK' /\ ClockOK' /\ CompletedOK' /\ TargetOK'
  BY <1>1 DEF QInv, SeenOK, ClockOK, CompletedOK, TargetOK
<1>4. PositionsOK'
  BY <1>1 DEF QInv, PositionsOK, NABPositionOK, Value, Told, Waiting, Before, Counted, Pending
<1>5. QED
  BY <1>2, <1>3, <1>4 DEF QInv

LEMMA EditNABQ == ASSUME QInv, NEW b \in Backups, EditNAB(b) PROVE QInv'
<1>1. /\ b \in nabs /\ queue' = queue \union {b}
      /\ UNCHANGED <<now, vb, seen, completed, nabs, shown, passed, pc, cur, target, position,
                     missed, faults>>
  BY DEF EditNAB, nabVars
<1>2. TypeOK'
  BY <1>1 DEF QInv, TypeOK
<1>3. SeenOK' /\ ClockOK' /\ CompletedOK' /\ TargetOK'
  BY <1>1 DEF QInv, SeenOK, ClockOK, CompletedOK, TargetOK
<1>4. PositionsOK'
  BY <1>1 DEF QInv, PositionsOK, NABPositionOK, Value, Told, Waiting, Before, Counted, Pending
<1>5. QED
  BY <1>2, <1>3, <1>4 DEF QInv

LEMMA CountQ == ASSUME QInv, Count PROVE QInv'
<1>1. /\ pc = "count" /\ pc' = "write" /\ position' = GetBackupQueueInfo(seen, target)
      /\ UNCHANGED <<now, vb, seen, completed, nabs, shown, passed, queue, cur, target, missed, faults>>
  BY DEF Count, nabVars
<1>2. /\ cur \in Backups \ Foreign /\ vb \in [Backups -> VBs] /\ seen \in [Backups -> VBs]
      /\ target.time = vb[cur].time /\ vb[cur].state # "none"
      /\ target.state = "waiting" \/ (target.state = "done" /\ vb[cur].state = "done")
  BY <1>1 DEF QInv, TypeOK, TargetOK
<1>. DEFINE counted == {c \in Backups : seen[c].state = "waiting" /\ seen[c].time < target.time}
<1>3. counted \in SUBSET Backups /\ cur \notin counted
  BY <1>2 DEF QInv, SeenOK, VBs
<1>4. Cardinality(counted) \in Nat /\ 1 + Cardinality(counted) \in 0 .. Cardinality(Backups)
  BY <1>2, <1>3, CountLeavesOneOut
<1>5. position' = IF target.state = "done" THEN 0 ELSE 1 + Cardinality(counted)
  BY <1>1 DEF GetBackupQueueInfo
<1>6. Waiting(cur) \subseteq counted
  BY <1>2 DEF Waiting, Before, QInv, SeenOK, ClockOK, TypeOK, VBs
<1>7. counted \subseteq Counted(cur)
  BY <1>2 DEF Counted, Pending, Before, QInv, SeenOK
<1>. HIDE DEF counted
<1>8. TypeOK'
  <2>1. Cardinality(Backups) \in Nat
    BY CountsCompare
  <2>2. position' \in 0 .. Cardinality(Backups)
    BY <1>4, <1>5, <2>1
  <2>3. QED
    BY <1>1, <2>2 DEF QInv, TypeOK, Positions
<1>9. SeenOK' /\ ClockOK' /\ CompletedOK' /\ TargetOK'
  BY <1>1 DEF QInv, SeenOK, ClockOK, CompletedOK, TargetOK
<1>10. ASSUME NEW d \in nabs \ passed, d \notin queue PROVE NABPositionOK(d)'
  <2>1. NABPositionOK(d) /\ Told(d)' = Told(d)
    BY <1>1, <1>10 DEF QInv, PositionsOK, Told
  <2>2. Waiting(d)' = Waiting(d) /\ Counted(d)' = Counted(d)
    BY <1>1 DEF Waiting, Before, Counted, Pending
  <2>3. CASE d = cur
    <3>1. /\ Value(d)' = position'
          /\ vb[d].state = "done" => Told(d) \/ target.state = "done"
      BY <1>1, <2>1, <2>3 DEF Value, NABPositionOK
    <3>2. /\ Cardinality(Waiting(d)) \in Nat /\ Cardinality(Counted(d)) \in Nat
          /\ Cardinality(Waiting(d)) <= Cardinality(counted)
          /\ Cardinality(counted) <= Cardinality(Counted(d))
      BY <1>3, <1>6, <1>7, <2>3, CountsCompare, BeforeAreBackups
    <3>3. target.state # "done" =>
            position' \in 1 + Cardinality(Waiting(d)) .. 1 + Cardinality(Counted(d))
      BY <1>4, <1>5, <3>2
    <3>4. QED
      BY <1>1, <1>2, <1>5, <2>1, <2>2, <2>3, <3>1, <3>3 DEF NABPositionOK
  <2>4. CASE d # cur
    BY <1>1, <2>1, <2>2, <2>4 DEF NABPositionOK, Value
  <2>5. QED
    BY <2>3, <2>4
<1>11. PositionsOK'
  BY <1>1, <1>10 DEF PositionsOK
<1>12. QED
  BY <1>8, <1>9, <1>11 DEF QInv

LEMMA WriteQ == ASSUME QInv, Write PROVE QInv'
<1>1. /\ pc = "write" /\ pc' = "idle" /\ queue' = queue /\ cur' = NoBackup
      /\ target' = NoVB /\ position' = NoPosition
      /\ shown' = IF cur \in nabs THEN [shown EXCEPT ![cur] = position] ELSE shown
      /\ UNCHANGED <<now, vb, seen, completed, nabs, passed, missed, faults>>
  BY DEF Write, Return
<1>2. NoVB \in VBs /\ NoPosition \in Positions
  BY QueueBoundsAssumption DEF NoVB, VBs, NoPosition, Positions
<1>3. TypeOK'
  BY <1>1, <1>2 DEF QInv, TypeOK
<1>4. SeenOK' /\ ClockOK' /\ CompletedOK' /\ TargetOK'
  BY <1>1 DEF QInv, SeenOK, ClockOK, CompletedOK, TargetOK
<1>5. ASSUME NEW d \in nabs \ passed, d \notin queue PROVE NABPositionOK(d)'
  <2>1. NABPositionOK(d) /\ Told(d)' = Told(d)
    BY <1>1, <1>5 DEF QInv, PositionsOK, Told
  <2>2. Waiting(d)' = Waiting(d) /\ Counted(d)' = Counted(d)
    BY <1>1 DEF Waiting, Before, Counted, Pending
  <2>3. Value(d)' = Value(d)
    BY <1>1 DEF Value, QInv, TypeOK
  <2>4. QED
    BY <1>1, <2>1, <2>2, <2>3 DEF NABPositionOK
<1>6. PositionsOK'
  BY <1>1, <1>5 DEF PositionsOK
<1>7. QED
  BY <1>3, <1>4, <1>6 DEF QInv

\* A reconcile that is lost is made again.
LEMMA LostQ == ASSUME QInv, CallFails \/ Restart PROVE QInv'
<1>1. /\ pc' = "idle" /\ cur' = NoBackup /\ target' = NoVB /\ position' = NoPosition
      /\ faults' = faults + 1 /\ UNCHANGED <<now, vb, nabs, shown, passed>>
  BY DEF CallFails, Restart, Return, nabVars
<1>2. NoVB \in VBs /\ NoPosition \in Positions
  BY QueueBoundsAssumption DEF NoVB, VBs, NoPosition, Positions
<1>3. CASE CallFails
  <2>1. /\ pc = "write" /\ queue' = queue \union {cur}
        /\ UNCHANGED <<seen, completed, missed>>
    BY <1>3 DEF CallFails, Return
  <2>2. TypeOK'
    BY <1>1, <1>2, <2>1 DEF QInv, TypeOK, TargetOK
  <2>3. SeenOK' /\ ClockOK' /\ CompletedOK' /\ TargetOK'
    BY <1>1, <2>1 DEF QInv, SeenOK, ClockOK, CompletedOK, TargetOK
  <2>4. ASSUME NEW d \in nabs \ passed, d \notin queue' PROVE NABPositionOK(d)'
    <3>1. NABPositionOK(d) /\ Told(d)' = Told(d) /\ d # cur
      BY <2>1, <2>4 DEF QInv, PositionsOK, Told
    <3>2. Waiting(d)' = Waiting(d) /\ Counted(d)' = Counted(d)
      BY <1>1, <2>1 DEF Waiting, Before, Counted, Pending
    <3>3. QED
      BY <1>1, <3>1, <3>2 DEF NABPositionOK, Value
  <2>5. QED
    BY <1>1, <2>2, <2>3, <2>4 DEF QInv, PositionsOK
<1>4. CASE Restart
  <2>1. queue' = nabs /\ seen' = vb /\ completed' = {} /\ missed' = {}
    BY <1>4 DEF Restart, Return
  <2>2. TypeOK'
    BY <1>1, <1>2, <2>1 DEF QInv, TypeOK
  <2>3. SeenOK' /\ ClockOK' /\ CompletedOK' /\ TargetOK' /\ PositionsOK'
    BY <1>1, <2>1 DEF QInv, SeenOK, ClockOK, CompletedOK, TargetOK, PositionsOK
  <2>4. QED
    BY <2>2, <2>3 DEF QInv
<1>5. QED
  BY <1>3, <1>4

-----------------------------------------------------------------------------
(***************************************************************************)
(* The informer and its handlers.                                          *)
(***************************************************************************)
LEMMA DeliverQ == ASSUME QInv, NEW b \in Backups, Deliver(b) PROVE QInv'
<1>1. /\ vb \in [Backups -> VBs] /\ seen \in [Backups -> VBs]
      /\ UNCHANGED <<now, vb, nabs, shown, passed, queue, pc, cur, target, position, missed, faults>>
  BY DEF Deliver, QInv, TypeOK, workerVars, nabVars
<1>2. PICK copy \in VBs :
        /\ seen' = [seen EXCEPT ![b] = copy]
        /\ copy.time = vb[b].time
        /\ \/ seen[b].state = "none" /\ vb[b].state = "done" /\ copy.state = "waiting"
           \/ ~(seen[b].state = "none" /\ vb[b].state = "done") /\ copy.state = vb[b].state
  <2>1. CASE seen[b].state = "none" /\ vb[b].state = "done"
    <3>. DEFINE copy == [vb[b] EXCEPT !.state = "waiting"]
    <3>1. copy \in VBs /\ copy.time = vb[b].time /\ copy.state = "waiting"
      BY <1>1 DEF VBs
    <3>2. seen' = [seen EXCEPT ![b] = copy]
      BY <2>1 DEF Deliver
    <3>. HIDE DEF copy
    <3>3. QED
      BY <2>1, <3>1, <3>2
  <2>2. CASE ~(seen[b].state = "none" /\ vb[b].state = "done")
    <3>1. vb[b] \in VBs /\ seen' = [seen EXCEPT ![b] = vb[b]]
      BY <1>1, <2>2 DEF Deliver
    <3>2. QED
      BY <2>2, <3>1
  <2>3. QED
    BY <2>1, <2>2
<1>3. /\ seen' \in [Backups -> VBs] /\ seen'[b] = copy
      /\ \A c \in Backups \ {b} : seen'[c] = seen[c]
  BY <1>1, <1>2
<1>4. /\ completed \subseteq completed' /\ completed' \subseteq completed \union {b}
      /\ seen[b].state = "waiting" /\ vb[b].state = "done" => b \in completed'
      /\ b \in completed' => b \in completed \/ vb[b].state = "done"
  BY DEF Deliver
<1>5. TypeOK'
  BY <1>1, <1>3, <1>4 DEF QInv, TypeOK
<1>6. copy.state \in {"none", "waiting", "done", "gone"} /\ vb[b] \in VBs /\ seen[b] \in VBs
  BY <1>1 DEF VBs
<1>7. SeenOK' /\ ClockOK'
  BY <1>1, <1>2, <1>3 DEF QInv, SeenOK, ClockOK
<1>8. CompletedOK' /\ TargetOK'
  BY <1>1, <1>4 DEF QInv, CompletedOK, TargetOK
<1>9. ASSUME NEW d \in nabs \ passed, d \notin queue PROVE NABPositionOK(d)'
  <2>1. NABPositionOK(d) /\ d \in Backups
    BY <1>9 DEF QInv, PositionsOK, TypeOK
  <2>2. Told(d) => Told(d)'
    BY <1>1, <1>2, <1>3, <1>4, <2>1 DEF Told, QInv, SeenOK
  <2>3. ASSUME NEW c \in Before(d), vb[c].state = "done",
               seen[c].state = "waiting" \/ c \in completed
        PROVE  seen'[c].state = "waiting" \/ c \in completed'
    BY <1>3, <1>4, <2>3 DEF Before
  <2>4. Waiting(d)' = Waiting(d) /\ Counted(d) \subseteq Counted(d)'
    BY <1>1, <2>3, CountsSame
  <2>5. Value(d)' = Value(d)
    BY <1>1 DEF Value
  <2>6. QED
    BY <1>1, <2>1, <2>2, <2>4, <2>5, PositionSteady
<1>10. PositionsOK'
  BY <1>1, <1>9 DEF PositionsOK
<1>11. QED
  BY <1>5, <1>7, <1>8, <1>10 DEF QInv

\* Handling a completion calls for every position that counted it: the NAB is in
\* the queue, is missed, or its own backup is over.
LEMMA HandleQ == ASSUME QInv, NEW b \in Backups, Handle(b) PROVE QInv'
<1>1. /\ UNCHANGED <<now, vb, seen, nabs, shown, passed, pc, cur, target, position, faults>>
      /\ b \in completed /\ completed' = completed \ {b}
      /\ queue' = queue \union ({b} \ Foreign)
                        \union {c \in Backups \ Foreign : seen[c].state = "waiting"}
      /\ missed' = missed \union {c \in nabs : vb[c].state = "waiting" /\ seen[c].state = "none"}
  BY DEF Handle, nabVars
<1>2. TypeOK'
  BY <1>1 DEF QInv, TypeOK
<1>3. SeenOK' /\ ClockOK' /\ CompletedOK' /\ TargetOK'
  BY <1>1 DEF QInv, SeenOK, ClockOK, CompletedOK, TargetOK
<1>4. ASSUME NEW d \in nabs \ passed, d \notin queue' PROVE NABPositionOK(d)'
  <2>1. /\ d \in Backups \ Foreign /\ d \notin queue /\ d # b /\ seen[d].state # "waiting"
        /\ NABPositionOK(d)
    BY <1>1, <1>4 DEF QInv, TypeOK, PositionsOK
  <2>2. Value(d)' = Value(d) /\ (Told(d) => Told(d)')
    BY <1>1, <2>1 DEF Value, Told
  <2>3. Before(d)' = Before(d) /\ Waiting(d)' = Waiting(d)
    BY <1>1 DEF Before, Waiting
  <2>4. vb[d].state = "waiting" => d \in missed'
    BY <1>1, <2>1 DEF QInv, SeenOK
  <2>5. vb[d].state = "waiting" => Counted(d) \subseteq Counted(d)'
    BY <2>3, <2>4 DEF Counted, Pending
  <2>6. QED
    BY <1>1, <2>1, <2>2, <2>3, <2>5, PositionSteady
<1>5. PositionsOK'
  BY <1>1, <1>4 DEF PositionsOK
<1>6. QED
  BY <1>2, <1>3, <1>5 DEF QInv

-----------------------------------------------------------------------------
(***************************************************************************)
(* Users, the administrator and Velero.                                    *)
(***************************************************************************)
LEMMA TickQ == ASSUME QInv, Tick PROVE QInv'
<1>1. /\ now < MaxTime /\ now' = now + 1
      /\ \A b \in Backups : vb[b].state # "none" => seen[b].state # "none"
      /\ UNCHANGED <<vb, seen, completed, nabs, shown, passed, queue, pc, cur, target, position,
                     missed, faults>>
  BY DEF Tick, workerVars, nabVars
<1>2. TypeOK'
  BY <1>1, QueueBoundsAssumption DEF QInv, TypeOK
<1>3. ClockOK'
  BY <1>1, QueueBoundsAssumption DEF QInv, ClockOK, TypeOK, VBs
<1>4. SeenOK' /\ CompletedOK' /\ TargetOK'
  BY <1>1 DEF QInv, SeenOK, CompletedOK, TargetOK
<1>5. PositionsOK'
  BY <1>1 DEF QInv, PositionsOK, NABPositionOK, Value, Told, Waiting, Before, Counted, Pending
<1>6. QED
  BY <1>2, <1>3, <1>4, <1>5 DEF QInv

LEMMA CreateNABQ == ASSUME QInv, NEW b \in Backups, CreateNAB(b) PROVE QInv'
<1>1. /\ b \in Backups \ Foreign /\ nabs' = nabs \union {b} /\ queue' = queue \union {b}
      /\ UNCHANGED <<now, vb, seen, completed, shown, passed, pc, cur, target, position, missed, faults>>
  BY DEF CreateNAB
<1>2. TypeOK'
  BY <1>1 DEF QInv, TypeOK
<1>3. SeenOK' /\ ClockOK' /\ CompletedOK' /\ TargetOK'
  BY <1>1 DEF QInv, SeenOK, ClockOK, CompletedOK, TargetOK
<1>4. PositionsOK'
  BY <1>1 DEF QInv, PositionsOK, NABPositionOK, Value, Told, Waiting, Before, Counted, Pending
<1>5. QED
  BY <1>2, <1>3, <1>4 DEF QInv

LEMMA CreateForeignQ == ASSUME QInv, NEW b \in Backups, CreateForeign(b) PROVE QInv'
<1>. DEFINE new == [state |-> "waiting", time |-> now]
<1>1. /\ b \in Foreign /\ vb[b].state = "none" /\ vb' = [vb EXCEPT ![b] = new]
      /\ UNCHANGED <<now, seen, completed, nabs, shown, passed, queue, pc, cur, target, position,
                     missed, faults>>
  BY DEF CreateForeign, workerVars, nabVars
<1>2. new \in VBs /\ new.state = "waiting" /\ new.time = now /\ now \in 0 .. MaxTime
  BY DEF VBs, QInv, TypeOK
<1>. HIDE DEF new
<1>3. /\ vb \in [Backups -> VBs] /\ vb' \in [Backups -> VBs] /\ vb'[b] = new
      /\ \A c \in Backups \ {b} : vb'[c] = vb[c]
  BY <1>1, <1>2 DEF QInv, TypeOK
<1>4. TypeOK'
  BY <1>1, <1>3 DEF QInv, TypeOK
<1>5. SeenOK' /\ ClockOK' /\ CompletedOK' /\ TargetOK'
  BY <1>1, <1>2, <1>3 DEF QInv, TypeOK, SeenOK, ClockOK, CompletedOK, TargetOK, VBs
<1>6. ASSUME NEW d \in nabs \ passed, d \notin queue PROVE NABPositionOK(d)'
  <2>1. d \in Backups /\ d # b /\ vb'[d] = vb[d] /\ NABPositionOK(d)
    BY <1>1, <1>3, <1>6 DEF QInv, TypeOK, PositionsOK
  <2>2. vb[d].state # "none" =>
          Before(d)' = Before(d) /\ \A c \in Before(d) : vb'[c] = vb[c]
    BY <1>1, <1>2, <1>3, <2>1 DEF Before, QInv, ClockOK, VBs
  <2>3. ASSUME vb[d].state # "none"
        PROVE  Waiting(d)' = Waiting(d) /\ Counted(d)' = Counted(d)
    <3>1. Before(d)' = Before(d) /\ \A c \in Before(d) : vb'[c] = vb[c]
      BY <2>2, <2>3
    <3>2. Waiting(d)' = Waiting(d)
      BY <3>1 DEF Waiting
    <3>3. Pending(d)' = Pending(d)
      BY <1>1, <3>1 DEF Pending
    <3>4. QED
      BY <1>1, <3>1, <3>2, <3>3 DEF Counted
  <2>4. Value(d)' = Value(d) /\ (Told(d) => Told(d)')
    BY <1>1 DEF Value, Told
  <2>5. QED
    BY <1>1, <2>1, <2>3, <2>4, PositionSteady
<1>7. PositionsOK'
  BY <1>1, <1>6 DEF PositionsOK
<1>8. QED
  BY <1>4, <1>5, <1>7 DEF QInv

\* A backup that waits is over: where it was counted it stays to be accounted for.
LEMMA EndsQ ==
  ASSUME QInv, NEW b \in Backups, Complete(b) \/ Withdraw(b) PROVE QInv'
<1>1. /\ vb[b].state = "waiting" /\ vb \in [Backups -> VBs]
      /\ UNCHANGED <<now, seen, completed, shown, queue, pc, cur, target, position, faults>>
      /\ nabs' \subseteq nabs /\ missed' \subseteq missed
      /\ \A d \in nabs' : (d \in missed <=> d \in missed') /\ (d \in passed <=> d \in passed')
  BY DEF Complete, Withdraw, workerVars, nabVars, QInv, TypeOK
<1>2. PICK copy \in VBs :
        /\ vb' = [vb EXCEPT ![b] = copy] /\ copy.time = vb[b].time
        /\ copy.state = "done" \/ (copy.state = "gone" /\ b \notin nabs')
  <2>1. ASSUME NEW state \in {"done", "gone"}
        PROVE  LET copy == [vb[b] EXCEPT !.state = state] IN
                 copy \in VBs /\ copy.time = vb[b].time /\ copy.state = state
    BY <1>1 DEF VBs
  <2>2. CASE Complete(b)
    BY <2>1, <2>2 DEF Complete
  <2>3. CASE Withdraw(b)
    BY <2>1, <2>3 DEF Withdraw
  <2>4. QED
    BY <2>2, <2>3
<1>3. /\ vb' \in [Backups -> VBs] /\ vb'[b] = copy
      /\ \A c \in Backups \ {b} : vb'[c] = vb[c]
  BY <1>1, <1>2
<1>4. TypeOK'
  <2>1. missed' \subseteq nabs' /\ passed' \subseteq nabs'
    BY DEF Complete, Withdraw, nabVars, QInv, TypeOK
  <2>2. QED
    BY <1>1, <1>3, <2>1 DEF QInv, TypeOK
<1>5. SeenOK' /\ ClockOK'
  BY <1>1, <1>2, <1>3 DEF QInv, SeenOK, ClockOK
<1>6. CompletedOK' /\ TargetOK'
  BY <1>1, <1>2, <1>3 DEF QInv, TypeOK, CompletedOK, TargetOK
<1>7. ASSUME NEW d \in nabs' \ passed', d \notin queue PROVE NABPositionOK(d)'
  <2>1. d \in nabs /\ d \in Backups /\ NABPositionOK(d)
    BY <1>1, <1>7 DEF QInv, TypeOK, PositionsOK
  <2>2. CASE d = b
    <3>1. copy.state = "done" /\ seen[b].state # "done"
      BY <1>1, <1>2, <1>7, <2>2 DEF QInv, SeenOK
    <3>2. QED
      BY <1>1, <1>3, <2>2, <3>1 DEF NABPositionOK, Told
  <2>3. CASE d # b
    <3>1. vb'[d] = vb[d] /\ Value(d)' = Value(d) /\ (Told(d) => Told(d)')
      BY <1>1, <1>3, <2>1, <2>3 DEF Value, Told
    <3>2. Before(d)' = Before(d)
      BY <1>1, <1>2, <1>3, <2>1, <2>3 DEF Before
    <3>3. Waiting(d)' \subseteq Waiting(d)
      BY <1>1, <1>2, <1>3, <3>2 DEF Waiting, Before
    <3>4. vb[d].state = "waiting" => Pending(d) \subseteq Pending(d)'
      <4>1. ASSUME vb[d].state = "waiting", b \in Before(d)
            PROVE  seen[b].state = "waiting"
        BY <1>1, <2>1, <4>1 DEF QInv, TypeOK, SeenOK, ClockOK, Before, VBs
      <4>2. QED
        BY <1>1, <1>3, <3>2, <4>1 DEF Pending, Before
    <3>5. vb[d].state = "waiting" => Counted(d) \subseteq Counted(d)'
      BY <1>1, <1>7, <3>2, <3>4 DEF Counted
    <3>6. QED
      BY <1>1, <2>1, <3>1, <3>3, <3>5, PositionSteady
  <2>4. QED
    BY <2>2, <2>3
<1>8. PositionsOK'
  BY <1>1, <1>7 DEF PositionsOK
<1>9. QED
  BY <1>4, <1>5, <1>6, <1>8 DEF QInv

LEMMA QNextOK == ASSUME QInv, [Next]_vars PROVE QInv'
<1>1. ASSUME NEW b \in Backups, Reconcile(b) \/ EndEarly(b) \/ Deliver(b) \/ Handle(b) PROVE QInv'
  BY <1>1, ReconcileQ, EndEarlyQ, DeliverQ, HandleQ
<1>2. CASE Count \/ Write \/ CallFails \/ Restart \/ Tick
  BY <1>2, CountQ, WriteQ, LostQ, TickQ
<1>3. ASSUME NEW b \in Backups,
             CreateNAB(b) \/ CreateForeign(b) \/ Complete(b) \/ Withdraw(b) \/ EditNAB(b)
      PROVE  QInv'
  BY <1>3, CreateNABQ, CreateForeignQ, EndsQ, EditNABQ
<1>4. CASE UNCHANGED vars
  <2>1. UNCHANGED <<now, vb, seen, completed, nabs, shown, passed, queue, pc, cur, target, position,
                    missed, faults>>
    BY <1>4 DEF vars, workerVars, nabVars
  <2>2. TypeOK' /\ SeenOK' /\ ClockOK' /\ CompletedOK' /\ TargetOK'
    BY <2>1 DEF QInv, TypeOK, SeenOK, ClockOK, CompletedOK, TargetOK
  <2>3. PositionsOK'
    BY <2>1 DEF QInv, PositionsOK, NABPositionOK, Value, Told, Waiting, Before, Counted, Pending
  <2>4. QED
    BY <2>2, <2>3 DEF QInv
<1>5. QED
  BY <1>1, <1>2, <1>3, <1>4 DEF Next

LEMMA QInvariance == Spec => []QInv
<1>1. QInv /\ [Next]_vars => QInv'
  BY QNextOK
<1>2. QED
  BY <1>1, QInitOK, PTL DEF Spec

-----------------------------------------------------------------------------
\* The positions the worker works out and NABs show are ones that exist: no NAB is
\* ever told to be behind more backups than there are.
THEOREM QueueTypeCorrect == Spec => []TypeOK
<1>1. QInv => TypeOK
  BY DEF QInv
<1>2. QED
  BY <1>1, QInvariance, PTL

\* Once every event has been served, every NAB whose last reconcile was not refused
\* and not on a deletion path shows where its backup stands, whatever completed,
\* failed or restarted while positions were being worked out.
THEOREM PositionsAlwaysSettle == Spec => []PositionsSettle
<1>1. ASSUME QInv PROVE PositionsSettle
  <2>. SUFFICES ASSUME AtRest, NEW b \in nabs \ passed
       PROVE  LET before  == {c \in Backups : vb[c].state # "none" /\ vb[c].time < vb[b].time}
                  waiting == {c \in before : vb[c].state = "waiting"}
                  gone    == {c \in before : vb[c].state = "gone"}
                  counted == IF b \in missed THEN before ELSE waiting \union gone
              IN /\ vb[b].state = "waiting" =>
                      shown[b] \in 1 + Cardinality(waiting) .. 1 + Cardinality(counted)
                 /\ vb[b].state = "done" => shown[b] = 0
    BY DEF PositionsSettle
  <2>1. queue = {} /\ pc = "idle" /\ completed = {} /\ seen = vb
    BY DEF AtRest
  <2>2. NABPositionOK(b) /\ Value(b) = shown[b]
    BY <1>1, <2>1 DEF QInv, PositionsOK, Value
  <2>3. Pending(b) = Waiting(b) \union {c \in Before(b) : vb[c].state = "gone"}
    BY <1>1, <2>1 DEF Pending, Waiting, Before, QInv, TypeOK, VBs
  <2>4. vb[b].state = "waiting" =>
          shown[b] \in 1 + Cardinality(Waiting(b)) .. 1 + Cardinality(Counted(b))
    BY <2>1, <2>2 DEF NABPositionOK
  <2>5. vb[b].state = "done" => shown[b] = 0
    BY <2>1, <2>2 DEF NABPositionOK, Told
  <2>6. QED
    BY <2>3, <2>4, <2>5 DEF Counted, Waiting, Before
<1>2. QED
  BY <1>1, QInvariance, PTL

-----------------------------------------------------------------------------
(***************************************************************************)
(* GenerateNacObjectUUID.                                                  *)
(***************************************************************************)
\* What a part takes of the name, its delimiter included.
Width(part) == IF part = <<>> THEN 0 ELSE Len(part) + 1

LEMMA WidthProperties ==
  ASSUME NEW part \in Strings
  PROVE  /\ Len(part) \in Nat /\ Width(part) \in Nat
         /\ Width(part) <= Len(part) + 1 /\ Len(part) <= Width(part)
         /\ Len(part) > 0 => Width(part) = Len(part) + 1
         /\ Len(part) = 0 => Width(part) = 0
BY DEF Width, Strings

\* What Join returns: the rest, behind the part and a delimiter.
LEMMA JoinProperties ==
  ASSUME NEW part \in Strings, NEW rest \in Strings
  PROVE  /\ Join(part, rest) \in Strings
         /\ Len(Join(part, rest)) = Width(part) + Len(rest)
         /\ \A i \in 1 .. Len(rest) :
              Join(part, rest)[Len(Join(part, rest)) - Len(rest) + i] = rest[i]
<1>1. CASE part = <<>>
  BY <1>1 DEF Join, Strings, Width
<1>2. CASE part # <<>>
  <2>. DEFINE front == part \o <<Delimiter>>
  <2>1. front \in Strings /\ Len(front) = Width(part)
    BY <1>2, DelimiterAssumption DEF Strings, Width
  <2>2. Join(part, rest) = front \o rest
    BY <1>2 DEF Join
  <2>. HIDE DEF front
  <2>3. /\ front \o rest \in Strings /\ Len(front \o rest) = Len(front) + Len(rest)
        /\ \A i \in 1 .. Len(rest) : (front \o rest)[Len(front) + i] = rest[i]
    BY <2>1 DEF Strings
  <2>4. Width(part) \in Nat /\ Len(rest) \in Nat
    BY WidthProperties
  <2>5. Len(front \o rest) - Len(rest) = Len(front)
    BY <2>1, <2>3, <2>4
  <2>6. QED
    BY <2>1, <2>2, <2>3, <2>5
<1>3. QED
  BY <1>1, <1>2

LEMMA FirstProperties ==
  ASSUME NEW string \in Strings, NEW length \in Nat, length <= Len(string)
  PROVE  First(string, length) \in Strings /\ Len(First(string, length)) = length
BY DEF First, Strings

\* Joining to what ends with the UUID keeps it at the end.
EndsWith(string, uuid) ==
  \A i \in 1 .. UUIDLength : string[Len(string) - UUIDLength + i] = uuid[i]

LEMMA SuffixKept ==
  ASSUME NEW part \in Strings, NEW rest \in Strings, NEW uuid,
         Len(rest) >= UUIDLength, EndsWith(rest, uuid)
  PROVE  EndsWith(Join(part, rest), uuid)
<1>. DEFINE name == Join(part, rest)
<1>1. /\ name \in Strings
      /\ \A i \in 1 .. Len(rest) : name[Len(name) - Len(rest) + i] = rest[i]
  BY JoinProperties
<1>. HIDE DEF name
<1>2. Len(name) \in Nat /\ Len(rest) \in Nat /\ UUIDLength \in Nat
  BY <1>1, WidthProperties, LengthsAssumption
<1>3. ASSUME NEW i \in 1 .. UUIDLength PROVE name[Len(name) - UUIDLength + i] = uuid[i]
  <2>. DEFINE j == Len(rest) - UUIDLength + i
  <2>1. j \in 1 .. Len(rest) /\ Len(name) - Len(rest) + j = Len(name) - UUIDLength + i
    BY <1>2
  <2>2. name[Len(name) - Len(rest) + j] = rest[j]
    BY <1>1, <2>1
  <2>3. rest[j] = uuid[i]
    BY DEF EndsWith
  <2>4. QED
    BY <2>1, <2>2, <2>3
<1>4. QED
  BY <1>3 DEF name, EndsWith

\* Joining namespace, name and UUID adds up and keeps the UUID at the end.
LEMMA NameProperties ==
  ASSUME NEW namespace \in Strings, NEW nacName \in Strings, NEW uuid \in UUIDStrings
  PROVE  /\ Len(Join(namespace, Join(nacName, uuid)))
              = Width(namespace) + Width(nacName) + UUIDLength
         /\ EndsWith(Join(namespace, Join(nacName, uuid)), uuid)
<1>. DEFINE rest == Join(nacName, uuid)
<1>1. uuid \in Strings /\ Len(uuid) = UUIDLength /\ UUIDLength \in Nat
  BY LengthsAssumption DEF UUIDStrings
<1>2. Width(namespace) \in Nat /\ Width(nacName) \in Nat
  BY WidthProperties
<1>3. EndsWith(uuid, uuid)
  BY <1>1 DEF EndsWith
<1>4. rest \in Strings /\ Len(rest) = Width(nacName) + UUIDLength /\ EndsWith(rest, uuid)
  BY <1>1, <1>3, JoinProperties, SuffixKept
<1>. HIDE DEF rest
<1>5. Len(Join(namespace, rest)) = Width(namespace) + Len(rest)
  BY <1>4, JoinProperties
<1>6. EndsWith(Join(namespace, rest), uuid)
  BY <1>1, <1>2, <1>4, SuffixKept
<1>7. QED
  BY <1>1, <1>2, <1>4, <1>5, <1>6 DEF rest

\* Whatever the namespace and the name, and however long they are, what
\* GenerateNacObjectUUID returns is no longer than a label value may be and ends
\* with the whole UUID, and neither slice it takes is out of range.
THEOREM EveryNameFits ==
  ASSUME NEW namespace \in Strings, NEW nacName \in Strings, NEW uuid \in UUIDStrings
  PROVE  NameFits(namespace, nacName, uuid)
<1>. DEFINE full == Join(namespace, Join(nacName, uuid))
            name == GenerateNacObjectUUID(namespace, nacName, uuid)
<1>1. /\ Len(namespace) \in Nat /\ Width(namespace) \in Nat
      /\ Width(namespace) <= Len(namespace) + 1 /\ Len(namespace) <= Width(namespace)
      /\ Len(nacName) \in Nat /\ Width(nacName) \in Nat
      /\ Width(nacName) <= Len(nacName) + 1 /\ (Len(nacName) = 0 => Width(nacName) = 0)
  BY WidthProperties
<1>2. /\ uuid \in Strings /\ Len(uuid) = UUIDLength /\ UUIDLength \in Nat
      /\ Room \in Nat /\ Room # 0 /\ MaximumNacObjectNameLength = Room + UUIDLength + 2
  BY LengthsAssumption DEF UUIDStrings, Room
<1>3. Len(full) = Width(namespace) + Width(nacName) + UUIDLength /\ EndsWith(full, uuid)
  BY NameProperties
<1>. HIDE DEF full, name
<1>4. \/ Len(full) <= MaximumNacObjectNameLength
      \/ Len(full) > MaximumNacObjectNameLength /\ Len(namespace) > Room
      \/ Len(full) > MaximumNacObjectNameLength /\ Len(namespace) <= Room
  BY <1>1, <1>2, <1>3
<1>5. ASSUME CutsInRange(namespace, nacName, uuid), Len(name) <= MaximumNacObjectNameLength,
             EndsWith(name, uuid)
      PROVE  NameFits(namespace, nacName, uuid)
  BY <1>5 DEF NameFits, EndsWith, name
<1>6. CASE Len(full) <= MaximumNacObjectNameLength
  <2>1. name = full
    BY <1>6 DEF name, full, GenerateNacObjectUUID
  <2>2. CutsInRange(namespace, nacName, uuid)
    BY <1>1, <1>2, <1>3, <1>6 DEF CutsInRange, full
  <2>3. QED
    BY <1>3, <1>5, <1>6, <2>1, <2>2
<1>7. CASE Len(full) > MaximumNacObjectNameLength /\ Len(namespace) > Room
  <2>. DEFINE front == First(namespace, Room)
  <2>1. front \in Strings /\ Len(front) = Room
    BY <1>1, <1>2, <1>7, FirstProperties
  <2>2. name = front \o <<Delimiter>> \o uuid
    <3>1. ~(Len(full) <= MaximumNacObjectNameLength)
      BY <1>1, <1>2, <1>3, <1>7
    <3>2. QED
      BY <1>7, <3>1 DEF name, full, GenerateNacObjectUUID
  <2>3. front # <<>>
    BY <1>2, <2>1
  <2>4. name = Join(front, uuid)
    BY <2>2, <2>3 DEF Join
  <2>. HIDE DEF front
  <2>5. EndsWith(uuid, uuid)
    BY <1>2 DEF EndsWith
  <2>6. Len(name) = Width(front) + UUIDLength /\ Width(front) = Room + 1
    <3>1. Len(name) = Width(front) + UUIDLength
      BY <1>2, <2>1, <2>4, JoinProperties
    <3>2. Width(front) = Room + 1
      BY <2>1, <2>3 DEF Width
    <3>3. QED
      BY <3>1, <3>2
  <2>7. EndsWith(name, uuid)
    BY <1>2, <2>1, <2>4, <2>5, SuffixKept
  <2>8. CutsInRange(namespace, nacName, uuid)
    BY <1>7 DEF CutsInRange
  <2>9. Len(name) <= MaximumNacObjectNameLength
    BY <1>2, <2>6
  <2>10. QED
    BY <1>5, <2>7, <2>8, <2>9
<1>8. CASE Len(full) > MaximumNacObjectNameLength /\ Len(namespace) <= Room
  <2>. DEFINE middle == First(nacName, Room - Len(namespace))
  <2>1. Room - Len(namespace) \in Nat /\ Room - Len(namespace) <= Len(nacName)
    BY <1>1, <1>2, <1>3, <1>8
  <2>2. middle \in Strings /\ Len(middle) = Room - Len(namespace)
    BY <2>1, FirstProperties
  <2>3. name = Join(namespace, Join(middle, uuid))
    BY <1>1, <1>2, <1>3, <1>8 DEF name, full, GenerateNacObjectUUID
  <2>. HIDE DEF middle
  <2>4. Len(name) = Width(namespace) + Width(middle) + UUIDLength /\ EndsWith(name, uuid)
    BY <2>2, <2>3, NameProperties
  <2>5. Width(middle) \in Nat /\ Width(middle) <= Room - Len(namespace) + 1
    BY <2>2, WidthProperties
  <2>6. Len(name) <= MaximumNacObjectNameLength
    BY <1>1, <1>2, <2>1, <2>4, <2>5
  <2>7. CutsInRange(namespace, nacName, uuid)
    BY <2>1 DEF CutsInRange
  <2>8. QED
    BY <1>5, <2>4, <2>6, <2>7
<1>9. QED
  BY <1>4, <1>6, <1>7, <1>8

\* So it is for the namespaces, names and UUIDs TLC looks at in BackupQueue's
\* states, whatever alphabet and bounds it is given.
THEOREM NamesAlwaysFit == Spec => []NamesFit
<1>1. NamesFit
  <2>. SUFFICES ASSUME NEW namespace \in UpTo(Room + 2), NEW nacName \in UpTo(Room + 2),
                       NEW uuid \in [1 .. UUIDLength -> Characters]
                PROVE  NameFits(namespace, nacName, uuid)
    BY DEF NamesFit
  <2>1. UUIDLength \in Nat /\ Room + 2 \in Nat
    BY LengthsAssumption DEF Room
  <2>2. UpTo(Room + 2) \subseteq Strings
    <3>. SUFFICES ASSUME NEW n \in 0 .. Room + 2, NEW string \in [1 .. n -> Characters]
                  PROVE  string \in Strings
      BY DEF UpTo
    <3>1. n \in Nat
      BY <2>1
    <3>2. QED
      BY <3>1 DEF Strings
  <2>3. uuid \in UUIDStrings
    BY <2>1 DEF UUIDStrings, Strings
  <2>4. QED
    BY <2>2, <2>3, EveryNameFits
<1>2. QED
  BY <1>1, PTL
=============================================================================
