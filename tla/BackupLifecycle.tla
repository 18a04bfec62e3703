-------------------------- MODULE BackupLifecycle --------------------------
(***************************************************************************)
(* What the NonAdminBackup controller promises of NonAdminBackups (NABs)   *)
(* and the Velero Backups it runs for them, and nothing of how.  A NAB is  *)
(* given an identifier (its NACUUID), then held (by the finalizer), and    *)
(* only then may the backup of that identifier run; the NAB does not go    *)
(* away before that backup has ended.  Nothing is said of two NABs with    *)
(* one identifier: a user's label decides that.                            *)
(***************************************************************************)
EXTENDS TLAPS

CONSTANTS Names, UUIDs, NoUUID

VARIABLES
  life,     \* of a NAB: nobody holds an "open" one, "leaving" is terminating
  id,       \* the NACUUID in its status
  running   \* Velero Backups in progress

vars == <<life, id, running>>

Init ==
  /\ life = [n \in Names |-> "none"]
  /\ id = [n \in Names |-> NoUUID]
  /\ running = {}

Moves(n, from, to) == life[n] = from /\ life' = [life EXCEPT ![n] = to]

Appear(n) == Moves(n, "none", "open") /\ UNCHANGED <<id, running>>

Identify(n, u) ==
  /\ life[n] = "open" /\ id[n] = NoUUID
  /\ id' = [id EXCEPT ![n] = u]
  /\ UNCHANGED <<life, running>>

Hold(n)  == id[n] # NoUUID /\ Moves(n, "open", "held") /\ UNCHANGED <<id, running>>
Leave(n) == Moves(n, "held", "leaving") /\ UNCHANGED <<id, running>>

Vanish(n) ==
  /\ Moves(n, "open", "none") \/ (id[n] \notin running /\ Moves(n, "leaving", "none"))
  /\ id' = [id EXCEPT ![n] = NoUUID]
  /\ UNCHANGED running

Run(n) ==
  /\ life[n] \in {"held", "leaving"}
  /\ running' = running \union {id[n]}
  /\ UNCHANGED <<life, id>>

End(u) == running' = running \ {u} /\ UNCHANGED <<life, id>>

Next ==
  \/ \E n \in Names : Appear(n) \/ Hold(n) \/ Leave(n) \/ Vanish(n) \/ Run(n)
  \/ \E u \in UUIDs : End(u) \/ \E n \in Names : Identify(n, u)

Spec == Init /\ [][Next]_vars

-----------------------------------------------------------------------------
Lives == {"none", "open", "held", "leaving"}
Held  == {"held", "leaving"}

\* A backup runs for a NAB that has its identifier and is held.
RunningHeld == \A u \in running : \E n \in Names : id[n] = u /\ life[n] \in Held

IInv ==
  /\ life \in [Names -> Lives]
  /\ id \in [Names -> UUIDs \union {NoUUID}]
  /\ \A n \in Names : life[n] \in Held => id[n] # NoUUID
  /\ \A n \in Names : life[n] = "none" => id[n] = NoUUID
  /\ RunningHeld

\* A backup never runs without its NAB: what makes the controller's order of
\* NACUUID, finalizer and creation, and of the backup's end and the finalizer's
\* removal, enough.
THEOREM RunningIsHeld == ASSUME NoUUID \notin UUIDs PROVE Spec => []RunningHeld
<1>1. ASSUME Init PROVE IInv
  BY <1>1 DEF Init, IInv, RunningHeld, Lives, Held
<1>2. ASSUME IInv, [Next]_vars PROVE IInv'
  <2>1. ASSUME NEW n \in Names, Appear(n) \/ Hold(n) \/ Leave(n) PROVE IInv'
    BY <1>2, <2>1 DEF IInv, RunningHeld, Lives, Held, Appear, Hold, Leave, Moves
  <2>2. ASSUME NEW n \in Names, Vanish(n) PROVE IInv'
    <3>1. life[n] \in Held => id[n] \notin running
      BY <2>2 DEF Vanish, Moves, Held
    <3>2. /\ life' = [life EXCEPT ![n] = "none"]
          /\ id' = [id EXCEPT ![n] = NoUUID] /\ running' = running
      BY <2>2 DEF Vanish, Moves
    <3>3. QED
      BY <1>2, <3>1, <3>2 DEF IInv, RunningHeld, Lives, Held
  <2>3. ASSUME NEW n \in Names, Run(n) PROVE IInv'
    BY <1>2, <2>3 DEF IInv, RunningHeld, Held, Run
  <2>4. ASSUME NEW u \in UUIDs, End(u) PROVE IInv'
    BY <1>2, <2>4 DEF IInv, RunningHeld, End
  <2>5. ASSUME NEW u \in UUIDs, NEW n \in Names, Identify(n, u) PROVE IInv'
    BY <1>2, <2>5 DEF IInv, RunningHeld, Lives, Held, Identify
  <2>6. CASE UNCHANGED vars
    BY <1>2, <2>6 DEF IInv, RunningHeld, vars
  <2>7. QED
    BY <1>2, <2>1, <2>2, <2>3, <2>4, <2>5, <2>6 DEF Next
<1>3. IInv => RunningHeld
  BY DEF IInv
<1>4. QED
  BY <1>1, <1>2, <1>3, PTL DEF Spec
=============================================================================
