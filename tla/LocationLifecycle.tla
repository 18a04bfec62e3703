------------------------- MODULE LocationLifecycle -------------------------
(***************************************************************************)
(* What the NonAdminBackupStorageLocation controller promises of a NABSL   *)
(* and of what it gives Velero for it, and nothing of how.  A NABSL is     *)
(* given an identifier (its NACUUID) that nobody had before, then held (by *)
(* the finalizer).  Only for a held one is there a new credential, only it *)
(* gets a location, of a spec that was granted to its identifier, and only *)
(* it is used by NonAdminBackups.  A held NABSL goes when it is no longer  *)
(* used.                                                                   *)
(***************************************************************************)
CONSTANTS Names, UUIDs, Specs, NoUUID, NoSpec

VARIABLES
  life,        \* of a NABSL: nobody holds an "open" one, "leaving" is terminating
  id,          \* the NACUUID in its status
  given,       \* NACUUIDs that were given out
  granted,     \* of a NACUUID: the specs that were approved
  location,    \* of a NACUUID: the spec of its BSL; NoSpec: there is none
  credential,  \* NACUUIDs with a Secret
  users        \* NABSLs that NonAdminBackups use

identity == <<life, id, given>>
supplies == <<granted, location, credential>>
vars     == <<identity, supplies, users>>

Init ==
  /\ life = [n \in Names |-> "none"] /\ id = [n \in Names |-> NoUUID]
  /\ given = {}
  /\ granted = [u \in UUIDs |-> {}] /\ location = [u \in UUIDs |-> NoSpec]
  /\ credential = {} /\ users = {}

Held == {"held", "leaving"}
Moves(n, from, to) == life[n] = from /\ life' = [life EXCEPT ![n] = to]

Appear(n) == Moves(n, "none", "open") /\ UNCHANGED <<id, given, supplies, users>>

Identify(n, u) ==
  /\ life[n] = "open" /\ id[n] = NoUUID /\ u \notin given
  /\ id' = [id EXCEPT ![n] = u] /\ given' = given \union {u}
  /\ UNCHANGED <<life, supplies, users>>

Hold(n)  == id[n] # NoUUID /\ Moves(n, "open", "held") /\ UNCHANGED <<id, given, supplies, users>>
Leave(n) == Moves(n, "held", "leaving") /\ UNCHANGED <<id, given, supplies, users>>

Vanish(n) ==
  /\ Moves(n, "open", "none") \/ (n \notin users /\ Moves(n, "leaving", "none"))
  /\ id' = [id EXCEPT ![n] = NoUUID]
  /\ UNCHANGED <<given, supplies, users>>

Grant(u, spec) ==
  /\ u \in given
  /\ granted' = [granted EXCEPT ![u] = @ \union {spec}]
  /\ UNCHANGED <<identity, location, credential, users>>

Equip(n) ==
  /\ life[n] \in Held
  /\ credential' = credential \union {id[n]}
  /\ UNCHANGED <<identity, granted, location, users>>

Provide(n, spec) ==
  /\ life[n] \in Held /\ spec \in granted[id[n]]
  /\ location' = [location EXCEPT ![id[n]] = spec]
  /\ UNCHANGED <<identity, granted, credential, users>>

\* What is there can be taken away, by the controller or by a collector.
Withdraw(u) ==
  /\ \/ location' = [location EXCEPT ![u] = NoSpec] /\ UNCHANGED credential
     \/ credential' = credential \ {u} /\ UNCHANGED location
  /\ UNCHANGED <<identity, granted, users>>

Use(n)     == life[n] \in Held /\ users' = users \union {n} /\ UNCHANGED <<identity, supplies>>
Release(n) == users' = users \ {n} /\ UNCHANGED <<identity, supplies>>

Next ==
  \/ \E n \in Names : \/ Appear(n) \/ Hold(n) \/ Leave(n) \/ Vanish(n) \/ Equip(n)
                      \/ Use(n) \/ Release(n)
                      \/ \E spec \in Specs : Provide(n, spec)
                      \/ \E u \in UUIDs : Identify(n, u)
  \/ \E u \in UUIDs : Withdraw(u) \/ \E spec \in Specs : Grant(u, spec)

Spec == Init /\ [][Next]_vars
=============================================================================
