-------------------- MODULE NonAdminBackupStorageLocation --------------------
(***************************************************************************)
(* The NonAdminBackupStorageLocation (NABSL) controller, with the garbage  *)
(* collector that tidies up behind it.  A NABSL a user creates becomes a   *)
(* request to the cluster admin and, once the request is approved, a       *)
(* Secret and a Velero BackupStorageLocation (BSL) in the OADP namespace   *)
(* (internal/controller/nonadminbackupstoragelocation_controller.go and    *)
(* garbagecollector_controller.go).                                        *)
(*                                                                         *)
(* The request, the Secret and the BSL of a NABSL are named and labelled   *)
(* with its NACUUID.  The worker looks each of them up in an informer      *)
(* cache of its own, and every one of those caches may lag.                *)
(***************************************************************************)
EXTENDS Naturals

CONSTANTS
  Names,        \* namespaced names of NABSLs
  UUIDs,        \* NACUUIDs that GenerateNacObjectUUID can return
  Specs,        \* backupStorageLocationSpecs
  NoName, NoUUID, NoSpec,
  Lagging,      \* caches that may lag while the worker goes on
  CollectGarbage,  \* garbageCollectionPeriod > 0
  MaxEdits,     \* bound: calls users make
  MaxDecisions, \* bound: calls the admin makes
  MaxFaults     \* bound: failed API calls and restarts of the manager

ASSUME NoneAssumption == NoName \notin Names /\ NoUUID \notin UUIDs /\ NoSpec \notin Specs
ASSUME BoundsAssumption ==
  /\ Lagging \subseteq {"nabsl", "request", "secret", "bsl"} /\ CollectGarbage \in BOOLEAN
  /\ MaxEdits \in Nat /\ MaxDecisions \in Nat /\ MaxFaults \in Nat

VARIABLES
  nabsl,       \* NABSLs stored by the API server
  cache,       \* the informer's copy of them
  cacheFresh,  \* the copy has the stored resourceVersion
  nabslEvent,  \* an event the NABSL predicate accepts is on its way
  source,      \* NABSLs whose credential Secret exists: their spec is valid
  backups,     \* NABSLs that live NonAdminBackups use
  owner,       \* NABSL that a NACUUID was given to
  request,     \* NonAdminBackupStorageLocationRequest labelled with a NACUUID
  requestSeen, requestEvent,
  secret, secretSeen,   \* NACUUIDs with a Secret in the OADP namespace
  bsl, bslSeen,         \* spec of the BSL with a NACUUID; NoSpec: there is none
  approved,    \* history: specs the admin (or the DPA) approved
  requireApproval,      \* requireApprovalForBSL, read when the manager starts
  queue, pc, cur, local, localFresh,
  edits, decisions, faults

nabslVars   == <<nabsl, cache, cacheFresh, nabslEvent>>
requestVars == <<request, requestSeen, requestEvent, approved>>
veleroVars  == <<secret, secretSeen, bsl, bslSeen>>
world       == <<source, backups, owner, requireApproval>>
workerVars  == <<queue, pc, cur, local, localFresh>>
bounds      == <<edits, decisions, faults>>
vars        == <<nabslVars, requestVars, veleroVars, world, workerVars, bounds>>

(***************************************************************************)
(* Objects.                                                                *)
(***************************************************************************)
Phases    == {"unset", "New", "BackingOff", "Created", "Deleting"}
Decisions == {"pending", "approve", "reject"}
NABSLs == [exists            : BOOLEAN,
           deletionTimestamp : BOOLEAN,
           finalizer         : BOOLEAN,
           spec              : Specs \union {NoSpec},
           phase             : Phases,
           accepted          : {"unset", "True", "False"},
           decided           : Decisions \union {"unset"},   \* Approved's reason
           refused           : BOOLEAN,          \* SpecUpdateApproved is False
           uuid              : UUIDs \union {NoUUID}]
NewNABSL(spec) ==
  [exists |-> TRUE, deletionTimestamp |-> FALSE, finalizer |-> FALSE, spec |-> spec,
   phase |-> "unset", accepted |-> "unset", decided |-> "unset", refused |-> FALSE,
   uuid |-> NoUUID]
NoNABSL == [NewNABSL(NoSpec) EXCEPT !.exists = FALSE]

\* spec is status.nonAdminBackupStorageLocation.requestedSpec; NoSpec: the
\* status has not been initialised.  phase names the decision it reports.
Requests == [exists : BOOLEAN, decision : Decisions, spec : Specs \union {NoSpec},
             phase : Decisions \union {"unset"}]
NoRequest == [exists |-> FALSE, decision |-> "pending", spec |-> NoSpec, phase |-> "unset"]

Steps == {"idle", "markDelete", "deleteRequest", "deleteSecret", "deleteBSL", "deleteBackups",
          "removeFinalizer", "init", "validate", "setUUID", "createRequest", "approveRequest",
          "initRequest", "setFinalizer", "ensure", "dropSecret", "dropBSL", "refuse",
          "syncSecret", "markSynced", "createBSL", "markCreated", "syncStatus"}

TypeOK ==
  /\ nabsl \in [Names -> NABSLs] /\ cache \in [Names -> NABSLs]
  /\ cacheFresh \in [Names -> BOOLEAN] /\ nabslEvent \in [Names -> BOOLEAN]
  /\ source \subseteq Names
  /\ backups \subseteq Names
  /\ owner \in [UUIDs -> Names \union {NoName}]
  /\ request \in [UUIDs -> Requests] /\ requestSeen \in [UUIDs -> Requests]
  /\ requestEvent \in [UUIDs -> BOOLEAN]
  /\ approved \in [UUIDs -> SUBSET Specs]
  /\ secret \subseteq UUIDs /\ secretSeen \subseteq UUIDs
  /\ bsl \in [UUIDs -> Specs \union {NoSpec}] /\ bslSeen \in [UUIDs -> Specs \union {NoSpec}]
  /\ requireApproval \in BOOLEAN
  /\ queue \subseteq Names /\ pc \in Steps /\ cur \in Names \union {NoName}
  /\ local \in NABSLs /\ localFresh \in BOOLEAN
  /\ edits \in Nat /\ decisions \in Nat /\ faults \in Nat

Init ==
  /\ nabsl = [n \in Names |-> NoNABSL] /\ cache = nabsl
  /\ cacheFresh = [n \in Names |-> TRUE] /\ nabslEvent = [n \in Names |-> FALSE]
  /\ source = Names /\ backups = {}
  /\ owner = [u \in UUIDs |-> NoName]
  /\ request = [u \in UUIDs |-> NoRequest] /\ requestSeen = request
  /\ requestEvent = [u \in UUIDs |-> FALSE]
  /\ approved = [u \in UUIDs |-> {}]
  /\ secret = {} /\ secretSeen = {}
  /\ bsl = [u \in UUIDs |-> NoSpec] /\ bslSeen = bsl
  /\ requireApproval \in BOOLEAN
  /\ queue = {} /\ pc = "idle" /\ cur = NoName /\ local = NoNABSL /\ localFresh = FALSE
  /\ edits = 0 /\ decisions = 0 /\ faults = 0

(***************************************************************************)
(* Writes and the ends of a step.                                          *)
(***************************************************************************)
\* event: one the predicate accepts: a creation, a new generation, a removal.
Changed(n, obj, event) ==
  /\ nabsl' = [nabsl EXCEPT ![n] = obj]
  /\ cacheFresh' = [cacheFresh EXCEPT ![n] = FALSE]
  /\ nabslEvent' = [nabslEvent EXCEPT ![n] = @ \/ event]
  /\ UNCHANGED cache

\* Creations of requests are not reported, changes of the spec and removals are.
SetRequest(u, obj) ==
  /\ request' = [request EXCEPT ![u] = obj]
  /\ requestEvent' = [requestEvent EXCEPT ![u] =
       @ \/ (request[u].exists /\ (~obj.exists \/ obj.decision # request[u].decision))]
  /\ approved' = [approved EXCEPT ![u] =
       IF obj.decision = "approve" /\ obj.spec # NoSpec THEN @ \union {obj.spec} ELSE @]
  /\ UNCHANGED requestSeen

Return(q) ==
  pc' = "idle" /\ cur' = NoName /\ local' = NoNABSL /\ localFresh' = FALSE /\ queue' = q
Exit    == Return(queue)                 \* no error, or a TerminalError
Requeue == Return(queue \union {cur})    \* an error, or Requeue: true
Continue(step, obj) ==
  IF step = "idle" THEN Exit ELSE pc' = step /\ local' = obj /\ UNCHANGED <<queue, cur, localFresh>>
Goto(step) == Continue(step, local)

\* Update or Status().Update: refused as a conflict when the copy is stale.
Update(obj, event, step) ==
  \/ localFresh /\ Changed(cur, obj, event) /\ Continue(step, obj)
  \/ ~localFresh /\ Requeue /\ UNCHANGED nabslVars
UpdateIfChanged(obj, step) ==
  IF obj = local THEN Goto(step) /\ UNCHANGED nabslVars ELSE Update(obj, FALSE, step)

\* Caches that do not lag have caught up when the worker takes a step.
Prompt ==
  /\ "nabsl" \in Lagging \/ \A n \in Names : cacheFresh[n]
  /\ "request" \in Lagging \/ (requestSeen = request /\ \A u \in UUIDs : ~requestEvent[u])
  /\ "secret" \in Lagging \/ secretSeen = secret
  /\ "bsl" \in Lagging \/ bslSeen = bsl

(***************************************************************************)
(* Reconcile.                                                              *)
(***************************************************************************)
Reconcile(n) ==
  /\ pc = "idle" /\ n \in queue /\ Prompt
  /\ queue' = queue \ {n}
  /\ IF cache[n].exists
       THEN /\ pc' = IF cache[n].deletionTimestamp THEN "markDelete" ELSE "init"
            /\ cur' = n /\ local' = cache[n] /\ localFresh' = cacheFresh[n]
       ELSE UNCHANGED <<pc, cur, local, localFresh>>
  /\ UNCHANGED <<nabslVars, requestVars, veleroVars, world, bounds>>

\* A lookup by label and, of what it finds, a Delete: NotFound is an error.
RemoveSecret(u, step) ==
  /\ IF u \notin secretSeen THEN Goto(step)
     ELSE IF u \notin secret THEN Requeue ELSE Goto(step)
  /\ secret' = secret \ (IF u \in secretSeen THEN {u} ELSE {})
RemoveBSL(u, step) ==
  /\ IF bslSeen[u] = NoSpec THEN Goto(step)
     ELSE IF bsl[u] = NoSpec THEN Requeue ELSE Goto(step)
  /\ bsl' = IF bslSeen[u] = NoSpec THEN bsl ELSE [bsl EXCEPT ![u] = NoSpec]

(***************************************************************************)
(* The deletion path.                                                      *)
(***************************************************************************)
MarkDelete ==   \* initNaBSLDelete
  /\ pc = "markDelete"
  /\ UpdateIfChanged([local EXCEPT !.phase = "Deleting"], "deleteRequest")
  /\ UNCHANGED <<requestVars, veleroVars, world, bounds>>

\* Mutant of DeleteRequest: a request that is not there is an error.
DeleteRequestOnce ==
  /\ pc = "deleteRequest"
  /\ IF ~requestSeen[local.uuid].exists \/ ~request[local.uuid].exists
       THEN Requeue /\ UNCHANGED requestVars
       ELSE SetRequest(local.uuid, NoRequest) /\ Goto("deleteSecret")
  /\ UNCHANGED <<nabslVars, veleroVars, world, bounds>>

DeleteRequest ==   \* deleteNonAdminRequest
  /\ pc = "deleteRequest"
  /\ LET u == local.uuid IN
       IF ~requestSeen[u].exists THEN Goto("deleteSecret") /\ UNCHANGED requestVars
       ELSE IF ~request[u].exists THEN Requeue /\ UNCHANGED requestVars
       ELSE SetRequest(u, NoRequest) /\ Goto("deleteSecret")
  /\ UNCHANGED <<nabslVars, veleroVars, world, bounds>>

DeleteSecret ==   \* deleteVeleroBSLSecret
  /\ pc = "deleteSecret" /\ RemoveSecret(local.uuid, "deleteBSL")
  /\ UNCHANGED <<nabslVars, requestVars, secretSeen, bsl, bslSeen, world, bounds>>

\* deleteVeleroBSL.  A lookup that fails counts as finding nothing; it reads the
\* cache and fails when two BSLs have the label, which is not modelled.
DeleteBSL ==
  /\ pc = "deleteBSL" /\ RemoveBSL(local.uuid, "deleteBackups")
  /\ UNCHANGED <<nabslVars, requestVars, secret, secretSeen, bslSeen, world, bounds>>

DeleteBackups ==   \* deleteNonAdminBackups; the list is up to date
  /\ pc = "deleteBackups"
  /\ backups' = backups \ {cur}
  /\ Goto("removeFinalizer")
  /\ UNCHANGED <<nabslVars, requestVars, veleroVars, source, owner, requireApproval, bounds>>

RemoveFinalizer ==   \* removeNaBSLFinalizerUponVeleroBSLDeletion
  /\ pc = "removeFinalizer"
  /\ IF local.finalizer THEN Update(NoNABSL, TRUE, "idle") ELSE Exit /\ UNCHANGED nabslVars
  /\ UNCHANGED <<requestVars, veleroVars, world, bounds>>

(***************************************************************************)
(* The creation and update path, up to the admin's decision.               *)
(***************************************************************************)
InitCreate ==   \* initNaBSLCreate
  /\ pc = "init"
  /\ IF local.phase # "unset" THEN Goto("validate") /\ UNCHANGED nabslVars
     ELSE Update([local EXCEPT !.phase = "New"], FALSE, "validate")
  /\ UNCHANGED <<requestVars, veleroVars, world, bounds>>

ValidateSpec ==   \* validateNaBSLSpec
  /\ pc = "validate"
  /\ IF cur \in source THEN UpdateIfChanged([local EXCEPT !.accepted = "True"], "setUUID")
     ELSE UpdateIfChanged([local EXCEPT !.phase = "BackingOff", !.accepted = "False"], "idle")
  /\ UNCHANGED <<requestVars, veleroVars, world, bounds>>

\* Mutant of SetUUID: the status is written without the resourceVersion.
SetUUIDUnlocked ==
  /\ pc = "setUUID"
  /\ LET again == cache[cur] IN
       \/ ~again.exists /\ Requeue /\ UNCHANGED <<nabslVars, owner>>
       \/ /\ again.exists /\ again.uuid # NoUUID
          /\ pc' = "createRequest" /\ local' = again /\ localFresh' = cacheFresh[cur]
          /\ UNCHANGED <<nabslVars, owner, queue, cur>>
       \/ /\ again.exists /\ again.uuid = NoUUID /\ nabsl[cur].exists
          /\ \E u \in {u \in UUIDs : owner[u] = NoName} :
               /\ Changed(cur, [nabsl[cur] EXCEPT !.uuid = u], FALSE)
               /\ owner' = [owner EXCEPT ![u] = cur]
               /\ local' = [again EXCEPT !.uuid = u]
          /\ pc' = "createRequest" /\ localFresh' = FALSE
          /\ UNCHANGED <<queue, cur>>
  /\ UNCHANGED <<requestVars, veleroVars, source, backups, requireApproval, bounds>>

\* setVeleroBSLUUIDInNaBSLStatus: works on a copy it fetches again, from the cache
SetUUID ==
  /\ pc = "setUUID"
  /\ LET again == cache[cur] IN
       \/ /\ ~again.exists \/ (again.uuid = NoUUID /\ ~cacheFresh[cur])
          /\ Requeue /\ UNCHANGED <<nabslVars, owner>>
       \/ /\ again.exists /\ again.uuid # NoUUID
          /\ pc' = "createRequest" /\ local' = again /\ localFresh' = cacheFresh[cur]
          /\ UNCHANGED <<nabslVars, owner, queue, cur>>
       \/ /\ again.exists /\ again.uuid = NoUUID /\ cacheFresh[cur]
          /\ \E u \in {u \in UUIDs : owner[u] = NoName} :
               /\ Changed(cur, [again EXCEPT !.uuid = u], FALSE)
               /\ owner' = [owner EXCEPT ![u] = cur]
               /\ local' = [again EXCEPT !.uuid = u]
          /\ pc' = "createRequest" /\ localFresh' = TRUE
          /\ UNCHANGED <<queue, cur>>
  /\ UNCHANGED <<requestVars, veleroVars, source, backups, requireApproval, bounds>>

\* What a new request says, and whether one that is found is to be overruled.
FirstDecision == IF requireApproval THEN "pending" ELSE "approve"
Overruled(found) == ~requireApproval /\ found.decision # "approve"

CreateRequest ==   \* createNonAdminRequest: the phase of one, or a new one
  /\ pc = "createRequest"
  /\ LET u == local.uuid
         found == requestSeen[u]
         next == IF Overruled(found) THEN "approveRequest" ELSE "setFinalizer"
     IN
       \/ /\ found.exists
          /\ IF found.phase = found.decision THEN Goto(next) /\ UNCHANGED requestVars
             ELSE IF found # request[u] THEN Requeue /\ UNCHANGED requestVars  \* conflicts
             ELSE SetRequest(u, [found EXCEPT !.phase = found.decision]) /\ Goto(next)
       \/ /\ ~found.exists
          /\ IF request[u].exists THEN Requeue /\ UNCHANGED requestVars   \* AlreadyExists
             ELSE /\ SetRequest(u, [NoRequest EXCEPT !.exists = TRUE, !.decision = FirstDecision])
                  /\ Goto("initRequest")
  /\ UNCHANGED <<nabslVars, veleroVars, world, bounds>>

ApproveRequest ==   \* its merge patch: no resourceVersion
  /\ pc = "approveRequest"
  /\ LET u == local.uuid IN
       IF request[u].exists
         THEN SetRequest(u, [request[u] EXCEPT !.decision = "approve"]) /\ Goto("setFinalizer")
         ELSE Requeue /\ UNCHANGED requestVars
  /\ UNCHANGED <<nabslVars, veleroVars, world, bounds>>

\* Its status write for a request it created; when the request has changed in
\* between, the retry reads it from the cache, which may not have it.
InitRequest ==
  /\ pc = "initRequest" /\ Requeue
  /\ LET u == local.uuid
         intact == request[u].exists /\ request[u].decision = FirstDecision
         known  == request[u].exists /\ requestSeen[u] = request[u]
     IN IF intact \/ known
          THEN SetRequest(u, [request[u] EXCEPT !.spec = local.spec, !.phase = FirstDecision])
          ELSE UNCHANGED requestVars
  /\ UNCHANGED <<nabslVars, veleroVars, world, bounds>>

\* Mutant of SetFinalizer: there is none.
SetFinalizerSkipped ==
  /\ pc = "setFinalizer" /\ Goto("ensure")
  /\ UNCHANGED <<nabslVars, requestVars, veleroVars, world, bounds>>

SetFinalizer ==   \* setFinalizerOnNaBSL
  /\ pc = "setFinalizer"
  /\ UpdateIfChanged([local EXCEPT !.finalizer = TRUE], "ensure")
  /\ UNCHANGED <<requestVars, veleroVars, world, bounds>>

\* Mutants of Ensure: the spec is not compared with the requested one; only a
\* rejection removes what there is.
EnsureUnmatched ==
  /\ pc = "ensure"
  /\ LET found == requestSeen[local.uuid] IN
       \/ /\ ~found.exists \/ found.spec = NoSpec
          /\ Requeue /\ UNCHANGED nabslVars
       \/ /\ found.exists /\ found.spec # NoSpec /\ found.decision = "approve"
          /\ UpdateIfChanged([local EXCEPT !.phase = "New", !.decided = "approve"], "syncSecret")
       \/ /\ found.exists /\ found.spec # NoSpec /\ found.decision # "approve"
          /\ Continue("dropSecret", [local EXCEPT !.decided = found.decision])
          /\ UNCHANGED nabslVars
  /\ UNCHANGED <<requestVars, veleroVars, world, bounds>>
EnsurePending ==
  /\ pc = "ensure"
  /\ LET found == requestSeen[local.uuid] IN
       \/ /\ ~found.exists \/ found.spec = NoSpec
          /\ Requeue /\ UNCHANGED nabslVars
       \/ /\ found.exists /\ found.spec \notin {NoSpec, local.spec}
          /\ UpdateIfChanged([local EXCEPT !.refused = TRUE], "idle")
       \/ /\ found.exists /\ found.spec = local.spec /\ found.decision # "reject"
          /\ UpdateIfChanged([local EXCEPT !.phase = "New", !.decided = found.decision],
                             IF found.decision = "approve" THEN "syncSecret" ELSE "idle")
       \/ /\ found.exists /\ found.spec = local.spec /\ found.decision = "reject"
          /\ Continue("dropSecret", [local EXCEPT !.phase = "BackingOff", !.decided = "reject"])
          /\ UNCHANGED nabslVars
  /\ UNCHANGED <<requestVars, veleroVars, world, bounds>>

\* ensureNonAdminRequest, from the request the cache shows.  A spec that is not
\* the requested one changes nothing that exists; a request that is not approved
\* has the Secret and the BSL removed before the status is written.
Ensure ==
  /\ pc = "ensure"
  /\ LET found == requestSeen[local.uuid] IN
       \/ /\ ~found.exists \/ found.spec = NoSpec
          /\ Requeue /\ UNCHANGED nabslVars
       \/ /\ found.exists /\ found.spec \notin {NoSpec, local.spec}
          /\ UpdateIfChanged([local EXCEPT !.refused = TRUE], "idle")
       \/ /\ found.exists /\ found.spec = local.spec /\ found.decision = "approve"
          /\ UpdateIfChanged([local EXCEPT !.phase = "New", !.decided = "approve"], "syncSecret")
       \/ /\ found.exists /\ found.spec = local.spec /\ found.decision # "approve"
          /\ Continue("dropSecret",
               [local EXCEPT !.phase = IF found.decision = "reject" THEN "BackingOff" ELSE "New",
                             !.decided = found.decision])
          /\ UNCHANGED nabslVars
  /\ UNCHANGED <<requestVars, veleroVars, world, bounds>>

DropSecret ==
  /\ pc = "dropSecret" /\ RemoveSecret(local.uuid, "dropBSL")
  /\ UNCHANGED <<nabslVars, requestVars, secretSeen, bsl, bslSeen, world, bounds>>

DropBSL ==
  /\ pc = "dropBSL" /\ RemoveBSL(local.uuid, "refuse")
  /\ UNCHANGED <<nabslVars, requestVars, secret, secretSeen, bslSeen, world, bounds>>

Refuse ==
  /\ pc = "refuse" /\ Update(local, FALSE, "idle")
  /\ UNCHANGED <<requestVars, veleroVars, world, bounds>>

(***************************************************************************)
(* An approved NABSL: its Secret, its BSL and their state.                 *)
(***************************************************************************)
\* A creation or update that fails is reported in a condition, unless that is
\* refused as a conflict or the condition says so already.
SyncFails == Requeue /\ (UNCHANGED nabslVars \/ (localFresh /\ Changed(cur, local, FALSE)))

SyncSecret ==   \* syncSecrets; contents are not modelled, so one found is right
  /\ pc = "syncSecret"
  /\ IF cur \in source /\ local.uuid \notin secretSeen \union secret
       THEN secret' = secret \union {local.uuid} /\ Goto("markSynced") /\ UNCHANGED nabslVars
       ELSE /\ IF cur \notin source THEN Requeue /\ UNCHANGED nabslVars
               ELSE IF local.uuid \in secretSeen THEN Goto("createBSL") /\ UNCHANGED nabslVars
               ELSE SyncFails   \* AlreadyExists
            /\ UNCHANGED secret
  /\ UNCHANGED <<requestVars, secretSeen, bsl, bslSeen, world, bounds>>

MarkSynced ==   \* and its condition SecretSynced
  /\ pc = "markSynced" /\ Update(local, FALSE, "createBSL")
  /\ UNCHANGED <<requestVars, veleroVars, world, bounds>>

\* createVeleroBSL: without a Secret in the cache it returns, and no error
CreateBSL ==
  /\ pc = "createBSL"
  /\ LET u == local.uuid IN
        IF u \notin secretSeen THEN Goto("syncStatus") /\ UNCHANGED <<bsl, nabslVars>>
        ELSE IF bslSeen[u] = local.spec THEN Goto("markCreated") /\ UNCHANGED <<bsl, nabslVars>>
        ELSE IF bslSeen[u] # bsl[u] THEN SyncFails /\ UNCHANGED bsl  \* conflict, AlreadyExists
        ELSE bsl' = [bsl EXCEPT ![u] = local.spec] /\ Goto("markCreated") /\ UNCHANGED nabslVars
  /\ UNCHANGED <<requestVars, secret, secretSeen, bslSeen, world, bounds>>

\* Mutant of MarkCreated: the phase the design names, which the API lacks.
MarkAccepted ==
  /\ pc = "markCreated" /\ Update([local EXCEPT !.phase = "Accepted"], FALSE, "syncStatus")
  /\ UNCHANGED <<requestVars, veleroVars, world, bounds>>

MarkCreated ==   \* and its condition BSLSynced and phase
  /\ pc = "markCreated" /\ Update([local EXCEPT !.phase = "Created"], FALSE, "syncStatus")
  /\ UNCHANGED <<requestVars, veleroVars, world, bounds>>

\* syncStatus: Velero renews the status of a BSL at each check, so it may have
\* changed or not
SyncStatus ==
  /\ pc = "syncStatus"
  /\ \/ Exit /\ UNCHANGED nabslVars
     \/ bslSeen[local.uuid] # NoSpec /\ Update(local, FALSE, "idle")
  /\ UNCHANGED <<requestVars, veleroVars, world, bounds>>

Step ==
  /\ Prompt
  /\ \/ MarkDelete \/ DeleteRequest \/ DeleteSecret \/ DeleteBSL \/ DeleteBackups
     \/ RemoveFinalizer
     \/ InitCreate \/ ValidateSpec \/ SetUUID \/ CreateRequest \/ ApproveRequest
     \/ InitRequest \/ SetFinalizer
     \/ Ensure \/ DropSecret \/ DropBSL \/ Refuse
     \/ SyncSecret \/ MarkSynced \/ CreateBSL \/ MarkCreated \/ SyncStatus

(***************************************************************************)
(* Failures, as in NonAdminBackup.  A restart reads the DPA again.         *)
(***************************************************************************)
CallFails ==
  /\ pc # "idle" /\ faults < MaxFaults
  /\ faults' = faults + 1
  /\ IF pc \in {"syncSecret", "createBSL"} THEN SyncFails ELSE Requeue /\ UNCHANGED nabslVars
  /\ UNCHANGED <<requestVars, veleroVars, world, edits, decisions>>

Restart ==
  /\ faults < MaxFaults
  /\ faults' = faults + 1
  /\ requireApproval' \in BOOLEAN
  /\ Return({n \in Names : nabsl[n].exists})
  /\ cache' = nabsl /\ requestSeen' = request /\ secretSeen' = secret /\ bslSeen' = bsl
  /\ cacheFresh' = [n \in Names |-> TRUE] /\ nabslEvent' = [n \in Names |-> FALSE]
  /\ requestEvent' = [u \in UUIDs |-> FALSE]
  /\ UNCHANGED <<nabsl, request, approved, secret, bsl, source, backups, owner, edits, decisions>>

(***************************************************************************)
(* Informers and handlers.                                                 *)
(***************************************************************************)
DeliverNABSL(n) ==
  /\ ~cacheFresh[n]
  /\ cache' = [cache EXCEPT ![n] = nabsl[n]]
  /\ cacheFresh' = [cacheFresh EXCEPT ![n] = TRUE]
  /\ nabslEvent' = [nabslEvent EXCEPT ![n] = FALSE]
  /\ queue' = IF nabslEvent[n] THEN queue \union {n} ELSE queue
  /\ UNCHANGED <<nabsl, requestVars, veleroVars, world, pc, cur, local, localFresh, bounds>>

DeliverRequest(u) ==
  /\ requestSeen[u] # request[u] \/ requestEvent[u]
  /\ requestSeen' = [requestSeen EXCEPT ![u] = request[u]]
  /\ requestEvent' = [requestEvent EXCEPT ![u] = FALSE]
  /\ queue' = IF requestEvent[u] THEN queue \union {owner[u]} ELSE queue
  /\ UNCHANGED <<nabslVars, request, approved, veleroVars, world, pc, cur, local, localFresh, bounds>>

\* Nobody is told of a Secret in the OADP namespace, nor of a BSL that comes or goes.
DeliverSecret(u) ==
  /\ (u \in secretSeen) # (u \in secret)
  /\ secretSeen' = IF u \in secret THEN secretSeen \union {u} ELSE secretSeen \ {u}
  /\ UNCHANGED <<nabslVars, requestVars, secret, bsl, bslSeen, world, workerVars, bounds>>
DeliverBSL(u) ==
  /\ bslSeen[u] # bsl[u]
  /\ bslSeen' = [bslSeen EXCEPT ![u] = bsl[u]]
  /\ UNCHANGED <<nabslVars, requestVars, secret, secretSeen, bsl, world, workerVars, bounds>>

\* Velero validates a BSL, again and again; the update event brings its NABSL
\* back, and the cache with it.
VeleroChecks(u) ==
  /\ bsl[u] # NoSpec /\ owner[u] \notin queue
  /\ bslSeen' = [bslSeen EXCEPT ![u] = bsl[u]]
  /\ queue' = queue \union {owner[u]}
  /\ UNCHANGED <<nabslVars, requestVars, secret, secretSeen, bsl, world, pc, cur, local, localFresh, bounds>>

(***************************************************************************)
(* The garbage collector, from the same caches.  It lists, looks the NABSL *)
(* up and deletes; the three are one step here, since what is an orphan    *)
(* stays one: a NACUUID is given out once, and the cache that no longer    *)
(* shows its NABSL shows it never again.  So a Delete that comes late is   *)
(* one whose lookup was made then.  A request that had no status when it   *)
(* was listed and has one when it is deleted is one the cache shows late.  *)
(***************************************************************************)
\* Mutant of Orphan: a NABSL that is terminating counts as gone.
OrphanOrLeaving(u) ==
  /\ CollectGarbage /\ owner[u] # NoName
  /\ ~cache[owner[u]].exists \/ cache[owner[u]].deletionTimestamp

Orphan(u) == CollectGarbage /\ owner[u] # NoName /\ ~cache[owner[u]].exists

\* Mutant of CollectSecret: the Secret goes with its BSL or not at all.
CollectSecretOfBSL(u) ==
  /\ Orphan(u) /\ u \in secretSeen \intersect secret /\ bslSeen[u] # NoSpec
  /\ secret' = secret \ {u}
  /\ UNCHANGED <<nabslVars, requestVars, secretSeen, bsl, bslSeen, world, workerVars, bounds>>

CollectSecret(u) ==
  /\ Orphan(u) /\ u \in secretSeen \intersect secret
  /\ secret' = secret \ {u}
  /\ UNCHANGED <<nabslVars, requestVars, secretSeen, bsl, bslSeen, world, workerVars, bounds>>
CollectBSL(u) ==
  /\ Orphan(u) /\ bslSeen[u] # NoSpec /\ bsl[u] # NoSpec
  /\ bsl' = [bsl EXCEPT ![u] = NoSpec]
  /\ UNCHANGED <<nabslVars, requestVars, secret, secretSeen, bslSeen, world, workerVars, bounds>>

\* A request without status, or of no NABSL; any request, if approval is not required.
CollectRequest(u) ==
  /\ CollectGarbage /\ requestSeen[u].exists /\ request[u].exists
  /\ ~requireApproval \/ requestSeen[u].spec = NoSpec \/ Orphan(u)
  /\ SetRequest(u, NoRequest)
  /\ UNCHANGED <<nabslVars, veleroVars, world, workerVars, bounds>>

Collector(u) == CollectSecret(u) \/ CollectBSL(u) \/ CollectRequest(u)

(***************************************************************************)
(* Users, the admin and the NonAdminBackup controller.                     *)
(***************************************************************************)
UserWrites(n, obj) ==
  /\ edits < MaxEdits /\ edits' = edits + 1
  /\ Changed(n, obj, TRUE)
  /\ localFresh' = (localFresh /\ cur # n)
  /\ UNCHANGED <<requestVars, veleroVars, world, queue, pc, cur, local, decisions, faults>>

CreateNABSL(n, spec) == ~nabsl[n].exists /\ UserWrites(n, NewNABSL(spec))
EditSpec(n, spec) ==
  /\ nabsl[n].exists /\ nabsl[n].spec # spec
  /\ UserWrites(n, [nabsl[n] EXCEPT !.spec = spec])
DeleteNABSL(n) ==
  /\ nabsl[n].exists /\ ~nabsl[n].deletionTimestamp
  /\ UserWrites(n, IF nabsl[n].finalizer THEN [nabsl[n] EXCEPT !.deletionTimestamp = TRUE]
                                         ELSE NoNABSL)

\* The secret handler enqueues the NABSLs whose credential a new Secret is; that
\* one goes is reported to nobody.
ChangeSource(n) ==
  /\ edits < MaxEdits /\ edits' = edits + 1
  /\ IF n \in source THEN source' = source \ {n} /\ UNCHANGED queue
     ELSE /\ source' = source \union {n}
          /\ queue' = IF cache[n].exists THEN queue \union {n} ELSE queue
  /\ UNCHANGED <<nabslVars, requestVars, veleroVars, backups, owner, requireApproval,
                 pc, cur, local, localFresh, decisions, faults>>

User(n) ==
  \/ \E spec \in Specs : CreateNABSL(n, spec) \/ EditSpec(n, spec)
  \/ DeleteNABSL(n) \/ ChangeSource(n)

Decide(u, decision) ==
  /\ request[u].exists /\ request[u].decision # decision
  /\ decisions < MaxDecisions /\ decisions' = decisions + 1
  /\ SetRequest(u, [request[u] EXCEPT !.decision = decision])
  /\ UNCHANGED <<nabslVars, veleroVars, world, workerVars, edits, faults>>
WithdrawRequest(u) ==
  /\ request[u].exists
  /\ decisions < MaxDecisions /\ decisions' = decisions + 1
  /\ SetRequest(u, NoRequest)
  /\ UNCHANGED <<nabslVars, veleroVars, world, workerVars, edits, faults>>
Admin(u) == WithdrawRequest(u) \/ \E decision \in Decisions : Decide(u, decision)

\* Mutant of AcceptBackup: whether the BSL is there is not looked up.
AcceptWithoutBSL(n) ==
  /\ Prompt
  /\ cache[n].phase = "Created" /\ n \notin backups
  /\ backups' = backups \union {n}
  /\ UNCHANGED <<nabslVars, requestVars, veleroVars, source, owner, requireApproval, workerVars, bounds>>

\* ValidateBackupSpec accepts a NonAdminBackup that names a NABSL, from the caches:
\* the NABSL is Created and its BSL is there (whether it is Available is left
\* open).  DeleteBackups deletes the NonAdminBackups.
AcceptBackup(n) ==
  /\ Prompt
  /\ cache[n].phase = "Created" /\ cache[n].uuid # NoUUID /\ bslSeen[cache[n].uuid] # NoSpec
  /\ n \notin backups
  /\ backups' = backups \union {n}
  /\ UNCHANGED <<nabslVars, requestVars, veleroVars, source, owner, requireApproval, workerVars, bounds>>

Next ==
  \/ \E n \in Names : Reconcile(n) \/ DeliverNABSL(n) \/ User(n) \/ AcceptBackup(n)
  \/ \E u \in UUIDs : \/ DeliverRequest(u) \/ DeliverSecret(u) \/ DeliverBSL(u)
                      \/ VeleroChecks(u) \/ Collector(u) \/ Admin(u)
  \/ Step
  \/ CallFails
  \/ Restart

Spec == Init /\ [][Next]_vars

Fairness ==
  /\ WF_vars(Step)
  /\ \A n \in Names : SF_vars(Reconcile(n)) /\ WF_vars(DeliverNABSL(n))
  /\ \A u \in UUIDs : /\ WF_vars(DeliverRequest(u)) /\ WF_vars(DeliverSecret(u))
                      /\ WF_vars(DeliverBSL(u)) /\ WF_vars(VeleroChecks(u))
                      /\ WF_vars(CollectSecret(u)) /\ WF_vars(CollectBSL(u))
                      /\ WF_vars(CollectRequest(u))
FairSpec == Spec /\ Fairness

(***************************************************************************)
(* Safety.                                                                 *)
(***************************************************************************)

\* Velero is given nothing the admin was not shown: the spec of a BSL was, at
\* some time, the spec of its approved request.  The worker decides by a NABSL
\* and a request that may both be old, while users edit the one and the admin
\* decides about, withdraws or loses the other.
BSLWasApproved ==
  \A u \in UUIDs : bsl[u] # NoSpec => bsl[u] \in approved[u]

\* A Secret or a BSL is created only for a NABSL that is stored with its NACUUID
\* and its finalizer ("add it before creating Velero BackupStorageLocation and
\* relevant secret to ensure we won't risk having orphant resources").
CreatedForNABSL ==
  [][\A u \in UUIDs :
       (u \in secret' \ secret) \/ (bsl[u] = NoSpec /\ bsl'[u] # NoSpec)
         => nabsl[owner[u]].uuid = u /\ nabsl[owner[u]].finalizer]_vars

\* A NABSL goes away with its NonAdminBackups deleted.  The phase Deleting does not
\* keep new ones out, since ValidateBackupSpec may read an older copy: it is the
\* BSL, gone before deleteNonAdminBackups looks, that does, where the cache of
\* BSLs keeps up.
BackupsGoFirst ==
  [][\A n \in Names : nabsl[n].finalizer /\ ~nabsl'[n].exists => n \notin backups]_vars

\* What a stored NABSL has is taken away by its own reconcile or not at all: the
\* collector tells an orphan by what its cache of NABSLs lacks, however old that
\* is and however recent the Secret or the BSL.
CollectorSparesStored ==
  [][\A n \in Names, u \in UUIDs :
       /\ nabsl[n].uuid = u
       /\ (u \in secret \ secret') \/ (bsl[u] # NoSpec /\ bsl'[u] = NoSpec)
       => cur = n]_vars

\* What all of this is for, as LocationLifecycle states it: a NABSL is identified
\* once, then held, and only then given to Velero and used, until nobody does
\* (where the cache of BSLs keeps up: BackupsGoFirst).
Life(obj) == IF ~obj.exists THEN "none"
             ELSE IF ~obj.finalizer THEN "open"
             ELSE IF obj.deletionTimestamp THEN "leaving" ELSE "held"
Location == INSTANCE LocationLifecycle
              WITH life       <- [n \in Names |-> Life(nabsl[n])],
                   id         <- [n \in Names |-> nabsl[n].uuid],
                   given      <- {u \in UUIDs : owner[u] # NoName},
                   granted    <- approved,
                   location   <- bsl,
                   credential <- secret,
                   users      <- backups
LocationKept == Location!Spec

(***************************************************************************)
(* Liveness.                                                               *)
(***************************************************************************)

\* A NABSL being deleted goes.
DeletionCompletes ==
  \A n \in Names : nabsl[n].deletionTimestamp ~> ~nabsl[n].deletionTimestamp

\* The NABSL of u is as it was requested and can be validated.
Sound(u) ==
  LET n == owner[u] IN
  /\ n \in source /\ nabsl[n].uuid = u /\ ~nabsl[n].deletionTimestamp
  /\ request[u].exists /\ request[u].spec = nabsl[n].spec

\* An approval that is withdrawn takes the BSL away: a cache that did not show
\* the BSL when the decision came is made good by the next check of Velero.
RevocationTakesEffect ==
  \A u \in UUIDs :
    LET revoked == Sound(u) /\ requireApproval /\ bsl[u] # NoSpec /\ request[u].decision # "approve"
    IN revoked ~> ~revoked

\* What a deletion missed, its caches being old, the garbage collector finds.
OrphansCollected ==
  \A u \in UUIDs :
    LET orphaned == (bsl[u] # NoSpec \/ u \in secret) /\ ~nabsl[owner[u]].exists
    IN orphaned ~> ~orphaned

(***************************************************************************)
(* What documents and comments say.                                        *)
(***************************************************************************)

\* An approved NABSL gets its BSL ("For the approved NonAdmin BSL the workflow is
\* continued ... Controller creates a Velero BSL resource in the OADP namespace").
ApprovedIsCreated ==
  \A u \in UUIDs :
    LET waiting == Sound(u) /\ request[u].decision = "approve" /\ bsl[u] = NoSpec
    IN waiting ~> ~waiting

\* A request without status gets it ("Requeue instead of terminal error - allows
\* initialization to complete").
RequestInitialised ==
  \A u \in UUIDs :
    LET blank == /\ request[u].exists /\ request[u].spec = NoSpec
                 /\ nabsl[owner[u]].uuid = u /\ ~nabsl[owner[u]].deletionTimestamp
    IN blank ~> ~blank
=============================================================================
