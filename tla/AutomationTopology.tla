------------------------- MODULE AutomationTopology -------------------------
(***************************************************************************)
(* How the automation service keeps its routes, its command writer and its *)
(* PointWatch index on one generation                                      *)
(* (services/automation/src/infra/runtime_topology.rs, action_routing.rs,  *)
(* measurement_routing.rs, application_control.rs, rule_runtime.rs and     *)
(* libs/aether-shm-bridge/src/command_sink.rs).                            *)
(*                                                                         *)
(* Everything that replaces the current generation holds the refresh gate, *)
(* so one `updater` stands for whoever holds it: a routing mutation (which *)
(* revokes the routes, runs its SQLite transaction and publishes), a       *)
(* refresh, or the publication of an instance configuration.  A command    *)
(* and a PointWatch reload hold the read side of the command gate; the     *)
(* critical sections under its write side contain no await and are single  *)
(* steps, enabled when nobody holds the read side.                         *)
(*                                                                         *)
(* IO is another process: it changes the physical configuration in SQLite  *)
(* and replaces the point plane under the exclusive authority lease        *)
(* (ShmTopologyPublication has the details), here in one step.             *)
(***************************************************************************)
EXTENDS Integers, FiniteSets

CONSTANTS
  Commands,         \* command transactions
  Actions,          \* physical targets of the one logical action point
  Measurements,     \* physical sources of the one logical measurement point
  Layouts,          \* layout hashes of the physical manifests
  None,             \* no route, no generation, no sequence
  Failures,         \* whether storage and mapping operations may fail
  MaxDisturbances   \* bound on mutations, IO changes and publications, rule reloads
                    \* and failing operations, taken together

ASSUME BoundsAssumption == MaxDisturbances \in Nat /\ Failures \in BOOLEAN

ASSUME NoneAssumption == None \notin Actions \cup Measurements \cup Nat

VARIABLES
  db,          \* SQLite: the routes and the physical configuration
  plane,       \* the canonical point plane and whether its pair is committed
  current,     \* AutomationTopologyHandle.current
  sink,        \* ShmDeviceCommandSink.generations.current
  sequence,    \* change_sequence
  updater,     \* the task that holds the refresh gate
  command,     \* command[c]: the state of dispatch_inner and sink.send
  pointWatch,  \* the PointWatch runtime and its reload
  watched,     \* the inode the canonical-path watcher saw last
  disturbances \* how many bounded steps were taken

vars == <<db, plane, current, sink, sequence, updater, command, pointWatch,
          watched, disturbances>>

ActionRoutes == Actions \cup {None}
MeasurementRoutes == Measurements \cup {None}

Snapshots ==
  [action : ActionRoutes, measurement : MeasurementRoutes, layout : Layouts,
   sound : BOOLEAN]

(***************************************************************************)
(* One AutomationTopologyGeneration: the SQLite snapshot it was composed   *)
(* from, the publication its read view is pinned to (0: lazy), and which   *)
(* routes have been revoked since.                                         *)
(***************************************************************************)
Generations ==
  [sequence : Nat, loaded : Snapshots, read : Nat, validated : BOOLEAN,
   measurementRevoked : BOOLEAN, actionRevoked : BOOLEAN]

CommandGenerations == [plane : Nat, layout : Layouts]

ActionRoute(g) == IF g.actionRevoked THEN None ELSE g.loaded.action

MeasurementRoute(g) == IF g.measurementRevoked THEN None ELSE g.loaded.measurement

\* What rebuild_point_watch derives from a generation.
IndexOf(g) == [measurement |-> MeasurementRoute(g), layout |-> g.loaded.layout]

Revoked(g) == g.actionRevoked \/ g.measurementRevoked

UpdaterKinds == {"none", "action", "measurement", "refresh", "configuration"}

Updaters ==
  [pc : {"free", "revoking", "staging", "restoring", "committing", "loading",
         "evaluating", "composing", "opening", "publishing", "revoking_actions"},
   kind : UpdaterKinds,
   armed : BOOLEAN,        \* restore_generation is Some
   previous : Generations \cup {None}, \* the generation it would restore
   parts : Snapshots \cup {None},         \* the staged rows, then the loaded snapshot
   read : Nat,             \* the publication the candidate was opened on
   sequence : Nat]         \* the candidate's sequence

CommandStates ==
  [pc : {"idle", "decided", "routed", "leasing", "mirrored", "sent"},
   view : Generations \cup {None},        \* the pinned generation
   fence : Nat \cup {None},               \* the expected sequence
   intent : ActionRoutes,                 \* the route when the rule decided
   target : ActionRoutes,                 \* the routed physical target
   writer : CommandGenerations \cup {None}]

PointWatches ==
  [pc : {"idle", "reloading"},
   view : Generations \cup {None},
   ready : Nat \cup {None},
   index : [measurement : MeasurementRoutes, layout : Layouts] \cup {None},
   pending : BOOLEAN]                     \* startup, or an unseen topology change

TypeOK ==
  /\ db \in Snapshots
  /\ plane \in [id : Nat, layout : Layouts, committed : BOOLEAN]
  /\ current \in Generations
  /\ sink \in CommandGenerations \cup {None}
  /\ sequence \in Nat
  /\ updater \in Updaters
  /\ command \in [Commands -> CommandStates]
  /\ pointWatch \in PointWatches
  /\ watched \in Nat
  /\ disturbances \in 0 .. MaxDisturbances

(***************************************************************************)
(* new_lazy: the generation of the SQLite snapshot, no SHM file opened.    *)
(***************************************************************************)
LazyGeneration(snapshot) ==
  [sequence |-> 0, loaded |-> snapshot, read |-> 0, validated |-> FALSE,
   measurementRevoked |-> FALSE, actionRevoked |-> FALSE]

FreeUpdater ==
  [pc |-> "free", kind |-> "none", armed |-> FALSE, previous |-> None,
   parts |-> None, read |-> 0, sequence |-> 0]

IdleCommand ==
  [pc |-> "idle", view |-> None, fence |-> None, intent |-> None,
   target |-> None, writer |-> None]

\* Layouts are only compared, so it does not matter which one is the first.
FirstLayout == CHOOSE layout \in Layouts : TRUE

Init ==
  /\ db \in {s \in Snapshots : s.sound /\ s.layout = FirstLayout}
  /\ plane \in {[id |-> 0, layout |-> db.layout, committed |-> FALSE],
               [id |-> 1, layout |-> db.layout, committed |-> TRUE]}
  /\ current = LazyGeneration(db)
  /\ sink = None
  /\ sequence = 0
  /\ updater = FreeUpdater
  /\ command = [c \in Commands |-> IdleCommand]
  /\ pointWatch = [pc |-> "idle", view |-> None, ready |-> None, index |-> None,
                   pending |-> TRUE]
  /\ watched = plane.id
  /\ disturbances = 0

\* A step that is bounded.
Disturb ==
  /\ disturbances < MaxDisturbances
  /\ disturbances' = disturbances + 1

\* Mutant: publication does not wait for the commands.
CommandGateIgnored == pointWatch.pc = "idle"

\* Nobody holds the read side of the command gate.
CommandGateFree ==
  /\ \A c \in Commands : command[c].pc \in {"idle", "decided"}
  /\ pointWatch.pc = "idle"

\* notify_change: the watch channel holds an unseen value.
NotifyChange == pointWatch' = [pointWatch EXCEPT !.pending = TRUE]

-----------------------------------------------------------------------------
(***************************************************************************)
(* Routing mutations.  begin_routing_mutation takes the refresh gate, then *)
(* revokes the routes of its plane under the command gate.                 *)
(***************************************************************************)
BeginMutation(kind) ==
  /\ updater.pc = "free"
  /\ Disturb
  /\ updater' = [FreeUpdater EXCEPT !.pc = "revoking", !.kind = kind]
  /\ UNCHANGED <<db, plane, current, sink, sequence, command, pointWatch, watched>>

\* Mutant: the wrong plane is revoked.
OtherRoutesRevoked(kind, number) ==
  IF kind = "action"
    THEN [current EXCEPT !.measurementRevoked = TRUE, !.sequence = number]
    ELSE [current EXCEPT !.actionRevoked = TRUE, !.sequence = number]

WithRoutesRevoked(kind, number) ==
  IF kind = "measurement"
    THEN [current EXCEPT !.measurementRevoked = TRUE, !.sequence = number]
    ELSE [current EXCEPT !.actionRevoked = TRUE, !.sequence = number]

AlreadyRevoked(kind) ==
  IF kind = "measurement" THEN current.measurementRevoked ELSE current.actionRevoked

\* revoke_measurement_routes_locked and revoke_action_routes_locked
RevokeRoutes(kind) ==
  IF AlreadyRevoked(kind)
    THEN UNCHANGED <<current, sequence, pointWatch>>
    ELSE /\ sequence' = sequence + 1
         /\ current' = WithRoutesRevoked(kind, sequence + 1)
         /\ NotifyChange

Revoke ==
  /\ updater.pc = "revoking"
  /\ CommandGateFree
  /\ RevokeRoutes(updater.kind)
  /\ updater' = [updater EXCEPT !.pc = "staging",
                                !.armed = ~AlreadyRevoked(updater.kind),
                                !.previous = IF AlreadyRevoked(updater.kind)
                                               THEN None ELSE current]
  /\ UNCHANGED <<db, plane, sink, command, watched,
                 disturbances>>

(***************************************************************************)
(* The transaction is staged: the rows it will commit.  commit_started     *)
(* disarms the restoration before the commit is attempted.                 *)
(***************************************************************************)
Stage ==
  /\ updater.pc = "staging"
  /\ \E rows \in Snapshots :
       /\ rows.layout = db.layout /\ rows.sound = db.sound
       /\ updater.kind = "action" => rows.measurement = db.measurement
       /\ updater.kind = "measurement" => rows.action = db.action
       /\ updater' = [updater EXCEPT !.pc = "committing", !.parts = rows,
                                     !.armed = FALSE, !.previous = None]
  /\ UNCHANGED <<db, plane, current, sink, sequence, command, pointWatch, watched,
                 disturbances>>

\* A stale revision, an invalid target, a storage error or a dropped request.
StageFails ==
  /\ updater.pc = "staging"
  /\ updater' = IF updater.armed THEN [updater EXCEPT !.pc = "restoring"] ELSE FreeUpdater
  /\ UNCHANGED <<db, plane, current, sink, sequence, command, pointWatch, watched,
                 disturbances>>

\* restore_revoked_generation, awaited or spawned by the lease's Drop.
Restore ==
  /\ updater.pc = "restoring"
  /\ CommandGateFree
  /\ current' = updater.previous
  /\ NotifyChange
  /\ updater' = FreeUpdater
  /\ UNCHANGED <<db, plane, sink, sequence, command, watched,
                 disturbances>>

\* The rows of the staged plane; IO's physical rows are not the transaction's.
Committed ==
  [db EXCEPT !.action = updater.parts.action, !.measurement = updater.parts.measurement]

Commit ==
  /\ updater.pc = "committing"
  /\ db' = Committed
  /\ updater' = [updater EXCEPT !.pc = "loading", !.parts = None]
  /\ UNCHANGED <<plane, current, sink, sequence, command, pointWatch, watched,
                 disturbances>>

\* A commit whose outcome is unknown, or a request dropped while it runs.
CommitFails ==
  /\ updater.pc = "committing"
  /\ db' \in {db, Committed}
  /\ updater' = FreeUpdater
  /\ UNCHANGED <<plane, current, sink, sequence, command, pointWatch, watched,
                 disturbances>>

-----------------------------------------------------------------------------
(***************************************************************************)
(* refresh (periodic, or asked for by a stale command writer) and          *)
(* refresh_or_revoke_commands (after an instance configuration committed). *)
(***************************************************************************)
BeginRefresh(kind) ==
  /\ updater.pc = "free"
  /\ updater' = [FreeUpdater EXCEPT !.pc = "loading", !.kind = kind]
  /\ UNCHANGED <<db, plane, current, sink, sequence, command, pointWatch, watched,
                 disturbances>>

\* refresh revokes commands for invalid data only, the configuration always.
AfterFailure(invalid) ==
  IF updater.kind = "configuration" \/ (updater.kind = "refresh" /\ invalid)
    THEN [FreeUpdater EXCEPT !.pc = "revoking_actions", !.kind = updater.kind]
    ELSE FreeUpdater

RevokeActions ==
  /\ updater.pc = "revoking_actions"
  /\ CommandGateFree
  /\ RevokeRoutes("action")
  /\ updater' = FreeUpdater
  /\ UNCHANGED <<db, plane, sink, command, watched,
                 disturbances>>

\* load_sqlite_live_topology reads one transaction's view of SQLite.
Load ==
  /\ updater.pc = "loading"
  /\ updater' = IF db.sound
                  THEN [updater EXCEPT !.pc = "evaluating", !.parts = db]
                  ELSE AfterFailure(TRUE)
  /\ UNCHANGED <<db, plane, current, sink, sequence, command, pointWatch, watched,
                 disturbances>>

LoadFails ==
  /\ updater.pc = "loading"
  /\ Failures /\ Disturb
  /\ updater' = AfterFailure(FALSE)
  /\ UNCHANGED <<db, plane, current, sink, sequence, command, pointWatch, watched>>

\* validate_layouts: the pinned publication is still the committed one.
PhysicalCurrent ==
  current.validated /\ plane.committed /\ plane.id = current.read

PhysicalChanged == updater.parts.layout # current.loaded.layout

\* Mutant: a revoked generation of the same digest counts as unchanged.
DigestChanged == updater.parts # current.loaded

LogicalChanged == updater.parts # current.loaded \/ Revoked(current)

PublishesConfiguration == updater.kind # "refresh"

\* The generation is on the committed planes and has its command writer.
Available == PhysicalCurrent /\ sink # None

KeepsCurrent ==
  ~PhysicalChanged /\ ~LogicalChanged /\ (PublishesConfiguration \/ Available)

\* A routing-only change: accepted on the pinned planes, or before IO is up.
ReplacesRoutes ==
  ~PhysicalChanged /\ LogicalChanged /\ (Available \/ ~current.validated)

\* refresh_locked: what the loaded snapshot calls for.
Evaluate ==
  /\ updater.pc = "evaluating"
  /\ \/ /\ KeepsCurrent
        /\ updater' = FreeUpdater
        /\ UNCHANGED sequence
     \/ /\ ReplacesRoutes
        /\ sequence' = sequence + 1
        /\ updater' = [updater EXCEPT !.pc = "composing", !.sequence = sequence + 1]
     \/ /\ ~KeepsCurrent /\ ~ReplacesRoutes
        /\ updater' = [updater EXCEPT !.pc = "opening"]
        /\ UNCHANGED sequence
  /\ UNCHANGED <<db, plane, current, sink, command, pointWatch, watched,
                 disturbances>>

Candidate(read, validated) ==
  [sequence |-> updater.sequence, loaded |-> updater.parts, read |-> read,
   validated |-> validated, measurementRevoked |-> FALSE, actionRevoked |-> FALSE]

\* A routing-only replacement keeps the read view and the command writer.
PublishLogical ==
  /\ updater.pc = "composing"
  /\ CommandGateFree
  /\ current' = Candidate(current.read, current.validated)
  /\ NotifyChange
  /\ updater' = FreeUpdater
  /\ UNCHANGED <<db, plane, sink, sequence, command, watched,
                 disturbances>>

\* refresh_locked: `changed`, which decides on a new sequence and a notification.
Changed == LogicalChanged \/ PhysicalChanged \/ ~current.validated

(***************************************************************************)
(* ShmReadTopologyGeneration::open validates and pins the committed pair   *)
(* of the loaded layout.                                                   *)
(***************************************************************************)
Open ==
  /\ updater.pc = "opening"
  /\ IF plane.committed /\ plane.layout = updater.parts.layout
       THEN LET number == IF Changed THEN sequence + 1 ELSE current.sequence IN
            /\ sequence' = IF Changed THEN sequence + 1 ELSE sequence
            /\ updater' = [updater EXCEPT !.pc = "publishing", !.read = plane.id,
                                          !.sequence = number]
       ELSE UNCHANGED sequence /\ updater' = AfterFailure(FALSE)
  /\ UNCHANGED <<db, plane, current, sink, command, pointWatch, watched,
                 disturbances>>

(***************************************************************************)
(* with_validated_authority under the command gate: the pinned publication *)
(* is still committed, the command writer is opened on it and both are     *)
(* stored; otherwise nothing is.                                           *)
(***************************************************************************)
PublishPhysical ==
  /\ updater.pc = "publishing"
  /\ CommandGateFree
  /\ IF plane.committed /\ plane.id = updater.read
       THEN /\ sink' = [plane |-> plane.id, layout |-> updater.parts.layout]
            /\ current' = Candidate(updater.read, TRUE)
            /\ IF Changed THEN NotifyChange ELSE UNCHANGED pointWatch
            /\ updater' = FreeUpdater
       ELSE /\ updater' = AfterFailure(FALSE)
            /\ UNCHANGED <<current, sink, pointWatch>>
  /\ UNCHANGED <<db, plane, sequence, command, watched,
                 disturbances>>

\* The command writer cannot be mapped.
PublishPhysicalFails ==
  /\ updater.pc = "publishing"
  /\ CommandGateFree
  /\ Failures /\ Disturb
  /\ updater' = AfterFailure(FALSE)
  /\ UNCHANGED <<db, plane, current, sink, sequence, command, pointWatch, watched>>

\* The request behind a mutation or a configuration is dropped at an await.
Cancel ==
  /\ updater.kind # "refresh"
  /\ updater.pc \in {"revoking", "loading", "composing", "opening", "publishing",
                     "revoking_actions"}
  /\ Failures /\ Disturb
  /\ updater' = FreeUpdater
  /\ UNCHANGED <<db, plane, current, sink, sequence, command, pointWatch, watched>>

-----------------------------------------------------------------------------
(***************************************************************************)
(* A command.  A rule decides under the current generation and fences its  *)
(* command with that sequence; the other requests are not fenced.          *)
(***************************************************************************)
Decide(c) ==
  /\ command[c].pc = "idle"
  /\ command' = [command EXCEPT ![c] =
       [IdleCommand EXCEPT !.pc = "decided", !.fence = current.sequence,
                           !.intent = ActionRoute(current)]]
  /\ UNCHANGED <<db, plane, current, sink, sequence, updater, pointWatch, watched,
                 disturbances>>

Finish(c) == command' = [command EXCEPT ![c] = IdleCommand]

\* Mutant: the fence is not compared.
FenceIgnored(c) == TRUE

\* validate_command_topology_fence
FenceHolds(c) == command[c].fence \in {None, current.sequence}

\* dispatch_inner: pin_command, the fence, and the route of the pinned generation.
Dispatch(c) ==
  /\ command[c].pc \in {"idle", "decided"}
  /\ IF FenceHolds(c) /\ ActionRoute(current) # None
       THEN command' = [command EXCEPT ![c].pc = "routed", ![c].view = current,
                                       ![c].target = ActionRoute(current)]
       ELSE Finish(c)
  /\ UNCHANGED <<db, plane, current, sink, sequence, updater, pointWatch, watched,
                 disturbances>>

\* Limits, channel health, expiry, the lease or the transport end a command.
Reject(c) ==
  /\ command[c].pc \in {"routed", "leasing", "mirrored", "sent"}
  /\ Finish(c)
  /\ UNCHANGED <<db, plane, current, sink, sequence, updater, pointWatch, watched,
                 disturbances>>

\* send: current_generation
TakeGeneration(c) ==
  /\ command[c].pc = "routed"
  /\ IF sink = None
       THEN Finish(c)
       ELSE command' = [command EXCEPT ![c].pc = "leasing", ![c].writer = sink]
  /\ UNCHANGED <<db, plane, current, sink, sequence, updater, pointWatch, watched,
                 disturbances>>

\* validate_authority
AuthorityValid(c) == sink = command[c].writer /\ plane.id = command[c].writer.plane

\* invalidate_stale_generation
InvalidateStale(c) ==
  sink' = IF sink = command[c].writer THEN None ELSE sink

\* One phase of send goes on if the authority is valid.
Phase(c, from, after) ==
  /\ command[c].pc = from
  /\ IF AuthorityValid(c)
       THEN command' = [command EXCEPT ![c] = after] /\ UNCHANGED sink
       ELSE Finish(c) /\ InvalidateStale(c)
  /\ UNCHANGED <<db, plane, current, sequence, updater, pointWatch, watched,
                 disturbances>>

\* The shared authority lease is taken, and held up to the receipt.
Mirror(c) == Phase(c, "leasing", [command[c] EXCEPT !.pc = "mirrored"])

Transport(c) == Phase(c, "mirrored", [command[c] EXCEPT !.pc = "sent"])

Receipt(c) == Phase(c, "sent", IdleCommand)

-----------------------------------------------------------------------------
(***************************************************************************)
(* The canonical-path watcher compares inodes, and invalidates the command *)
(* writer when a known inode was replaced, also one opened since.          *)
(***************************************************************************)
Watch ==
  /\ watched # plane.id
  /\ watched' = plane.id
  /\ sink' = IF watched = 0 THEN sink ELSE None
  /\ UNCHANGED <<db, plane, current, sequence, updater, command, pointWatch, disturbances>>

(***************************************************************************)
(* IO commits another physical configuration, possibly one the loader      *)
(* rejects; routed points cannot be removed (the triggers of schema.rs).   *)
(***************************************************************************)
ChangePhysical ==
  /\ Disturb
  /\ \E layout \in Layouts, sound \in BOOLEAN :
       db' = [db EXCEPT !.layout = layout, !.sound = sound]
  /\ UNCHANGED <<plane, current, sink, sequence, updater, command, pointWatch, watched>>

\* IO replaces the planes under the exclusive authority lease.
LeaseFree ==
  \A c \in Commands : command[c].pc \notin {"mirrored", "sent"}

Publish ==
  /\ LeaseFree
  /\ Disturb
  /\ plane' = [id |-> plane.id + 1, layout |-> db.layout, committed |-> TRUE]
  /\ UNCHANGED <<db, current, sink, sequence, updater, command, pointWatch, watched>>

\* A publication that stops before the commit, with or without a new point plane.
PublishFails ==
  /\ plane.id > 0
  /\ LeaseFree
  /\ Disturb
  /\ plane' \in {[plane EXCEPT !.committed = FALSE],
                 [id |-> plane.id + 1, layout |-> db.layout, committed |-> FALSE]}
  /\ UNCHANGED <<db, current, sink, sequence, updater, command, pointWatch, watched>>

-----------------------------------------------------------------------------
(***************************************************************************)
(* RuleRuntimeCoordinator::reload: at startup, after a topology change, or *)
(* for a rule mutation; it pins the generation and closes PointWatch.      *)
(***************************************************************************)
BeginReload(pending) ==
  pointWatch' = [pointWatch EXCEPT !.pc = "reloading", !.view = current,
                                   !.ready = None, !.pending = pending]

StartReload ==
  /\ pointWatch.pc = "idle" /\ pointWatch.pending
  /\ BeginReload(FALSE)
  /\ UNCHANGED <<db, plane, current, sink, sequence, updater, command, watched,
                 disturbances>>

ReloadRules ==
  /\ pointWatch.pc = "idle"
  /\ Disturb
  /\ BeginReload(pointWatch.pending)
  /\ UNCHANGED <<db, plane, current, sink, sequence, updater, command, watched>>

EndReload(ready) == [pointWatch EXCEPT !.pc = "idle", !.view = None, !.ready = ready]

\* The rules cannot be loaded.
ReloadFails ==
  /\ pointWatch.pc = "reloading"
  /\ Failures /\ Disturb
  /\ pointWatch' = EndReload(None)
  /\ UNCHANGED <<db, plane, current, sink, sequence, updater, command, watched>>

\* PointWatch opens when the sink's manifest is the generation's.
ManifestMatches ==
  sink # None /\ sink.layout = pointWatch.view.loaded.layout

\* rebuild_point_watch, then the decision to open.
FinishReload ==
  /\ pointWatch.pc = "reloading"
  /\ pointWatch' =
       [EndReload(IF ManifestMatches THEN pointWatch.view.sequence ELSE None)
          EXCEPT !.index = IndexOf(pointWatch.view)]
  /\ UNCHANGED <<db, plane, current, sink, sequence, updater, command, watched,
                 disturbances>>

-----------------------------------------------------------------------------
UpdaterStep ==
  \/ Revoke \/ Stage \/ StageFails \/ Restore \/ Commit \/ CommitFails
  \/ RevokeActions \/ Load \/ LoadFails \/ Evaluate \/ PublishLogical \/ Open
  \/ PublishPhysical \/ PublishPhysicalFails \/ Cancel

SendStep(c) ==
  \/ Reject(c) \/ TakeGeneration(c) \/ Mirror(c) \/ Transport(c) \/ Receipt(c)

ReloadStep == StartReload \/ ReloadFails \/ FinishReload

Next ==
  \/ \E kind \in {"action", "measurement"} : BeginMutation(kind)
  \/ \E kind \in {"refresh", "configuration"} : BeginRefresh(kind)
  \/ UpdaterStep
  \/ \E c \in Commands : Decide(c) \/ Dispatch(c) \/ SendStep(c)
  \/ Watch \/ ChangePhysical \/ Publish \/ PublishFails
  \/ ReloadRules \/ ReloadStep

Spec == Init /\ [][Next]_vars

(***************************************************************************)
(* Fairness.  Every task runs on; refresh is called again and again by its *)
(* interval and takes the refresh gate in its turn (tokio's Mutex is       *)
(* FIFO), and a task waiting for the write side of the command gate gets   *)
(* it (tokio's RwLock queues fairly, and every command ends by its         *)
(* deadline).  Nothing is assumed of IO, requests or failures.             *)
(***************************************************************************)
Fairness ==
  /\ SF_vars(BeginRefresh("refresh"))
  /\ WF_vars(Load \/ Evaluate \/ Open \/ Stage \/ StageFails \/ Commit \/ CommitFails)
  /\ SF_vars(Revoke \/ RevokeActions \/ Restore \/ PublishLogical \/ PublishPhysical)
  /\ \A c \in Commands : WF_vars(SendStep(c))
  /\ WF_vars(ReloadStep)

FairSpec == Spec /\ Fairness

-----------------------------------------------------------------------------
(***************************************************************************)
(* The routes automation resolves with are those SQLite has, or none: the  *)
(* revocation before the transaction, the restoration when it failed and   *)
(* the disarmed restoration when its outcome is unknown keep a route that  *)
(* was changed from being used again.                                      *)
(***************************************************************************)
RoutesNeverStale ==
  /\ ActionRoute(current) \in {None, db.action}
  /\ MeasurementRoute(current) \in {None, db.measurement}

(***************************************************************************)
(* A command that is on its way to its device goes where SQLite routes it: *)
(* a mutation waits for the commands that were pinned before it, so no     *)
(* command uses an old route during the commit-to-publish window.          *)
(***************************************************************************)
CommandsFollowCommittedRoutes ==
  \A c \in Commands : command[c].target \in {None, db.action}

(***************************************************************************)
(* A command is mirrored and sent on the canonical plane, with a writer of *)
(* the layout its route was composed from: the lease keeps IO from         *)
(* replacing the plane, and the writer is not older than the plane.        *)
(***************************************************************************)
CommandsOnCanonicalPlane ==
  \A c \in Commands : command[c].pc \in {"mirrored", "sent"} =>
    /\ command[c].writer.plane = plane.id
    /\ command[c].writer.layout = command[c].view.loaded.layout

(***************************************************************************)
(* A rule's command goes to the target the point had when the rule         *)
(* decided, also when generations came and went in between and a restored  *)
(* one brought its old sequence back.                                      *)
(***************************************************************************)
FencedCommandsKeepTheirDecision ==
  \A c \in Commands :
    command[c].fence # None => command[c].target \in {None, command[c].intent}

(***************************************************************************)
(* accepts_point_watch: a hint is only accepted when the subscription      *)
(* index was built from the generation that interprets the hint.           *)
(***************************************************************************)
HintsUseTheirGeneration ==
  pointWatch.ready = current.sequence => pointWatch.index = IndexOf(current)

(***************************************************************************)
(* Once IO has published the configuration SQLite has, and it is sound,    *)
(* refresh brings routes, planes and command writer up to date for good.   *)
(***************************************************************************)
IOSettled == plane.committed /\ plane.layout = db.layout /\ db.sound

Reconciled ==
  /\ ~Revoked(current) /\ current.loaded = db
  /\ current.validated /\ current.read = plane.id
  /\ sink = [plane |-> plane.id, layout |-> db.layout]

TopologyReconciles == <>[]IOSettled => <>[]Reconciled

(***************************************************************************)
(* A command is on its way to its device only along a route SQLite has and *)
(* on the canonical plane.                                                 *)
(***************************************************************************)
CommandsWellRouted == TypeOK /\ CommandsFollowCommittedRoutes /\ CommandsOnCanonicalPlane

(***************************************************************************)
(* A fenced command and an accepted hint are interpreted by the generation *)
(* they were made for.                                                     *)
(***************************************************************************)
GenerationsFenced == FencedCommandsKeepTheirDecision /\ HintsUseTheirGeneration
=============================================================================
