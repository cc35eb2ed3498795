---------------------- MODULE AutomationTopologyProofs ----------------------
(***************************************************************************)
(* Proofs, for every set of commands, routes and layouts and every bound   *)
(* on disturbances, that automation's commands go along committed routes   *)
(* on the canonical plane and that a fenced command or an accepted hint is *)
(* interpreted by the generation it was made for.                          *)
(*                                                                         *)
(* The inductive invariant adds what the gates protect.  A command that    *)
(* holds the command gate, and a reload that does, have the current        *)
(* generation pinned (CommandInv, IInv).  Whoever holds the refresh gate   *)
(* knows what it revoked, loaded or may restore (MutationInv, RestoreInv,  *)
(* CandidateInv).  And a sequence number is the name of one generation:    *)
(* what was decided or indexed under the number of the current one, or of  *)
(* one that may be restored, agrees with it, and a candidate has a number  *)
(* nobody has seen (Agrees, Unused).                                       *)
(***************************************************************************)
EXTENDS AutomationTopology, TLAPS

Sending == {"routed", "leasing", "mirrored", "sent"}
Waiting == {"idle", "decided"}

\* Nothing was decided, indexed or published under the number n.
Unused(n) ==
  /\ current.sequence < n
  /\ \A c \in Commands : command[c].fence # None => command[c].fence < n
  /\ pointWatch.ready # None => pointWatch.ready < n

\* What was decided or indexed under the number of g is what g says.
Agrees(g) ==
  /\ \A c \in Commands :
       command[c].pc = "decided" /\ command[c].fence = g.sequence => command[c].intent = ActionRoute(g)
  /\ pointWatch.ready = g.sequence => pointWatch.index = IndexOf(g)

RoutesCommitted(g) ==
  /\ ActionRoute(g) \in {None, db.action}
  /\ MeasurementRoute(g) \in {None, db.measurement}

NumberInv ==
  /\ current.sequence <= sequence
  /\ \A c \in Commands : command[c].fence # None => command[c].fence <= sequence
  /\ pointWatch.ready # None => pointWatch.ready <= sequence

GenerationInv ==
  /\ Agrees(current) /\ RoutesCommitted(current)
  /\ sink # None => sink.layout = current.loaded.layout

CommandInv ==
  \A c \in Commands :
    /\ command[c].pc \in Waiting => command[c].target = None
    /\ command[c].pc = "idle" => command[c].fence = None
    /\ command[c].pc \in Sending => /\ command[c].view = current
                                    /\ command[c].target = ActionRoute(current) /\ command[c].target # None
                                    /\ command[c].fence # None => command[c].target = command[c].intent
    /\ command[c].pc \in Sending \ {"routed"} => command[c].writer.layout = current.loaded.layout
    /\ command[c].pc \in {"mirrored", "sent"} => command[c].writer.plane = plane.id

\* A mutation has revoked the routes it is about to change.
MutationInv ==
  /\ updater.pc \in {"revoking", "staging", "committing"} => updater.kind \in {"action", "measurement"}
  /\ updater.pc \in {"staging", "committing"} =>
       /\ AlreadyRevoked(updater.kind)
       /\ updater.kind = "action" => \A c \in Commands : command[c].pc \in Waiting
  /\ updater.pc = "committing" =>
       /\ updater.parts \in Snapshots
       /\ updater.kind = "action" => updater.parts.measurement = db.measurement
       /\ updater.kind = "measurement" => updater.parts.action = db.action

\* The generation before the revocation may come back.
RestoreInv ==
  /\ updater.pc = "restoring" => updater.armed
  /\ updater.pc \in {"staging", "restoring"} /\ updater.armed =>
       /\ updater.previous \in Generations /\ updater.previous.loaded = current.loaded
       /\ updater.previous.sequence < current.sequence
       /\ RoutesCommitted(updater.previous) /\ Agrees(updater.previous)

\* The candidate is of the rows that are committed and has its own number.
CandidateInv ==
  /\ updater.pc \in {"evaluating", "composing", "opening", "publishing"} =>
       /\ updater.parts \in Snapshots
       /\ updater.parts.action = db.action /\ updater.parts.measurement = db.measurement
  /\ updater.pc \in {"composing", "publishing"} => updater.sequence <= sequence
  /\ updater.pc = "composing" => updater.parts.layout = current.loaded.layout /\ Unused(updater.sequence)
  /\ updater.pc = "publishing" =>
       IF Changed THEN Unused(updater.sequence) ELSE updater.sequence = current.sequence

IInv ==
  /\ TypeOK /\ NumberInv /\ GenerationInv /\ CommandInv /\ MutationInv /\ RestoreInv /\ CandidateInv
  /\ pointWatch.pc = "reloading" => pointWatch.view = current

-----------------------------------------------------------------------------
(* What the invariant says of single values *)

LEMMA Fields ==
  ASSUME IInv
  PROVE  /\ current \in Generations /\ current.sequence \in Nat /\ current.loaded \in Snapshots
         /\ sequence \in Nat /\ updater \in Updaters /\ pointWatch \in PointWatches
         /\ db \in Snapshots /\ disturbances \in 0 .. MaxDisturbances
         /\ \A c \in Commands : command[c] \in CommandStates
BY ZenonT(30) DEF IInv, TypeOK, Generations

LEMMA RoutesTyped ==
  ASSUME NEW g \in Generations
  PROVE  /\ ActionRoute(g) \in ActionRoutes /\ MeasurementRoute(g) \in MeasurementRoutes
         /\ IndexOf(g) \in [measurement : MeasurementRoutes, layout : Layouts]
<1>1. ActionRoute(g) \in ActionRoutes /\ MeasurementRoute(g) \in MeasurementRoutes
  BY DEF Generations, Snapshots, ActionRoute, MeasurementRoute, ActionRoutes, MeasurementRoutes
<1>2. g.loaded.layout \in Layouts
  BY ZenonT(30) DEF Generations, Snapshots
<1>3. QED
  BY <1>1, <1>2 DEF IndexOf

\* A step that changes no route in SQLite, no command and no hint.
LEMMA SameFacts ==
  ASSUME db'.action = db.action, db'.measurement = db.measurement, command' = command,
         pointWatch'.ready = pointWatch.ready, pointWatch'.index = pointWatch.index
  PROVE  /\ \A g : RoutesCommitted(g)' <=> RoutesCommitted(g)
         /\ \A g : Agrees(g)' <=> Agrees(g)
         /\ \A n : current' = current => (Unused(n)' <=> Unused(n))
BY DEF RoutesCommitted, Agrees, Unused

\* A step of IO or of the watcher keeps what is known of the updater.
LEMMA UpdaterUndisturbed ==
  ASSUME IInv, UNCHANGED <<current, sequence, updater, command, pointWatch>>,
         db'.action = db.action, db'.measurement = db.measurement, sink' \in {sink, None}
  PROVE  GenerationInv' /\ MutationInv' /\ RestoreInv' /\ CandidateInv'
<1>1. \A g : (RoutesCommitted(g)' <=> RoutesCommitted(g)) /\ (Agrees(g)' <=> Agrees(g))
  BY SameFacts
<1>2. \A n : Unused(n)' <=> Unused(n)
  BY SameFacts
<1>3. Agrees(current)' /\ RoutesCommitted(current)'
  BY <1>1 DEF IInv, GenerationInv
<1>4. GenerationInv'
  BY <1>3, ZenonT(30) DEF IInv, GenerationInv
<1>5. MutationInv'
  BY ZenonT(30) DEF IInv, MutationInv, AlreadyRevoked
<1>6. RestoreInv'
  BY <1>1 DEF IInv, RestoreInv
<1>7. Changed' = Changed
  BY ZenonT(30) DEF Changed, LogicalChanged, PhysicalChanged, Revoked
<1>8. CandidateInv'
  BY <1>2, <1>7, ZenonT(30) DEF IInv, CandidateInv
<1>9. QED
  BY <1>4, <1>5, <1>6, <1>8

\* Nothing is known of an updater in these places.
LEMMA NothingHeld ==
  ASSUME updater'.pc \in {"free", "loading", "revoking_actions"}
  PROVE  MutationInv' /\ RestoreInv' /\ CandidateInv'
BY ZenonT(30) DEF MutationInv, RestoreInv, CandidateInv

-----------------------------------------------------------------------------
(* Steps of the updater alone *)

LEMMA UpdaterMoves ==
  ASSUME IInv, UNCHANGED <<db, plane, current, sink, command, pointWatch, watched>>,
         updater' \in Updaters, sequence' \in {sequence, sequence + 1}, disturbances' \in 0 .. MaxDisturbances,
         MutationInv', RestoreInv', CandidateInv'
  PROVE  IInv'
<1>1. TypeOK'
  BY DEF IInv, TypeOK
<1>2. GenerationInv'
  BY SameFacts, ZenonT(30) DEF IInv, GenerationInv
<1>3. NumberInv'
  <2>1. sequence \in Nat /\ sequence' \in Nat /\ sequence <= sequence' /\ current.sequence \in Nat
    BY Fields
  <2>2. \A c \in Commands : command[c].fence # None => command[c].fence \in Nat
    BY Fields, ZenonT(30) DEF CommandStates
  <2>3. pointWatch.ready # None => pointWatch.ready \in Nat
    BY Fields, ZenonT(30) DEF PointWatches
  <2>4. QED
    BY <2>1, <2>2, <2>3 DEF IInv, NumberInv
<1>4. CommandInv'
  BY DEF IInv, CommandInv, ActionRoute
<1>5. QED
  BY <1>1, <1>2, <1>3, <1>4 DEF IInv

LEMMA Disturbed ==
  ASSUME IInv, Disturb
  PROVE  disturbances' \in 0 .. MaxDisturbances
BY BoundsAssumption DEF IInv, TypeOK, Disturb

LEMMA FreeTyped == FreeUpdater \in Updaters /\ FreeUpdater.pc = "free"
BY DEF FreeUpdater, Updaters, UpdaterKinds

LEMMA AfterFailureTyped ==
  ASSUME IInv, NEW invalid \in BOOLEAN
  PROVE  AfterFailure(invalid) \in Updaters /\ AfterFailure(invalid).pc \in {"free", "revoking_actions"}
<1>1. updater.kind \in UpdaterKinds
  BY Fields DEF Updaters
<1>2. CASE AfterFailure(invalid) = FreeUpdater
  BY <1>2, FreeTyped
<1>3. CASE AfterFailure(invalid) = [FreeUpdater EXCEPT !.pc = "revoking_actions", !.kind = updater.kind]
  <2> DEFINE u == [FreeUpdater EXCEPT !.pc = "revoking_actions", !.kind = updater.kind]
  <2>1. u \in Updaters /\ u.pc = "revoking_actions"
    BY <1>1, ZenonT(30) DEF FreeUpdater, Updaters
  <2>2. QED
    BY <1>3, <2>1, Zenon
<1>4. QED
  BY <1>2, <1>3 DEF AfterFailure

\* The updater gives up, or starts over.
LEMMA UpdaterResets ==
  ASSUME IInv, UNCHANGED <<db, plane, current, sink, sequence, command, pointWatch, watched>>,
         disturbances' \in 0 .. MaxDisturbances,
         updater' \in Updaters, updater'.pc \in {"free", "loading", "revoking_actions"}
  PROVE  IInv'
BY NothingHeld, UpdaterMoves

LEMMA BeginMutationKeeps ==
  ASSUME IInv, NEW kind \in {"action", "measurement"}, BeginMutation(kind)
  PROVE  IInv'
<1>1. updater' \in Updaters /\ updater'.pc = "revoking" /\ updater'.kind = kind
  BY ZenonT(30) DEF BeginMutation, FreeUpdater, Updaters, UpdaterKinds
<1>2. MutationInv' /\ RestoreInv' /\ CandidateInv'
  BY <1>1 DEF MutationInv, RestoreInv, CandidateInv
<1>3. QED
  BY <1>1, <1>2, Disturbed, UpdaterMoves DEF BeginMutation

LEMMA BeginRefreshKeeps ==
  ASSUME IInv, NEW kind \in {"refresh", "configuration"}, BeginRefresh(kind)
  PROVE  IInv'
<1>1. updater' \in Updaters /\ updater'.pc = "loading"
  BY ZenonT(30) DEF BeginRefresh, FreeUpdater, Updaters, UpdaterKinds
<1>2. QED
  BY <1>1, Fields, UpdaterResets DEF BeginRefresh

LEMMA StageKeeps ==
  ASSUME IInv, Stage
  PROVE  IInv'
<1>1. PICK rows \in Snapshots :
        /\ updater.kind = "action" => rows.measurement = db.measurement
        /\ updater.kind = "measurement" => rows.action = db.action
        /\ updater' = [updater EXCEPT !.pc = "committing", !.parts = rows, !.armed = FALSE, !.previous = None]
  BY ZenonT(30) DEF Stage
<1>2. updater' \in Updaters /\ updater'.pc = "committing" /\ updater'.kind = updater.kind /\ updater'.parts = rows
  BY <1>1, Fields, ZenonT(30) DEF Updaters
<1>3. MutationInv'
  BY <1>1, <1>2, ZenonT(30) DEF IInv, MutationInv, Stage, AlreadyRevoked
<1>4. RestoreInv' /\ CandidateInv'
  BY <1>2 DEF RestoreInv, CandidateInv
<1>5. QED
  BY <1>2, <1>3, <1>4, Fields, UpdaterMoves, ZenonT(30) DEF Stage

LEMMA StageFailsKeeps ==
  ASSUME IInv, StageFails
  PROVE  IInv'
<1>1. CASE updater.armed
  <2>1. /\ updater' \in Updaters /\ updater'.pc = "restoring" /\ updater'.armed
        /\ updater'.previous = updater.previous
    BY <1>1, Fields, ZenonT(30) DEF StageFails, Updaters
  <2>2. MutationInv' /\ CandidateInv'
    BY <2>1, ZenonT(30) DEF MutationInv, CandidateInv
  <2>3. RestoreInv'
    BY <1>1, <2>1, SameFacts DEF IInv, RestoreInv, StageFails
  <2>4. QED
    BY <2>1, <2>2, <2>3, Fields, UpdaterMoves DEF StageFails
<1>2. CASE ~updater.armed
  BY <1>2, Fields, FreeTyped, UpdaterResets DEF StageFails
<1>3. QED
  BY <1>1, <1>2

LEMMA LoadKeeps ==
  ASSUME IInv, Load
  PROVE  IInv'
<1>1. CASE db.sound
  <2>1. updater' \in Updaters /\ updater'.pc = "evaluating" /\ updater'.parts = db
    BY <1>1, Fields, ZenonT(30) DEF Load, Updaters
  <2>2. MutationInv' /\ RestoreInv'
    BY <2>1, ZenonT(30) DEF MutationInv, RestoreInv
  <2>3. CandidateInv'
    BY <2>1, Fields, ZenonT(30) DEF CandidateInv, Load
  <2>4. QED
    BY <2>1, <2>2, <2>3, Fields, UpdaterMoves, ZenonT(30) DEF Load
<1>2. CASE ~db.sound
  BY <1>2, Fields, AfterFailureTyped, UpdaterResets, ZenonT(30) DEF Load
<1>3. QED
  BY <1>1, <1>2

LEMMA GivingUpKeeps ==
  ASSUME IInv, LoadFails \/ PublishPhysicalFails \/ Cancel
  PROVE  IInv'
BY Disturbed, FreeTyped, AfterFailureTyped, UpdaterResets, ZenonT(30) DEF LoadFails, PublishPhysicalFails, Cancel

\* A new number is unused.
LEMMA NextUnused ==
  ASSUME IInv
  PROVE  Unused(sequence + 1)
<1>1. sequence \in Nat /\ current.sequence \in Nat
  BY Fields, ZenonT(30)
<1>2. \A c \in Commands : command[c].fence # None => command[c].fence \in Nat
  BY Fields DEF CommandStates
<1>3. pointWatch.ready # None => pointWatch.ready \in Nat
  BY Fields DEF PointWatches
<1>4. QED
  BY <1>1, <1>2, <1>3 DEF IInv, NumberInv, Unused

LEMMA EvaluateKeeps ==
  ASSUME IInv, Evaluate
  PROVE  IInv'
<1>1. UNCHANGED <<db, plane, current, sink, command, pointWatch, watched, disturbances>>
  BY DEF Evaluate
<1>2. /\ updater.pc = "evaluating" /\ updater.parts \in Snapshots
      /\ updater.parts.action = db.action /\ updater.parts.measurement = db.measurement
  BY DEF IInv, CandidateInv, Evaluate
<1>3. CASE updater' = FreeUpdater /\ UNCHANGED sequence
  BY <1>1, <1>3, Fields, FreeTyped, UpdaterResets
<1> DEFINE number == sequence + 1
<1>4. CASE /\ ReplacesRoutes /\ sequence' = number
           /\ updater' = [updater EXCEPT !.pc = "composing", !.sequence = number]
  <2>1. /\ updater' \in Updaters /\ updater'.pc = "composing" /\ updater'.sequence = number
        /\ updater'.parts = updater.parts
    <3>1. number \in Nat
      BY Fields
    <3> HIDE DEF number
    <3>2. QED
      BY <1>4, <3>1, Fields, ZenonT(30) DEF Updaters
  <2>2. updater.parts.layout = current.loaded.layout
    BY <1>4, ZenonT(30) DEF ReplacesRoutes, PhysicalChanged
  <2>3. Unused(updater.sequence)'
    <3>1. Unused(number)
      BY NextUnused
    <3> HIDE DEF number
    <3>2. QED
      BY <1>1, <2>1, <3>1 DEF Unused
  <2>4. MutationInv' /\ RestoreInv'
    BY <2>1, ZenonT(30) DEF MutationInv, RestoreInv
  <2>5. CandidateInv'
    <3>1. updater'.sequence <= sequence'
      BY <1>4, <2>1, Fields
    <3>2. QED
      BY <1>1, <1>2, <2>1, <2>2, <2>3, <3>1 DEF CandidateInv
  <2>6. QED
    BY <1>1, <1>4, <2>1, <2>4, <2>5, Fields, UpdaterMoves
<1>5. CASE updater' = [updater EXCEPT !.pc = "opening"] /\ UNCHANGED sequence
  <2>1. updater' \in Updaters /\ updater'.pc = "opening" /\ updater'.parts = updater.parts
    BY <1>5, Fields, ZenonT(30) DEF Updaters
  <2>2. MutationInv' /\ RestoreInv' /\ CandidateInv'
    BY <1>1, <1>2, <2>1 DEF MutationInv, RestoreInv, CandidateInv
  <2>3. QED
    BY <1>1, <1>5, <2>1, <2>2, Fields, UpdaterMoves
<1>6. QED
  BY <1>3, <1>4, <1>5 DEF Evaluate

LEMMA OpenKeeps ==
  ASSUME IInv, Open
  PROVE  IInv'
<1>1. UNCHANGED <<db, plane, current, sink, command, pointWatch, watched, disturbances>>
  BY DEF Open
<1>2. /\ updater.pc = "opening" /\ updater.parts \in Snapshots
      /\ updater.parts.action = db.action /\ updater.parts.measurement = db.measurement
  BY ZenonT(30) DEF IInv, CandidateInv, Open
<1> DEFINE number == IF Changed THEN sequence + 1 ELSE current.sequence
<1>3. CASE /\ sequence' = IF Changed THEN sequence + 1 ELSE sequence
           /\ updater' = [updater EXCEPT !.pc = "publishing", !.read = plane.id, !.sequence = number]
  <2>1. number \in Nat /\ plane.id \in Nat /\ sequence' \in {sequence, sequence + 1} /\ number <= sequence'
    BY <1>3, Fields DEF IInv, NumberInv, TypeOK
  <2>2. /\ updater' \in Updaters /\ updater'.pc = "publishing" /\ updater'.sequence = number
        /\ updater'.parts = updater.parts
    <3> HIDE DEF number
    <3> QED
      BY <1>3, <2>1, Fields, ZenonT(30) DEF Updaters
  <2>3. Changed' <=> Changed
    BY <1>1, <2>2 DEF Changed, LogicalChanged, PhysicalChanged, Revoked
  <2>4. ASSUME Changed PROVE Unused(updater.sequence)'
    <3>1. Unused(number)
      BY <2>4, NextUnused, ZenonT(30)
    <3> HIDE DEF number
    <3>2. QED
      BY <1>1, <2>2, <3>1 DEF Unused
  <2>5. MutationInv' /\ RestoreInv'
    BY <2>2, ZenonT(30) DEF MutationInv, RestoreInv
  <2>6. ~Changed => updater'.sequence = current'.sequence
    BY <1>1, <2>2, ZenonT(30)
  <2>7. CandidateInv'
    BY <1>1, <1>2, <2>1, <2>2, <2>3, <2>4, <2>6 DEF CandidateInv
  <2>8. QED
    BY <1>1, <2>1, <2>2, <2>5, <2>7, Fields, UpdaterMoves, ZenonT(30)
<1>4. CASE UNCHANGED sequence /\ updater' = AfterFailure(FALSE)
  BY <1>1, <1>4, Fields, AfterFailureTyped, UpdaterResets, ZenonT(30)
<1>5. QED
  BY <1>3, <1>4, ZenonT(30) DEF Open

-----------------------------------------------------------------------------
(* Steps that change the routes in SQLite *)

LEMMA CommitKeeps ==
  ASSUME IInv, Commit \/ CommitFails
  PROVE  IInv'
<1>1. /\ UNCHANGED <<plane, current, sink, sequence, command, pointWatch, watched, disturbances>>
      /\ updater.pc = "committing" /\ db' \in {db, Committed}
  BY DEF Commit, CommitFails
<1>2. updater' \in Updaters /\ updater'.pc \in {"free", "loading"}
  BY Fields, FreeTyped, ZenonT(30) DEF Commit, CommitFails, Updaters
<1>3. updater.kind \in {"action", "measurement"} /\ AlreadyRevoked(updater.kind) /\ updater.parts \in Snapshots
  BY <1>1, ZenonT(30) DEF IInv, MutationInv
<1>4. db' \in Snapshots
  BY <1>1, <1>3, Fields, ZenonT(30) DEF Committed, Snapshots
<1>5. db'.action # db.action => /\ current.actionRevoked
                               /\ \A c \in Commands : command[c].pc \in Waiting
  BY <1>1, <1>3, Fields, ZenonT(30) DEF IInv, MutationInv, Committed, AlreadyRevoked, Snapshots
<1>6. db'.measurement # db.measurement => current.measurementRevoked
  BY <1>1, <1>3, Fields, ZenonT(30) DEF IInv, MutationInv, Committed, AlreadyRevoked, Snapshots
<1>7. RoutesCommitted(current)'
  BY <1>1, <1>5, <1>6, ZenonT(30) DEF IInv, GenerationInv, RoutesCommitted, ActionRoute, MeasurementRoute
<1>8. Agrees(current)'
  BY <1>1, ZenonT(30) DEF IInv, GenerationInv, Agrees
<1>9. TypeOK' /\ NumberInv' /\ GenerationInv'
  BY <1>1, <1>2, <1>4, <1>7, <1>8, ZenonT(30) DEF IInv, TypeOK, NumberInv, GenerationInv
<1>10. CommandInv'
  BY <1>1, ZenonT(30) DEF IInv, CommandInv, ActionRoute
<1>11. QED
  BY <1>1, <1>2, <1>9, <1>10, NothingHeld DEF IInv

-----------------------------------------------------------------------------
(* Steps that replace the current generation, under the command gate *)

LEMMA GenerationReplaced ==
  ASSUME IInv, CommandGateFree, UNCHANGED <<db, plane, command, watched, disturbances>>,
         pointWatch' = pointWatch \/ NotifyChange,
         current' \in Generations, sequence' \in {sequence, sequence + 1}, current'.sequence <= sequence',
         Agrees(current'), RoutesCommitted(current'),
         sink' \in CommandGenerations \cup {None}, sink' # None => sink'.layout = current'.loaded.layout,
         updater' \in Updaters, MutationInv', RestoreInv', CandidateInv'
  PROVE  IInv'
<1>1. /\ pointWatch' \in PointWatches /\ pointWatch'.pc = "idle"
      /\ pointWatch'.ready = pointWatch.ready /\ pointWatch'.index = pointWatch.index
  BY Fields, ZenonT(30) DEF NotifyChange, PointWatches, CommandGateFree
<1>2. TypeOK'
  <2>1. sequence' \in Nat
    BY Fields
  <2>2. QED
    BY <1>1, <2>1, ZenonT(30) DEF IInv, TypeOK
<1>3. NumberInv'
  <2>1. sequence \in Nat /\ sequence' \in Nat /\ sequence <= sequence'
    BY Fields
  <2>2. \A c \in Commands : command[c].fence # None => command[c].fence \in Nat
    BY Fields, ZenonT(30) DEF CommandStates
  <2>3. pointWatch.ready # None => pointWatch.ready \in Nat
    BY Fields, ZenonT(30) DEF PointWatches
  <2>4. QED
    BY <1>1, <2>1, <2>2, <2>3 DEF IInv, NumberInv
<1>4. GenerationInv'
  <2>1. Agrees(current)' /\ RoutesCommitted(current)'
    BY <1>1, ZenonT(30) DEF Agrees, RoutesCommitted
  <2>2. QED
    BY <2>1, ZenonT(30) DEF GenerationInv
<1>5. CommandInv'
  <2>1. \A c \in Commands : command'[c].pc \in Waiting /\ command'[c].pc \notin Sending
    BY ZenonT(30) DEF CommandGateFree, Waiting, Sending
  <2>2. QED
    BY <2>1, ZenonT(30) DEF IInv, CommandInv, Sending
<1>6. QED
  BY <1>1, <1>2, <1>3, <1>4, <1>5 DEF IInv

\* A generation with a new number and some routes of the current one.
LEMMA NewNumber ==
  ASSUME IInv, NEW g \in Generations, Unused(g.sequence)
  PROVE  Agrees(g)
<1>1. g.sequence \in Nat /\ g.sequence # None
  BY NoneAssumption, ZenonT(30) DEF Generations
<1>2. QED
  BY <1>1 DEF Unused, Agrees

LEMMA RevokedGeneration ==
  ASSUME IInv, NEW kind \in UpdaterKinds, current' = WithRoutesRevoked(kind, sequence + 1)
  PROVE  /\ current' \in Generations /\ current'.sequence = sequence + 1 /\ current'.loaded = current.loaded
         /\ Agrees(current') /\ RoutesCommitted(current')
         /\ kind = "measurement" => current'.measurementRevoked
         /\ kind # "measurement" => current'.actionRevoked
<1> DEFINE number == sequence + 1
<1>1. number \in Nat /\ Unused(number)
  BY Fields, NextUnused
<1>2. current' = IF kind = "measurement"
                   THEN [current EXCEPT !.measurementRevoked = TRUE, !.sequence = number]
                   ELSE [current EXCEPT !.actionRevoked = TRUE, !.sequence = number]
  BY ZenonT(30) DEF WithRoutesRevoked
<1> HIDE DEF number
<1>3. /\ current' \in Generations /\ current'.sequence = number /\ current'.loaded = current.loaded
      /\ kind = "measurement" => current'.measurementRevoked /\ current'.actionRevoked = current.actionRevoked
      /\ kind # "measurement" => current'.actionRevoked /\ current'.measurementRevoked = current.measurementRevoked
  BY <1>1, <1>2, Fields, ZenonT(30) DEF Generations
<1>4. Agrees(current')
  BY <1>1, <1>3, NewNumber, ZenonT(30)
<1>5. RoutesCommitted(current')
  BY <1>3, ZenonT(30) DEF IInv, GenerationInv, RoutesCommitted, ActionRoute, MeasurementRoute
<1>6. QED
  BY <1>3, <1>4, <1>5, ZenonT(30) DEF number

LEMMA RevokeKeeps ==
  ASSUME IInv, Revoke
  PROVE  IInv'
<1>1. /\ CommandGateFree /\ RevokeRoutes(updater.kind) /\ updater.pc = "revoking"
      /\ UNCHANGED <<db, plane, sink, command, watched, disturbances>>
  BY ZenonT(30) DEF Revoke
<1>2. updater.kind \in {"action", "measurement"} /\ updater.kind \in UpdaterKinds
  BY <1>1, ZenonT(30) DEF IInv, MutationInv, UpdaterKinds
<1>3. \A c \in Commands : command'[c].pc \in Waiting
  BY <1>1, ZenonT(30) DEF CommandGateFree, Waiting
<1>4. CASE AlreadyRevoked(updater.kind)
  <2>1. UNCHANGED <<current, sequence, pointWatch>>
    BY <1>1, <1>4 DEF RevokeRoutes
  <2>2. updater' \in Updaters /\ updater'.pc = "staging" /\ updater'.kind = updater.kind /\ ~updater'.armed
    BY <1>4, Fields, ZenonT(30) DEF Revoke, Updaters
  <2>3. MutationInv'
    BY <1>2, <1>3, <1>4, <2>1, <2>2, ZenonT(30) DEF MutationInv, AlreadyRevoked
  <2>4. RestoreInv' /\ CandidateInv'
    BY <2>2, ZenonT(30) DEF RestoreInv, CandidateInv
  <2>5. QED
    BY <1>1, <2>1, <2>2, <2>3, <2>4, Fields, UpdaterMoves, ZenonT(30)
<1>5. CASE ~AlreadyRevoked(updater.kind)
  <2>1. sequence' = sequence + 1 /\ current' = WithRoutesRevoked(updater.kind, sequence + 1) /\ NotifyChange
    BY <1>1, <1>5, ZenonT(30) DEF RevokeRoutes
  <2>2. /\ updater' \in Updaters /\ updater'.pc = "staging" /\ updater'.kind = updater.kind
        /\ updater'.previous = current
    BY <1>5, Fields, ZenonT(30) DEF Revoke, Updaters
  <2>3. /\ current' \in Generations /\ current'.sequence = sequence' /\ current'.loaded = current.loaded
        /\ Agrees(current') /\ RoutesCommitted(current')
        /\ updater.kind = "measurement" => current'.measurementRevoked
        /\ updater.kind # "measurement" => current'.actionRevoked
    BY <1>2, <2>1, RevokedGeneration, ZenonT(30)
  <2>4. MutationInv'
    BY <1>2, <1>3, <2>2, <2>3, ZenonT(30) DEF MutationInv, AlreadyRevoked
  <2>5. RestoreInv'
    <3>1. current.sequence < current'.sequence
      BY <2>1, <2>3, Fields DEF IInv, NumberInv
    <3>2. pointWatch'.ready = pointWatch.ready /\ pointWatch'.index = pointWatch.index
      BY <2>1, Fields, ZenonT(30) DEF NotifyChange, PointWatches
    <3>3. RoutesCommitted(current) /\ Agrees(current)
      BY ZenonT(30) DEF IInv, GenerationInv
    <3>4. RoutesCommitted(updater.previous)' /\ Agrees(updater.previous)'
      BY <1>1, <2>2, <3>2, <3>3, ZenonT(30) DEF RoutesCommitted, Agrees
    <3>5. QED
      BY <2>2, <2>3, <3>1, <3>4, Fields, ZenonT(30) DEF RestoreInv
  <2>6. CandidateInv'
    BY <2>2, ZenonT(30) DEF CandidateInv
  <2>7. /\ sequence' \in {sequence, sequence + 1} /\ current'.sequence <= sequence'
        /\ sink' \in CommandGenerations \cup {None} /\ (sink' # None => sink'.layout = current'.loaded.layout)
    BY <1>1, <2>1, <2>3, Fields DEF IInv, TypeOK, GenerationInv
  <2>8. QED
    BY <1>1, <2>1, <2>2, <2>3, <2>4, <2>5, <2>6, <2>7, GenerationReplaced, ZenonT(30)
<1>6. QED
  BY <1>4, <1>5

LEMMA RevokeActionsKeeps ==
  ASSUME IInv, RevokeActions
  PROVE  IInv'
<1>1. /\ CommandGateFree /\ RevokeRoutes("action") /\ updater' = FreeUpdater
      /\ UNCHANGED <<db, plane, sink, command, watched, disturbances>>
  BY DEF RevokeActions
<1>2. updater' \in Updaters /\ updater'.pc = "free" /\ MutationInv' /\ RestoreInv' /\ CandidateInv'
  BY <1>1, FreeTyped, NothingHeld, ZenonT(30)
<1>3. CASE UNCHANGED <<current, sequence, pointWatch>>
  BY <1>1, <1>2, <1>3, Fields, UpdaterMoves, ZenonT(30)
<1>4. CASE sequence' = sequence + 1 /\ current' = WithRoutesRevoked("action", sequence + 1) /\ NotifyChange
  <2>1. /\ current' \in Generations /\ current'.sequence = sequence' /\ current'.loaded = current.loaded
        /\ Agrees(current') /\ RoutesCommitted(current')
    BY <1>4, RevokedGeneration, ZenonT(30) DEF UpdaterKinds
  <2>2. /\ sequence' \in {sequence, sequence + 1} /\ current'.sequence <= sequence'
        /\ sink' \in CommandGenerations \cup {None} /\ (sink' # None => sink'.layout = current'.loaded.layout)
    BY <1>1, <1>4, <2>1, Fields DEF IInv, TypeOK, GenerationInv
  <2>3. QED
    BY <1>1, <1>2, <1>4, <2>1, <2>2, GenerationReplaced, ZenonT(30)
<1>5. QED
  BY <1>1, <1>3, <1>4 DEF RevokeRoutes

LEMMA RestoreKeeps ==
  ASSUME IInv, Restore
  PROVE  IInv'
<1>1. /\ CommandGateFree /\ NotifyChange /\ updater' = FreeUpdater /\ current' = updater.previous
      /\ UNCHANGED <<db, plane, sink, sequence, command, watched, disturbances>>
  BY DEF Restore
<1>2. updater' \in Updaters /\ updater'.pc = "free" /\ MutationInv' /\ RestoreInv' /\ CandidateInv'
  BY <1>1, FreeTyped, NothingHeld, ZenonT(30)
<1>3. /\ current' \in Generations /\ current'.loaded = current.loaded /\ current'.sequence < current.sequence
      /\ RoutesCommitted(current') /\ Agrees(current')
  BY <1>1, ZenonT(30) DEF IInv, RestoreInv, Restore
<1>4. current'.sequence <= sequence'
  <2>1. current'.sequence \in Nat
    BY <1>3, ZenonT(30) DEF Generations
  <2>2. QED
    BY <1>1, <1>3, <2>1, Fields DEF IInv, NumberInv
<1>5. sink' \in CommandGenerations \cup {None} /\ (sink' # None => sink'.layout = current'.loaded.layout)
  BY <1>1, <1>3, ZenonT(30) DEF IInv, TypeOK, GenerationInv
<1>6. QED
  BY <1>1, <1>2, <1>3, <1>4, <1>5, GenerationReplaced, ZenonT(30)

\* The candidate has the routes SQLite has.
LEMMA CandidateRoutes ==
  ASSUME IInv, updater.pc \in {"composing", "publishing"}, NEW read \in Nat, NEW validated \in BOOLEAN
  PROVE  /\ Candidate(read, validated) \in Generations
         /\ Candidate(read, validated).sequence = updater.sequence
         /\ Candidate(read, validated).loaded = updater.parts
         /\ updater.sequence <= sequence
         /\ ActionRoute(Candidate(read, validated)) = updater.parts.action
         /\ IndexOf(Candidate(read, validated)) =
              [measurement |-> updater.parts.measurement, layout |-> updater.parts.layout]
         /\ RoutesCommitted(Candidate(read, validated))
<1>1. /\ updater.parts \in Snapshots /\ updater.sequence <= sequence
      /\ updater.parts.action = db.action /\ updater.parts.measurement = db.measurement
  BY ZenonT(30) DEF IInv, CandidateInv
<1>2. updater.sequence \in Nat
  BY Fields, ZenonT(30) DEF Updaters
<1>3. /\ Candidate(read, validated) \in Generations
      /\ Candidate(read, validated).sequence = updater.sequence
      /\ Candidate(read, validated).loaded = updater.parts
  BY <1>1, <1>2, ZenonT(30) DEF Candidate, Generations
<1>4. /\ ActionRoute(Candidate(read, validated)) = updater.parts.action
      /\ MeasurementRoute(Candidate(read, validated)) = updater.parts.measurement
  BY ZenonT(30) DEF Candidate, ActionRoute, MeasurementRoute
<1>5. QED
  BY <1>1, <1>3, <1>4, ZenonT(30) DEF RoutesCommitted, IndexOf

LEMMA PublishLogicalKeeps ==
  ASSUME IInv, PublishLogical
  PROVE  IInv'
<1>1. /\ CommandGateFree /\ NotifyChange /\ updater' = FreeUpdater /\ updater.pc = "composing"
      /\ current' = Candidate(current.read, current.validated)
      /\ UNCHANGED <<db, plane, sink, sequence, command, watched, disturbances>>
  BY ZenonT(30) DEF PublishLogical
<1>2. updater' \in Updaters /\ updater'.pc = "free" /\ MutationInv' /\ RestoreInv' /\ CandidateInv'
  BY <1>1, FreeTyped, NothingHeld
<1>3. current.read \in Nat /\ current.validated \in BOOLEAN
  BY Fields, ZenonT(30) DEF Generations
<1>4. /\ current' \in Generations /\ current'.sequence = updater.sequence /\ current'.loaded = updater.parts
      /\ updater.sequence <= sequence /\ RoutesCommitted(current')
  BY <1>1, <1>3, CandidateRoutes, ZenonT(30)
<1>5. updater.parts.layout = current.loaded.layout /\ Unused(updater.sequence)
  BY <1>1, ZenonT(30) DEF IInv, CandidateInv
<1>6. Agrees(current')
  BY <1>4, <1>5, NewNumber, ZenonT(30)
<1>7. sink' \in CommandGenerations \cup {None} /\ (sink' # None => sink'.layout = current'.loaded.layout)
  BY <1>1, <1>4, <1>5 DEF IInv, TypeOK, GenerationInv
<1>8. QED
  BY <1>1, <1>2, <1>4, <1>6, <1>7, GenerationReplaced

LEMMA PublishPhysicalKeeps ==
  ASSUME IInv, PublishPhysical
  PROVE  IInv'
<1>1. /\ CommandGateFree /\ updater.pc = "publishing"
      /\ UNCHANGED <<db, plane, sequence, command, watched, disturbances>>
  BY DEF PublishPhysical
<1>2. CASE UNCHANGED <<current, sink, pointWatch>> /\ updater' = AfterFailure(FALSE)
  BY <1>1, <1>2, Fields, AfterFailureTyped, UpdaterResets, ZenonT(30)
<1>3. CASE /\ sink' = [plane |-> plane.id, layout |-> updater.parts.layout]
           /\ current' = Candidate(updater.read, TRUE) /\ (pointWatch' = pointWatch \/ NotifyChange)
           /\ updater' = FreeUpdater
  <2>1. updater' \in Updaters /\ updater'.pc = "free" /\ MutationInv' /\ RestoreInv' /\ CandidateInv'
    BY <1>3, FreeTyped, NothingHeld, ZenonT(30)
  <2>2. updater.read \in Nat /\ plane.id \in Nat
    BY Fields DEF Updaters, IInv, TypeOK
  <2>3. /\ current' \in Generations /\ current'.sequence = updater.sequence /\ current'.loaded = updater.parts
        /\ updater.sequence <= sequence /\ RoutesCommitted(current')
        /\ ActionRoute(current') = updater.parts.action
        /\ IndexOf(current') = [measurement |-> updater.parts.measurement, layout |-> updater.parts.layout]
    BY <1>1, <1>3, <2>2, CandidateRoutes, ZenonT(30)
  <2>4. Agrees(current')
    <3>1. CASE Changed
      <4>1. Unused(updater.sequence)
        BY <1>1, <3>1, ZenonT(30) DEF IInv, CandidateInv
      <4>2. QED
        BY <2>3, <4>1, NewNumber, ZenonT(30)
    <3>2. CASE ~Changed
      <4>1. updater.sequence = current.sequence
        BY <1>1, <3>2 DEF IInv, CandidateInv
      <4>2. updater.parts = current.loaded /\ ~current.actionRevoked /\ ~current.measurementRevoked
        BY <3>2, ZenonT(30) DEF Changed, LogicalChanged, Revoked
      <4>3. ActionRoute(current) = updater.parts.action /\ IndexOf(current) = IndexOf(current')
        BY <2>3, <4>2 DEF ActionRoute, MeasurementRoute, IndexOf
      <4>4. QED
        BY <2>3, <4>1, <4>3, ZenonT(30) DEF IInv, GenerationInv, Agrees
    <3>3. QED
      BY <3>1, <3>2, ZenonT(30)
  <2>5. sink' \in CommandGenerations \cup {None} /\ (sink' # None => sink'.layout = current'.loaded.layout)
    <3>1. updater.parts.layout \in Layouts
      BY <1>1, ZenonT(30) DEF IInv, CandidateInv, Snapshots
    <3>2. QED
      BY <1>3, <2>2, <2>3, <3>1, ZenonT(30) DEF CommandGenerations
  <2>6. QED
    BY <1>1, <1>3, <2>1, <2>3, <2>4, <2>5, GenerationReplaced, ZenonT(30)
<1>4. QED
  BY <1>2, <1>3, ZenonT(30) DEF PublishPhysical

-----------------------------------------------------------------------------
(* Steps of a command *)

\* A command that moves on decides under the current generation, or has it pinned.
LEMMA CommandMoves ==
  ASSUME IInv, NEW c \in Commands, NEW k \in CommandStates, command' = [command EXCEPT ![c] = k],
         UNCHANGED <<db, plane, current, sequence, updater, pointWatch, watched, disturbances>>,
         sink' \in {sink, None},
         k.fence \in {None, command[c].fence, current.sequence},
         k.pc \in Waiting => k.target = None,
         k.pc = "idle" => k.fence = None,
         k.pc = "decided" => k.fence = current.sequence /\ k.intent = ActionRoute(current),
         k.pc \in Sending => /\ k.view = current /\ k.target = ActionRoute(current) /\ k.target # None
                             /\ k.fence # None => k.target = k.intent,
         k.pc \in Sending \ {"routed"} => k.writer.layout = current.loaded.layout,
         k.pc \in {"mirrored", "sent"} => k.writer.plane = plane.id
  PROVE  IInv'
<1>1. \A d \in Commands : command'[d] = IF d = c THEN k ELSE command[d]
  BY ZenonT(30) DEF IInv, TypeOK
<1>2. TypeOK'
  BY ZenonT(30) DEF IInv, TypeOK
<1>3. \A d \in Commands : command[d].fence # None => command[d].fence \in Nat
  BY Fields, ZenonT(30) DEF CommandStates
<1>4. ASSUME NEW n \in Nat, Unused(n) PROVE Unused(n)'
  BY <1>1, <1>3, <1>4, ZenonT(30) DEF Unused
<1>5. NumberInv'
  BY <1>1, <1>3 DEF IInv, NumberInv
<1>6. ASSUME NEW g, Agrees(g), g = current \/ g.sequence # current.sequence PROVE Agrees(g)'
  BY <1>1, <1>6, ZenonT(30) DEF Agrees
<1>7. GenerationInv'
  <2>1. Agrees(current)'
    BY <1>6, ZenonT(30) DEF IInv, GenerationInv
  <2>2. RoutesCommitted(current)'
    BY ZenonT(30) DEF IInv, GenerationInv, RoutesCommitted, ActionRoute, MeasurementRoute
  <2>3. QED
    BY <2>1, <2>2, ZenonT(30) DEF IInv, GenerationInv
<1>8. CommandInv'
  <2>1. ASSUME NEW d \in Commands, d # c
        PROVE  command'[d] = command[d]
    BY <1>1, <2>1, ZenonT(30)
  <2>2. ActionRoute(current)' = ActionRoute(current)
    BY ZenonT(30) DEF ActionRoute
  <2>3. QED
    BY <1>1, <2>1, <2>2 DEF IInv, CommandInv
<1>9. MutationInv'
  <2>1. ASSUME updater.pc \in {"staging", "committing"}, updater.kind = "action" PROVE k.pc \in Waiting
    <3>1. ActionRoute(current) = None
      BY <2>1, ZenonT(30) DEF IInv, MutationInv, AlreadyRevoked, ActionRoute
    <3>2. QED
      BY <3>1, ZenonT(30) DEF CommandStates, Sending, Waiting
  <2>2. QED
    BY <1>1, <2>1, ZenonT(30) DEF IInv, MutationInv, AlreadyRevoked
<1>10. RestoreInv'
  <2>1. ASSUME updater.pc \in {"staging", "restoring"}, updater.armed
        PROVE  /\ RoutesCommitted(updater.previous)' /\ Agrees(updater.previous)'
    <3>1. /\ updater.previous.sequence < current.sequence /\ updater.previous \in Generations
          /\ RoutesCommitted(updater.previous) /\ Agrees(updater.previous)
      BY <2>1, ZenonT(30) DEF IInv, RestoreInv
    <3>2. updater.previous.sequence # current.sequence
      BY <3>1, Fields, SMTT(30) DEF Generations
    <3>3. QED
      BY <1>6, <3>1, <3>2, ZenonT(30) DEF RoutesCommitted
  <2>2. QED
    BY <2>1, ZenonT(30) DEF IInv, RestoreInv
<1>11. CandidateInv'
  <2>1. updater.sequence \in Nat
    BY Fields, ZenonT(30) DEF Updaters
  <2>2. Changed' <=> Changed
    BY ZenonT(30) DEF Changed, LogicalChanged, PhysicalChanged, Revoked
  <2>3. Unused(updater.sequence) => Unused(updater.sequence)'
    BY <1>4, <2>1, ZenonT(30)
  <2>4. QED
    BY <2>2, <2>3, ZenonT(30) DEF IInv, CandidateInv
<1>12. QED
  BY <1>2, <1>5, <1>7, <1>8, <1>9, <1>10, <1>11, ZenonT(30) DEF IInv

LEMMA IdleTyped ==
  /\ IdleCommand \in CommandStates /\ IdleCommand.pc = "idle"
  /\ IdleCommand.fence = None /\ IdleCommand.target = None
BY DEF IdleCommand, CommandStates, ActionRoutes

\* A command that ends.
LEMMA CommandEnds ==
  ASSUME IInv, NEW c \in Commands, Finish(c), sink' \in {sink, None},
         UNCHANGED <<db, plane, current, sequence, updater, pointWatch, watched, disturbances>>
  PROVE  IInv'
<1>1. command' = [command EXCEPT ![c] = IdleCommand]
  BY ZenonT(30) DEF Finish
<1>2. IdleCommand.pc \notin Sending /\ IdleCommand.pc \notin {"decided", "mirrored", "sent"}
  BY IdleTyped DEF Sending
<1>3. QED
  BY <1>1, <1>2, IdleTyped, CommandMoves, ZenonT(30)

LEMMA DecideKeeps ==
  ASSUME IInv, NEW c \in Commands, Decide(c)
  PROVE  IInv'
<1> DEFINE k == [IdleCommand EXCEPT !.pc = "decided", !.fence = current.sequence, !.intent = ActionRoute(current)]
<1>1. current.sequence \in Nat /\ ActionRoute(current) \in ActionRoutes
  BY Fields, RoutesTyped
<1>2. /\ k \in CommandStates /\ k.pc = "decided" /\ k.fence = current.sequence
      /\ k.intent = ActionRoute(current) /\ k.target = None
  BY <1>1, ZenonT(30) DEF IdleCommand, CommandStates, ActionRoutes
<1>3. command' = [command EXCEPT ![c] = k]
  BY DEF Decide
<1>4. UNCHANGED <<db, plane, current, sink, sequence, updater, pointWatch, watched, disturbances>>
  BY ZenonT(30) DEF Decide
<1> HIDE DEF k
<1>5. QED
  BY <1>2, <1>3, <1>4, CommandMoves, ZenonT(30) DEF Sending

LEMMA DispatchKeeps ==
  ASSUME IInv, NEW c \in Commands, Dispatch(c)
  PROVE  IInv'
<1>1. /\ UNCHANGED <<db, plane, current, sink, sequence, updater, pointWatch, watched, disturbances>>
      /\ command[c].pc \in {"idle", "decided"} /\ command[c] \in CommandStates
  BY Fields, ZenonT(30) DEF Dispatch
<1>2. CASE Finish(c)
  BY <1>1, <1>2, CommandEnds
<1>3. CASE /\ FenceHolds(c) /\ ActionRoute(current) # None
           /\ command' = [command EXCEPT ![c].pc = "routed", ![c].view = current,
                                         ![c].target = ActionRoute(current)]
  <2> DEFINE k == [command[c] EXCEPT !.pc = "routed", !.view = current, !.target = ActionRoute(current)]
  <2>1. command' = [command EXCEPT ![c] = k]
    BY <1>3, Zenon DEF IInv, TypeOK
  <2>2. /\ k \in CommandStates /\ k.pc = "routed" /\ k.view = current /\ k.target = ActionRoute(current)
        /\ k.fence = command[c].fence /\ k.intent = command[c].intent
    BY <1>1, Fields, RoutesTyped, ZenonT(30) DEF CommandStates
  <2> HIDE DEF k
  <2>3. ASSUME command[c].fence # None PROVE command[c].intent = ActionRoute(current)
    <3>1. command[c].fence = current.sequence
      BY <1>3, <2>3, ZenonT(30) DEF FenceHolds
    <3>2. command[c].pc = "decided"
      BY <1>1, <2>3, SMTT(30) DEF IInv, CommandInv
    <3>3. Agrees(current)
      BY ZenonT(30) DEF IInv, GenerationInv
    <3>4. QED
      BY <3>1, <3>2, <3>3, ZenonT(30) DEF Agrees
  <2>4. QED
    BY <1>1, <1>3, <2>1, <2>2, <2>3, CommandMoves, ZenonT(30) DEF Sending, Waiting
<1>4. QED
  BY <1>2, <1>3, ZenonT(30) DEF Dispatch

\* A command that has the current generation pinned takes another step of send.
LEMMA SendMoves ==
  ASSUME IInv, NEW c \in Commands, command[c].pc \in Sending,
         NEW pc \in Sending, NEW writer \in CommandGenerations \cup {None},
         command' = [command EXCEPT ![c] = [command[c] EXCEPT !.pc = pc, !.writer = writer]],
         UNCHANGED <<db, plane, current, sink, sequence, updater, pointWatch, watched, disturbances>>,
         pc # "routed" => writer.layout = current.loaded.layout,
         pc \in {"mirrored", "sent"} => writer.plane = plane.id
  PROVE  IInv'
<1> DEFINE k == [command[c] EXCEPT !.pc = pc, !.writer = writer]
<1>1. /\ k \in CommandStates /\ k.pc = pc /\ k.writer = writer /\ k.view = command[c].view
      /\ k.target = command[c].target /\ k.fence = command[c].fence /\ k.intent = command[c].intent
  BY Fields, ZenonT(30) DEF CommandStates, Sending
<1> HIDE DEF k
<1>2. /\ k.view = current /\ k.target = ActionRoute(current) /\ (k.fence # None => k.target = k.intent)
  BY <1>1, ZenonT(30) DEF IInv, CommandInv
<1>3. k.pc \notin Waiting /\ k.pc # "idle" /\ k.pc # "decided"
  BY <1>1, ZenonT(30) DEF Sending, Waiting
<1>4. command' = [command EXCEPT ![c] = k]
  BY ZenonT(30) DEF k
<1>5. ActionRoute(current) # None
  BY ZenonT(30) DEF IInv, CommandInv
<1>6. QED
  BY <1>1, <1>2, <1>3, <1>4, <1>5, CommandMoves, ZenonT(30) DEF Sending

LEMMA SendStepKeeps ==
  ASSUME IInv, NEW c \in Commands, SendStep(c)
  PROVE  IInv'
<1>1. UNCHANGED <<db, plane, current, sequence, updater, pointWatch, watched, disturbances>>
  BY ZenonT(30) DEF SendStep, Reject, TakeGeneration, Mirror, Transport, Receipt, Phase
<1>2. command \in [Commands -> CommandStates] /\ command[c].writer \in CommandGenerations \cup {None}
  BY Fields, ZenonT(30) DEF IInv, TypeOK, CommandStates
<1>3. CASE Finish(c) /\ sink' \in {sink, None}
  BY <1>1, <1>3, CommandEnds, SMTT(30)
<1>4. CASE TakeGeneration(c) /\ ~Finish(c)
  <2>1. /\ command[c].pc = "routed" /\ sink # None /\ UNCHANGED sink
        /\ command' = [command EXCEPT ![c].pc = "leasing", ![c].writer = sink]
    BY <1>4 DEF TakeGeneration
  <2>2. command' = [command EXCEPT ![c] = [command[c] EXCEPT !.pc = "leasing", !.writer = sink]]
    BY <1>2, <2>1, Zenon
  <2>3. sink \in CommandGenerations \cup {None} /\ sink.layout = current.loaded.layout
    BY <2>1, SMTT(30) DEF IInv, TypeOK, GenerationInv
  <2>4. QED
    BY <1>1, <2>1, <2>2, <2>3, SendMoves, ZenonT(30) DEF Sending
<1>5. CASE (Mirror(c) \/ Transport(c)) /\ AuthorityValid(c)
  <2>1. PICK pc \in {"mirrored", "sent"} :
          /\ command' = [command EXCEPT ![c] = [command[c] EXCEPT !.pc = pc]] /\ UNCHANGED sink
          /\ command[c].pc \in Sending \ {"routed"}
    BY <1>5, ZenonT(30) DEF Mirror, Transport, Phase, Sending
  <2>2. [command[c] EXCEPT !.pc = pc] = [command[c] EXCEPT !.pc = pc, !.writer = command[c].writer]
    BY Fields, ZenonT(30) DEF CommandStates
  <2>3. command' = [command EXCEPT ![c] = [command[c] EXCEPT !.pc = pc, !.writer = command[c].writer]]
    BY <2>1, <2>2, Zenon
  <2>4. command[c].writer.layout = current.loaded.layout /\ command[c].writer.plane = plane.id
    BY <1>5, <2>1, ZenonT(30) DEF IInv, CommandInv, AuthorityValid
  <2>5. command[c].pc \in Sending /\ pc \in Sending
    BY <2>1, ZenonT(30) DEF Sending
  <2>6. QED
    BY <1>1, <1>2, <2>1, <2>3, <2>4, <2>5, SendMoves, ZenonT(30)
<1>6. ASSUME Mirror(c) \/ Transport(c) \/ Receipt(c), ~AuthorityValid(c) \/ Receipt(c)
      PROVE  Finish(c) /\ sink' \in {sink, None}
  BY <1>6, ZenonT(30) DEF Mirror, Transport, Receipt, Phase, Finish, InvalidateStale
<1>7. (Reject(c) => Finish(c) /\ sink' = sink) /\ (TakeGeneration(c) => sink' = sink)
  BY ZenonT(30) DEF Reject, TakeGeneration
<1>8. QED
  BY <1>3, <1>4, <1>5, <1>6, <1>7, ZenonT(30) DEF SendStep

-----------------------------------------------------------------------------
(* Steps of IO and of the watcher *)

LEMMA WatchKeeps ==
  ASSUME IInv, Watch
  PROVE  IInv'
<1>1. /\ UNCHANGED <<db, plane, current, sequence, updater, command, pointWatch, disturbances>>
      /\ watched' = plane.id /\ sink' \in {sink, None}
  BY SMTT(30) DEF Watch
<1>2. TypeOK' /\ NumberInv' /\ CommandInv'
  BY <1>1, ZenonT(30) DEF IInv, TypeOK, NumberInv, CommandInv, ActionRoute
<1>3. GenerationInv' /\ MutationInv' /\ RestoreInv' /\ CandidateInv'
  BY <1>1, UpdaterUndisturbed, ZenonT(30)
<1>4. QED
  BY <1>1, <1>2, <1>3, ZenonT(30) DEF IInv

LEMMA ChangePhysicalKeeps ==
  ASSUME IInv, ChangePhysical
  PROVE  IInv'
<1>1. /\ UNCHANGED <<plane, current, sink, sequence, updater, command, pointWatch, watched>>
      /\ disturbances' \in 0 .. MaxDisturbances
  BY Disturbed DEF ChangePhysical
<1>2. db' \in Snapshots /\ db'.action = db.action /\ db'.measurement = db.measurement
  BY Fields, ZenonT(30) DEF ChangePhysical, Snapshots
<1>3. TypeOK' /\ NumberInv' /\ CommandInv'
  BY <1>1, <1>2, ZenonT(30) DEF IInv, TypeOK, NumberInv, CommandInv, ActionRoute
<1>4. GenerationInv' /\ MutationInv' /\ RestoreInv' /\ CandidateInv'
  BY <1>1, <1>2, UpdaterUndisturbed, ZenonT(30)
<1>5. QED
  BY <1>1, <1>3, <1>4, ZenonT(30) DEF IInv

LEMMA PublishKeeps ==
  ASSUME IInv, Publish \/ PublishFails
  PROVE  IInv'
<1>1. /\ UNCHANGED <<db, current, sink, sequence, updater, command, pointWatch, watched>>
      /\ disturbances' \in 0 .. MaxDisturbances /\ LeaseFree
  BY Disturbed DEF Publish, PublishFails
<1>2. plane' \in [id : Nat, layout : Layouts, committed : BOOLEAN]
  <2>1. /\ plane \in [id : Nat, layout : Layouts, committed : BOOLEAN] /\ plane.id + 1 \in Nat
        /\ db.layout \in Layouts
    BY DEF IInv, TypeOK, Snapshots
  <2>2. CASE plane' = [plane EXCEPT !.committed = FALSE]
    BY <2>1, <2>2, ZenonT(30)
  <2>3. CASE \E b \in BOOLEAN : plane' = [id |-> plane.id + 1, layout |-> db.layout, committed |-> b]
    BY <2>1, <2>3, SMTT(30)
  <2>4. QED
    BY <2>2, <2>3, ZenonT(30) DEF Publish, PublishFails
<1>3. TypeOK' /\ NumberInv'
  BY <1>1, <1>2, ZenonT(30) DEF IInv, TypeOK, NumberInv
<1>4. CommandInv'
  BY <1>1, ZenonT(30) DEF IInv, CommandInv, ActionRoute, LeaseFree
<1>5. GenerationInv' /\ MutationInv' /\ RestoreInv' /\ CandidateInv'
  BY <1>1, UpdaterUndisturbed, ZenonT(30)
<1>6. QED
  BY <1>1, <1>3, <1>4, <1>5 DEF IInv

-----------------------------------------------------------------------------
(* Steps of the rule reload *)

\* PointWatch is closed, or is opened for the current generation.
LEMMA PointWatchMoves ==
  ASSUME IInv, NEW w \in PointWatches, pointWatch' = w,
         UNCHANGED <<db, plane, current, sink, sequence, updater, command, watched>>,
         disturbances' \in 0 .. MaxDisturbances,
         w.ready # None => w.ready = current.sequence /\ w.index = IndexOf(current),
         w.pc = "reloading" => w.view = current
  PROVE  IInv'
<1>1. TypeOK'
  BY ZenonT(30) DEF IInv, TypeOK
<1>2. NumberInv' /\ CommandInv'
  BY ZenonT(30) DEF IInv, NumberInv, CommandInv, ActionRoute
<1>3. current.sequence \in Nat
  BY Fields, ZenonT(30)
<1>4. \A g : RoutesCommitted(g)' <=> RoutesCommitted(g)
  BY ZenonT(30) DEF RoutesCommitted
<1>5. \A n : Unused(n) => Unused(n)'
  BY ZenonT(30) DEF Unused
<1>6. Agrees(current)'
  BY NoneAssumption, <1>3, ZenonT(30) DEF IInv, GenerationInv, Agrees, IndexOf, MeasurementRoute, ActionRoute
<1>7. ASSUME NEW g \in Generations, Agrees(g), g.sequence < current.sequence
      PROVE  Agrees(g)'
  BY <1>3, <1>7, NoneAssumption, SMTT(30) DEF Agrees, Generations, ActionRoute
<1>8. GenerationInv'
  BY <1>4, <1>6, SMTT(30) DEF IInv, GenerationInv
<1>9. MutationInv'
  BY ZenonT(30) DEF IInv, MutationInv, AlreadyRevoked
<1>10. RestoreInv'
  BY <1>4, <1>7, ZenonT(30) DEF IInv, RestoreInv
<1>11. CandidateInv'
  BY <1>5 DEF IInv, CandidateInv, Changed, LogicalChanged, PhysicalChanged, Revoked
<1>12. QED
  BY <1>1, <1>2, <1>8, <1>9, <1>10, <1>11, ZenonT(30) DEF IInv

LEMMA ReloadKeeps ==
  ASSUME IInv, ReloadRules \/ ReloadStep
  PROVE  IInv'
<1>1. /\ UNCHANGED <<db, plane, current, sink, sequence, updater, command, watched>>
      /\ disturbances' \in 0 .. MaxDisturbances
  BY Disturbed, Fields, ZenonT(30) DEF ReloadRules, ReloadStep, StartReload, ReloadFails, FinishReload
<1>2. pointWatch \in PointWatches /\ current \in Generations /\ current.sequence \in Nat
  BY Fields, ZenonT(30)
<1>3. CASE \E pending \in BOOLEAN : BeginReload(pending)
  <2>1. pointWatch' \in PointWatches /\ pointWatch'.ready = None /\ pointWatch'.view = current
    BY <1>2, <1>3, ZenonT(30) DEF BeginReload, PointWatches
  <2>2. QED
    BY <1>1, <2>1, PointWatchMoves
<1>4. CASE ReloadFails
  <2>1. pointWatch' \in PointWatches /\ pointWatch'.ready = None /\ pointWatch'.pc = "idle"
    BY <1>2, <1>4, ZenonT(30) DEF ReloadFails, EndReload, PointWatches
  <2>2. QED
    BY <1>1, <2>1, PointWatchMoves, ZenonT(30)
<1>5. CASE FinishReload
  <2>1. pointWatch.view = current
    BY <1>5, ZenonT(30) DEF FinishReload, IInv
  <2>2. IndexOf(current) \in [measurement : MeasurementRoutes, layout : Layouts]
    BY <1>2, RoutesTyped
  <2>3. PICK ready \in {None, current.sequence} :
          pointWatch' = [EndReload(ready) EXCEPT !.index = IndexOf(current)]
    BY <1>5, <2>1 DEF FinishReload
  <2>4. /\ pointWatch' \in PointWatches /\ pointWatch'.ready = ready /\ pointWatch'.pc = "idle"
        /\ pointWatch'.index = IndexOf(current)
    BY <1>2, <2>2, <2>3, ZenonT(30) DEF EndReload, PointWatches
  <2>5. QED
    BY <1>1, <2>4, PointWatchMoves, ZenonT(30)
<1>6. (ReloadRules \/ StartReload) => \E pending \in BOOLEAN : BeginReload(pending)
  BY <1>2, ZenonT(30) DEF ReloadRules, StartReload, PointWatches
<1>7. QED
  BY <1>3, <1>4, <1>5, <1>6 DEF ReloadStep

-----------------------------------------------------------------------------
(* The theorems *)

LEMMA InitHolds ==
  ASSUME Init
  PROVE  IInv
<1>1. db \in Snapshots /\ db.layout \in Layouts
  BY ZenonT(30) DEF Init, Snapshots
<1>2. current \in Generations /\ current.sequence = 0 /\ ActionRoute(current) = db.action
      /\ MeasurementRoute(current) = db.measurement /\ current.loaded = db
  BY <1>1, ZenonT(30) DEF Init, LazyGeneration, Generations, ActionRoute, MeasurementRoute
<1>3. command = [c \in Commands |-> IdleCommand] /\ pointWatch.ready = None /\ pointWatch.pc = "idle"
      /\ updater.pc = "free" /\ sequence = 0 /\ sink = None
  BY FreeTyped, ZenonT(30) DEF Init
<1>4. TypeOK
  <2>1. plane \in [id : Nat, layout : Layouts, committed : BOOLEAN] /\ watched \in Nat
    <3>1. PICK id \in {0, 1}, b \in BOOLEAN : plane = [id |-> id, layout |-> db.layout, committed |-> b]
      BY ZenonT(30) DEF Init
    <3>2. watched = plane.id
      BY ZenonT(30) DEF Init
    <3>3. QED
      BY <1>1, <3>1, <3>2
  <2>2. pointWatch \in PointWatches
    BY DEF Init, PointWatches
  <2>3. command \in [Commands -> CommandStates]
    BY <1>3, IdleTyped, ZenonT(30)
  <2>4. QED
    BY <1>1, <1>2, <1>3, <2>1, <2>2, <2>3, FreeTyped, BoundsAssumption DEF Init, TypeOK
<1>5. NumberInv
  BY <1>2, <1>3, IdleTyped DEF NumberInv
<1>6. GenerationInv
  BY <1>2, <1>3, IdleTyped, NoneAssumption, SMTT(30) DEF GenerationInv, Agrees, RoutesCommitted
<1>7. CommandInv
  BY <1>3, IdleTyped, SMTT(30) DEF CommandInv, Sending, Waiting
<1>8. MutationInv /\ RestoreInv /\ CandidateInv
  BY <1>3, ZenonT(30) DEF MutationInv, RestoreInv, CandidateInv
<1>9. QED
  BY <1>3, <1>4, <1>5, <1>6, <1>7, <1>8, ZenonT(30) DEF IInv

LEMMA StutterKeeps ==
  ASSUME IInv, UNCHANGED vars
  PROVE  IInv'
<1>1. UNCHANGED <<db, plane, current, sink, sequence, updater, command, pointWatch, watched, disturbances>>
  BY ZenonT(30) DEF vars
<1>2. MutationInv' /\ RestoreInv' /\ CandidateInv'
  BY <1>1, UpdaterUndisturbed, ZenonT(30)
<1>3. QED
  BY <1>1, <1>2, Fields, UpdaterMoves, ZenonT(30)

LEMMA StepHolds ==
  ASSUME IInv, [Next]_vars
  PROVE  IInv'
<1>1. CASE UpdaterStep
  BY <1>1, RevokeKeeps, StageKeeps, StageFailsKeeps, RestoreKeeps, CommitKeeps, RevokeActionsKeeps,
     LoadKeeps, GivingUpKeeps, EvaluateKeeps, PublishLogicalKeeps, OpenKeeps, PublishPhysicalKeeps
     DEF UpdaterStep
<1>2. QED
  BY <1>1, BeginMutationKeeps, BeginRefreshKeeps, DecideKeeps, DispatchKeeps, SendStepKeeps,
     WatchKeeps, ChangePhysicalKeeps, PublishKeeps, ReloadKeeps, StutterKeeps, ZenonT(30) DEF Next

\* The inductive invariant holds throughout.
THEOREM TopologyInvariant == Spec => []IInv
BY InitHolds, StepHolds, PTL DEF Spec

(***************************************************************************)
(* The routes automation resolves with are always those SQLite has, or     *)
(* none: with_routes_revoked before the transaction of a mutation and the  *)
(* restoration or publication after it keep a replaced route out of use.   *)
(***************************************************************************)
THEOREM RoutesAlwaysCurrent == Spec => []RoutesNeverStale
<1>1. IInv => RoutesNeverStale
  BY DEF IInv, GenerationInv, RoutesCommitted, RoutesNeverStale
<1>2. QED
  BY <1>1, TopologyInvariant, PTL

(***************************************************************************)
(* Whatever the interleaving of mutations, refreshes, IO publications and  *)
(* failures, dispatch_inner sends a command only along the route SQLite    *)
(* has, on the canonical plane, with a writer of the layout its route was  *)
(* composed from.                                                          *)
(***************************************************************************)
THEOREM CommandsAlwaysWellRouted == Spec => []CommandsWellRouted
<1>1. IInv => CommandsFollowCommittedRoutes
  <2> SUFFICES ASSUME IInv, NEW c \in Commands
               PROVE  command[c].target \in {None, db.action}
    BY ZenonT(30) DEF CommandsFollowCommittedRoutes
  <2>1. command[c].pc \in Sending \cup Waiting
    BY Fields, ZenonT(30) DEF CommandStates, Sending, Waiting
  <2>2. ActionRoute(current) \in {None, db.action}
    BY ZenonT(30) DEF IInv, GenerationInv, RoutesCommitted
  <2>3. QED
    BY <2>1, <2>2, ZenonT(30) DEF IInv, CommandInv
<1>2. IInv => CommandsOnCanonicalPlane
  BY DEF IInv, CommandInv, CommandsOnCanonicalPlane, Sending
<1>3. IInv => TypeOK
  BY DEF IInv
<1>4. QED
  BY <1>1, <1>2, <1>3, TopologyInvariant, PTL DEF CommandsWellRouted

(***************************************************************************)
(* A command fenced with the sequence of the generation its rule decided   *)
(* under reaches the target of that decision or none, and PointWatch       *)
(* accepts a hint only with the index of the generation that interprets    *)
(* it, although a restored generation brings its old sequence back.        *)
(***************************************************************************)
THEOREM GenerationsAlwaysFenced == Spec => []GenerationsFenced
<1>1. IInv => FencedCommandsKeepTheirDecision
  <2> SUFFICES ASSUME IInv, NEW c \in Commands, command[c].fence # None
               PROVE  command[c].target \in {None, command[c].intent}
    BY ZenonT(30) DEF FencedCommandsKeepTheirDecision
  <2>1. command[c].pc \in Sending \cup Waiting
    BY Fields, ZenonT(30) DEF CommandStates, Sending, Waiting
  <2>2. QED
    BY <2>1, ZenonT(30) DEF IInv, CommandInv
<1>2. IInv => HintsUseTheirGeneration
  BY DEF IInv, GenerationInv, Agrees, HintsUseTheirGeneration
<1>3. QED
  BY <1>1, <1>2, TopologyInvariant, PTL DEF GenerationsFenced
=============================================================================
