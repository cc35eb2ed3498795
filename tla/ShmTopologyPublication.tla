----------------------- MODULE ShmTopologyPublication -----------------------
(***************************************************************************)
(* Publication of one point/health topology in shared memory               *)
(* (libs/aether-shm-bridge: topology_commit.rs, runtime.rs, health.rs,     *)
(* managed.rs, read_topology.rs, acquisition_writer.rs; the physical side  *)
(* in crates/aether-dataplane/src/core/{writer,config,authority}.rs; the   *)
(* callers services/io/src/main.rs and services/io/src/store).             *)
(*                                                                         *)
(* The IO service owns two planes.  A publication replaces both, one after *)
(* the other: stage a file, make the writer generation of the replaced     *)
(* file odd, rename the staged file over the canonical path, reopen it.    *)
(* A commit witness, renamed last, binds the two files to one epoch.  The  *)
(* other services map the canonical files, validate the pair against the   *)
(* witness and pin its identity; their reads are fenced by that identity   *)
(* and take no lock.  Three advisory leases (topology, point, health)      *)
(* order replacement against validation and against writes.                *)
(*                                                                         *)
(* A file is its inode, an index of `files`; a mapping of it survives its  *)
(* replacement.  The data of a plane is the number of the write it holds.  *)
(* Writer generations come from the wall clock, which may step back: any   *)
(* file may get any generation.                                            *)
(***************************************************************************)
EXTENDS Integers, Sequences

CONSTANTS
  Topologies,     \* the desired topologies SQLite may hold
  LayoutOf,       \* LayoutOf[t][p]: the layout hash of plane p under t
  FirstPlane,     \* the plane whose path sorts first: locked first by readers
  Views,          \* read views (ShmReadTopologyGeneration) of the services
  Generations,    \* even writer generations, by identity
  FaultPoints,    \* the steps of IO that may fail
  NoTopology,     \* not a topology
  MaxEpoch,       \* the last publication epoch: 2^64 - 2 in the code
  MaxWrites,      \* bound on the write transactions per plane
  MaxChanges,     \* bound on the changes of the desired topology
  MaxCrashes,     \* bound on kills of the IO process
  MaxFaults,      \* bound on failing steps of the IO process
  MaxEvents       \* bound on all of these together

Planes == {"point", "health"}
Leases == Planes \cup {"topology"}

ASSUME LayoutAssumption ==
  DOMAIN LayoutOf = Topologies /\ \A t \in Topologies : DOMAIN LayoutOf[t] = Planes

ASSUME PublicationAssumption ==
  /\ FirstPlane \in Planes
  /\ NoTopology \notin Topologies
  /\ MaxEpoch \in Nat /\ MaxWrites \in Nat
  /\ MaxChanges \in Nat /\ MaxCrashes \in Nat /\ MaxFaults \in Nat /\ MaxEvents \in Nat

VARIABLES
  files,      \* files[i]: header and data of inode i
  canonical,  \* canonical[p]: inode at the canonical path, 0 when missing
  witness,    \* the topology commit witness at its canonical path
  io,         \* control state of the publisher in the IO process
  handle,     \* handle[p]: inode the writer handle maps, 0 when unavailable
  writing,    \* planes with a write transaction in progress
  acked,      \* acked[p]: last write confirmed to its caller
  view,       \* view[v]: a service's read view
  desired,    \* the topology SQLite holds
  used        \* how much of each bound is used up

vars == <<files, canonical, witness, io, handle, writing, acked, view, desired, used>>
-----------------------------------------------------------------------------
NoWitness == [epoch |-> 0]
NoFile == [epoch |-> 0]
NoView ==
  [topo |-> NoTopology, leases |-> {}, validated |-> FALSE, seen |-> NoWitness,
   pin |-> NoWitness, opened |-> [p \in Planes |-> 0], read |-> "none"]

Down ==
  [pc |-> "down", startup |-> TRUE, restore |-> FALSE, topo |-> NoTopology,
   epoch |-> 0, plane |-> "point", staged |-> NoFile, replaced |-> 0]

Used == [writes |-> [p \in Planes |-> 0], changes |-> 0, crashes |-> 0, faults |-> 0]

EventAllowed ==
  used.writes["point"] + used.writes["health"] + used.changes + used.crashes + used.faults
    < MaxEvents

Inodes == 1 .. Len(files)
Layout(i) == LayoutOf[files[i].topo][files[i].plane]

\* The writer generation of inode i is stable (even).
Stable(i) == i # 0 /\ ~files[i].odd

\* validate_authoritative_path and the generation check of a writer.
Authoritative(p, i) == i # 0 /\ canonical[p] = i /\ Stable(i)

\* Mutant: the witness is compared by layout and generation only.
MatchesReadersByLayout(w) ==
  /\ w # NoWitness
  /\ \A p \in Planes :
       /\ Stable(canonical[p])
       /\ Layout(canonical[p]) = w.layout[p]
       /\ files[canonical[p]].gen = w.gen[p]

\* TopologyPublicationCommit::matches_readers on the canonical planes.
MatchesReaders(w) ==
  /\ w # NoWitness
  /\ \A p \in Planes :
       /\ Stable(canonical[p])
       /\ files[canonical[p]].epoch = w.epoch
       /\ Layout(canonical[p]) = w.layout[p]
       /\ files[canonical[p]].gen = w.gen[p]

\* validate_topology_publication_locked for the manifests of topology t.
Validates(t) ==
  /\ \A p \in Planes : canonical[p] # 0 /\ Layout(canonical[p]) = LayoutOf[t][p]
  /\ MatchesReaders(witness)

\* The leases the publisher holds exclusively, and those others hold shared.
Exclusive ==
  (IF io.pc \in {"down", "idle", "begin"} THEN {} ELSE {"topology"})
    \cup (IF \/ io.pc \in {"invalidate", "rename", "reopen"}
             \/ io.pc = "store" /\ io.plane = "health"
          THEN {io.plane} ELSE {})
Shared == writing \cup UNION {view[v].leases : v \in Views}

CanShare(l) == l \notin Exclusive

CanExclude(l) == l \notin Shared \cup Exclusive
-----------------------------------------------------------------------------
(***************************************************************************)
(* The publisher: startup (main.rs) and project (shm_topology.rs).         *)
(***************************************************************************)

\* A failing step.  At startup a failed snapshot restore is retried without
\* the snapshot, under the same lease and epoch; any other failure ends the
\* process.  At run time the attempt is dropped and the handles stay.
RestoreRetried ==
  io.startup /\ io.restore /\ io.plane = "point" /\ io.pc # "allocate"

AfterFailure ==
  \/ /\ RestoreRetried
     /\ io' = [io EXCEPT !.pc = "stage", !.restore = FALSE, !.staged = NoFile, !.replaced = 0]
     /\ UNCHANGED <<handle, writing>>
  \/ /\ io.startup /\ ~RestoreRetried
     /\ io' = Down
     /\ handle' = [p \in Planes |-> 0]
     /\ writing' = {}
  \/ /\ ~io.startup
     /\ io' = [Down EXCEPT !.pc = "idle", !.startup = FALSE]
     /\ UNCHANGED <<handle, writing>>

\* Step `point` may fail, within the bound on failures.
Fault(point) ==
  /\ point \in FaultPoints
  /\ EventAllowed /\ used.faults < MaxFaults
  /\ used' = [used EXCEPT !.faults = @ + 1]
  /\ AfterFailure

\* Startup takes the topology lease for the topology it read from SQLite.
Start ==
  /\ io.pc = "down"
  /\ CanExclude("topology")
  /\ \E restore \in BOOLEAN :
       io' = [Down EXCEPT !.pc = "allocate", !.restore = restore, !.topo = desired]
  /\ UNCHANGED <<files, canonical, witness, handle, writing, acked, view, desired, used>>

\* One cycle of the projector finds the planes behind the desired topology.
Project ==
  /\ io.pc = "idle"
  /\ \/ \E p \in Planes : handle[p] = 0 \/ Layout(handle[p]) # LayoutOf[desired][p]
     \/ ~Validates(desired)
  /\ io' = [Down EXCEPT !.pc = "begin", !.startup = FALSE, !.topo = desired]
  /\ UNCHANGED <<files, canonical, witness, handle, writing, acked, view, desired, used>>

\* A cycle that finds nothing to publish.
ProjectCurrent ==
  /\ io.pc = "idle"
  /\ \A p \in Planes : handle[p] # 0 /\ Layout(handle[p]) = LayoutOf[desired][p]
  /\ Validates(desired)
  /\ UNCHANGED vars

Begin ==
  /\ io.pc = "begin"
  /\ CanExclude("topology")
  /\ io' = [io EXCEPT !.pc = "allocate"]
  /\ UNCHANGED <<files, canonical, witness, handle, writing, acked, view, desired, used>>

\* next_publication_epoch: past both plane headers and the witness.
EpochFloor ==
  LET epochs == {witness.epoch} \cup {files[canonical[p]].epoch : p \in {q \in Planes : canonical[q] # 0}}
  IN  CHOOSE e \in epochs : \A f \in epochs : e >= f

NextPublicationEpoch ==
  /\ io.pc = "allocate"
  /\ EpochFloor < MaxEpoch
  /\ io' = [io EXCEPT !.pc = "stage", !.epoch = EpochFloor + 1]
  /\ UNCHANGED <<files, canonical, witness, handle, writing, acked, view, desired, used>>

\* The epochs are used up: the attempt ends before any plane changes.
EpochsExhausted ==
  /\ io.pc = "allocate"
  /\ EpochFloor >= MaxEpoch
  /\ AfterFailure
  /\ UNCHANGED <<files, canonical, witness, acked, view, desired, used>>

\* Mutant: nothing is migrated from the replaced generation.
StagedDataFresh(p) ==
  IF p = "point" /\ io.restore THEN 0 .. used.writes[p] ELSE {0}

\* What the staged file starts from: the values of the handle's mapping; at
\* startup a snapshot of an earlier moment, or nothing.
StagedData(p) ==
  IF handle[p] # 0 THEN {files[handle[p]].data}
  ELSE IF p = "point" /\ io.restore THEN 0 .. used.writes[p] ELSE {0}

StagedFile(p, g, d) ==
  [plane |-> p, topo |-> io.topo, epoch |-> io.epoch, gen |-> g, odd |-> FALSE, data |-> d]

\* The exclusive plane lease, and the staged file under it.
Stage ==
  /\ io.pc = "stage"
  /\ CanExclude(io.plane)
  /\ io.plane = "health" /\ handle["health"] # 0 => canonical["health"] = handle["health"]
  /\ \E g \in Generations, d \in StagedData(io.plane) :
       io' = [io EXCEPT !.pc = "invalidate", !.staged = StagedFile(io.plane, g, d)]
  /\ UNCHANGED <<files, canonical, witness, handle, writing, acked, view, desired, used>>

\* begin_generation_swap on the handle's mapping, or at startup on the
\* canonical file unless it is missing or was left odd.
Replaced ==
  IF handle[io.plane] # 0 THEN handle[io.plane]
  ELSE IF Stable(canonical[io.plane]) THEN canonical[io.plane] ELSE 0

\* Mutant: the replaced file keeps its even generation.
SwapWithoutInvalidation ==
  /\ io.pc = "invalidate"
  /\ Replaced # 0 => Authoritative(io.plane, Replaced)
  /\ io' = [io EXCEPT !.pc = "rename", !.replaced = Replaced]
  /\ UNCHANGED <<files, canonical, witness, handle, writing, acked, view, desired, used>>

BeginGenerationSwap ==
  /\ io.pc = "invalidate"
  /\ Replaced # 0 => Authoritative(io.plane, Replaced)
  /\ files' = [i \in Inodes |-> IF i = Replaced THEN [files[i] EXCEPT !.odd = TRUE] ELSE files[i]]
  /\ io' = [io EXCEPT !.pc = "rename", !.replaced = Replaced]
  /\ UNCHANGED <<canonical, witness, handle, writing, acked, view, desired, used>>

CommitGenerationSwap ==
  /\ io.pc = "rename"
  /\ files' = Append(files, io.staged)
  /\ canonical' = [canonical EXCEPT ![io.plane] = Len(files) + 1]
  /\ io' = [io EXCEPT !.pc = "reopen", !.staged = NoFile, !.replaced = 0]
  /\ UNCHANGED <<witness, handle, writing, acked, view, desired, used>>

\* open_existing on the canonical path; the point plane's lease ends here.
Reopen ==
  /\ io.pc = "reopen"
  /\ io' = [io EXCEPT !.pc = "store"]
  /\ UNCHANGED <<files, canonical, witness, handle, writing, acked, view, desired, used>>

\* The handle takes the new generation; a fresh handle has confirmed nothing.
StoreHandle ==
  /\ io.pc = "store"
  /\ handle' = [handle EXCEPT ![io.plane] = canonical[io.plane]]
  /\ acked' = IF handle[io.plane] = 0
              THEN [acked EXCEPT ![io.plane] = files[canonical[io.plane]].data] ELSE acked
  /\ io' = IF io.plane = "point"
           THEN [io EXCEPT !.pc = "stage", !.plane = "health"]
           ELSE [io EXCEPT !.pc = "commit"]
  /\ UNCHANGED <<files, canonical, witness, writing, view, desired, used>>

\* The check of the canonical headers before the witness is written.
CommitAllowed ==
  /\ witness.epoch < io.epoch
  /\ \A p \in Planes : Stable(canonical[p]) /\ files[canonical[p]].epoch = io.epoch

WitnessOf(epoch) ==
  [epoch |-> epoch,
   gen |-> [p \in Planes |-> files[canonical[p]].gen],
   layout |-> [p \in Planes |-> Layout(canonical[p])]]

CommitTopologyPublication ==
  /\ io.pc = "commit"
  /\ CommitAllowed
  /\ witness' = WitnessOf(io.epoch)
  /\ \/ /\ io' = [Down EXCEPT !.pc = "idle", !.startup = FALSE]
        /\ UNCHANGED <<handle, writing, used>>
     \/ Fault("sync_parent_directory")
  /\ UNCHANGED <<files, canonical, acked, view, desired>>

\* A step that fails before it changes a file: allocation of the epoch,
\* staging or migration, reopening, writing the witness.
StepFails ==
  /\ io.pc \in {"allocate", "stage", "invalidate", "reopen", "commit"}
  /\ io.pc = "stage" => CanExclude(io.plane)
  /\ Fault(io.pc)
  /\ UNCHANGED <<files, canonical, witness, acked, view, desired>>

\* Mutant: the invalidation is not rolled back.
RenameFailsStaysOdd ==
  /\ io.pc = "rename"
  /\ Fault("rename")
  /\ UNCHANGED <<files, canonical, witness, acked, view, desired>>

\* rename(2) fails: the invalidation is dropped, the generation is restored.
RenameFails ==
  /\ io.pc = "rename"
  /\ Fault("rename")
  /\ files' = [i \in Inodes |->
                 IF i = io.replaced THEN [files[i] EXCEPT !.odd = FALSE] ELSE files[i]]
  /\ UNCHANGED <<canonical, witness, acked, view, desired>>

\* The handle's mapping is not the canonical file any more.
SwapRefused ==
  /\ \/ /\ io.pc = "stage" /\ io.plane = "health" /\ CanExclude("health")
        /\ handle["health"] # 0 /\ canonical["health"] # handle["health"]
     \/ /\ io.pc = "invalidate"
        /\ Replaced # 0 /\ ~Authoritative(io.plane, Replaced)
  /\ AfterFailure
  /\ UNCHANGED <<files, canonical, witness, acked, view, desired, used>>

\* A kill: mappings and leases go, the files stay.
Crash ==
  /\ io.pc # "down"
  /\ EventAllowed /\ used.crashes < MaxCrashes
  /\ used' = [used EXCEPT !.crashes = @ + 1]
  /\ io' = Down
  /\ handle' = [p \in Planes |-> 0]
  /\ writing' = {}
  /\ UNCHANGED <<files, canonical, witness, acked, view, desired>>
-----------------------------------------------------------------------------
(***************************************************************************)
(* Writes of the IO process: commit_batch and set_online.                  *)
(***************************************************************************)
BeginWrite(p) ==
  /\ p \notin writing
  /\ CanShare(p)
  /\ Authoritative(p, handle[p])
  /\ EventAllowed /\ used.writes[p] < MaxWrites
  /\ used' = [used EXCEPT !.writes[p] = @ + 1]
  /\ files' = [i \in Inodes |->
                 IF i = handle[p] THEN [files[i] EXCEPT !.data = used.writes[p] + 1] ELSE files[i]]
  /\ writing' = writing \cup {p}
  /\ UNCHANGED <<canonical, witness, io, handle, acked, view, desired>>

\* The second validation, the answer to the caller, the end of the lease.
ConfirmWrite(p) ==
  /\ p \in writing
  /\ Authoritative(p, handle[p])
  /\ acked' = [acked EXCEPT ![p] = files[handle[p]].data]
  /\ writing' = writing \ {p}
  /\ UNCHANGED <<files, canonical, witness, io, handle, view, desired, used>>

\* An operator changes the topology in SQLite.
ChangeDesired ==
  /\ EventAllowed /\ used.changes < MaxChanges
  /\ \E t \in Topologies \ {desired} : desired' = t
  /\ used' = [used EXCEPT !.changes = @ + 1]
  /\ UNCHANGED <<files, canonical, witness, io, handle, writing, acked, view>>
-----------------------------------------------------------------------------
(***************************************************************************)
(* Read views: ShmReadTopologyGeneration over two ReconnectingSlotSources. *)
(***************************************************************************)

\* new_lazy: a view of the topology the service read from SQLite.
NewView(v) ==
  /\ view[v].leases = {} /\ view[v].seen = NoWitness /\ view[v].read \notin Planes
  /\ \/ view[v].topo # desired
     \/ view[v].pin # NoWitness /\ ~MatchesReaders(view[v].pin)
  /\ view' = [view EXCEPT ![v] = [NoView EXCEPT !.topo = desired]]
  /\ UNCHANGED <<files, canonical, witness, io, handle, writing, acked, desired, used>>

\* with_validated_authority and open: topology lease, then the planes' in
\* path order.
LeaseOrder(held) ==
  IF held = {} THEN {"topology"}
  ELSE IF FirstPlane \notin held THEN {FirstPlane} ELSE Planes \ held

AcquireLease(v) ==
  /\ view[v].topo # NoTopology /\ view[v].seen = NoWitness
  /\ \E l \in LeaseOrder(view[v].leases) :
       /\ CanShare(l)
       /\ view' = [view EXCEPT ![v].leases = @ \cup {l}]
  /\ UNCHANGED <<files, canonical, witness, io, handle, writing, acked, desired, used>>

\* ensure_current: keep a mapping whose generation is unchanged unless a due
\* identity check finds the path moved; else open the canonical file, which
\* must have the expected layout and a stable generation.
Openable(v, p) ==
  canonical[p] # 0 /\ Stable(canonical[p])
    /\ Layout(canonical[p]) = LayoutOf[view[v].topo][p]

EnsureCurrent(v, p) ==
  LET i == view[v].opened[p]
      reopened == IF Openable(v, p) THEN canonical[p] ELSE 0
  IN  IF ~Stable(i) THEN {reopened}
      ELSE {i, IF i = canonical[p] THEN i ELSE reopened}

\* validate_publication_identity and validate_reader_fence.
Fenced(v, p, i) ==
  /\ Stable(i)
  /\ view[v].pin # NoWitness
  /\ files[i].epoch = view[v].pin.epoch
  /\ files[i].gen = view[v].pin.gen[p]

\* The outcome of the validation under the three leases: the pinned
\* identity, when there is one, must be the one observed.
ViewValidates(v, opened) ==
  /\ \A p \in Planes : opened[p] # 0
  /\ view[v].pin # NoWitness => \A p \in Planes : Fenced(v, p, opened[p])
  /\ Validates(view[v].topo)
  /\ view[v].pin \in {NoWitness, witness}

\* validate_layout of both sources; a mapping a read is using stays.
Reconnected(v) ==
  {opened \in [Planes -> 0 .. Len(files)] :
     \A p \in Planes : /\ opened[p] \in EnsureCurrent(v, p)
                       /\ view[v].read = p => opened[p] = view[v].opened[p]}

\* with_validated_authority: validate and pin under the leases.
PinValidated(v) ==
  /\ view[v].leases = Leases /\ ~view[v].validated
  /\ \E opened \in Reconnected(v) :
       view' = [view EXCEPT ![v] =
                  IF ViewValidates(v, opened)
                  THEN [@ EXCEPT !.opened = opened, !.pin = witness, !.validated = TRUE]
                  ELSE [@ EXCEPT !.opened = opened, !.leases = {}]]
  /\ UNCHANGED <<files, canonical, witness, io, handle, writing, acked, desired, used>>

\* The service stores the validated view (the closure), then the leases end.
PublishView(v) ==
  /\ view[v].validated
  /\ view' = [view EXCEPT ![v].validated = FALSE, ![v].leases = {}]
  /\ UNCHANGED <<files, canonical, witness, io, handle, writing, acked, desired, used>>

\* open: validate under the leases, release them, pin afterwards.
ObserveValidated(v) ==
  /\ view[v].leases = Leases /\ ~view[v].validated
  /\ view[v].pin = NoWitness
  /\ \E opened \in Reconnected(v) :
       /\ ViewValidates(v, opened)
       /\ view' = [view EXCEPT ![v] =
                     [@ EXCEPT !.leases = {}, !.opened = opened, !.seen = witness]]
  /\ UNCHANGED <<files, canonical, witness, io, handle, writing, acked, desired, used>>

PinObserved(v) ==
  /\ view[v].seen # NoWitness
  /\ view' = [view EXCEPT ![v].pin = view[v].seen, ![v].seen = NoWitness]
  /\ UNCHANGED <<files, canonical, witness, io, handle, writing, acked, desired, used>>

\* with_reader: reconnect if need be (under the plane's lease), first fence.
BeginRead(v, p) ==
  /\ view[v].topo # NoTopology /\ view[v].read \notin Planes
  /\ \E i \in EnsureCurrent(v, p) :
       /\ i # view[v].opened[p] => CanShare(p)
       /\ view' = [view EXCEPT ![v].opened[p] = i,
                               ![v].read = IF Fenced(v, p, i) THEN p ELSE "none"]
  /\ UNCHANGED <<files, canonical, witness, io, handle, writing, acked, desired, used>>

\* Mutant: no fence after the read.
EndReadUnfenced(v) ==
  /\ view[v].read \in Planes
  /\ view' = [view EXCEPT ![v].read = "accepted"]
  /\ UNCHANGED <<files, canonical, witness, io, handle, writing, acked, desired, used>>

\* The second fence decides whether the values read are returned.
EndRead(v) ==
  /\ view[v].read \in Planes
  /\ view' = [view EXCEPT ![v].read =
                IF Fenced(v, @, view[v].opened[@]) THEN "accepted" ELSE "none"]
  /\ UNCHANGED <<files, canonical, witness, io, handle, writing, acked, desired, used>>
-----------------------------------------------------------------------------
Init ==
  /\ files = <<>>
  /\ canonical = [p \in Planes |-> 0]
  /\ witness = NoWitness
  /\ io = Down
  /\ handle = [p \in Planes |-> 0]
  /\ writing = {}
  /\ acked = [p \in Planes |-> 0]
  /\ view = [v \in Views |-> NoView]
  /\ desired \in Topologies
  /\ used = Used

Publish ==
  \/ Start \/ Project \/ ProjectCurrent \/ Begin
  \/ NextPublicationEpoch \/ EpochsExhausted \/ Stage
  \/ BeginGenerationSwap \/ CommitGenerationSwap \/ Reopen \/ StoreHandle
  \/ CommitTopologyPublication \/ SwapRefused

Fail == StepFails \/ RenameFails \/ Crash

Write(p) == BeginWrite(p) \/ ConfirmWrite(p)

Read(v) ==
  \/ NewView(v) \/ AcquireLease(v) \/ PinValidated(v) \/ PublishView(v)
  \/ ObserveValidated(v) \/ PinObserved(v) \/ EndRead(v)
  \/ \E p \in Planes : BeginRead(v, p)

Next ==
  \/ Publish \/ Fail \/ ChangeDesired
  \/ \E p \in Planes : Write(p)
  \/ \E v \in Views : Read(v)

Spec == Init /\ [][Next]_vars

(***************************************************************************)
(* Fairness.  The publisher runs on its own thread and the supervisor      *)
(* restarts IO, so its steps are taken (weakly fair).  The two steps that  *)
(* wait for an exclusive lease get it when it is free again and again: the *)
(* services hold the shared leases for one validation out of a refresh     *)
(* interval (strongly fair).  A lease holder finishes.                     *)
(***************************************************************************)
Fairness ==
  /\ WF_vars(Publish)
  /\ SF_vars(Start) /\ SF_vars(Begin) /\ SF_vars(Stage)
  /\ \A p \in Planes : WF_vars(ConfirmWrite(p))
  /\ \A v \in Views : /\ WF_vars(AcquireLease(v)) /\ WF_vars(PinValidated(v))
                       /\ WF_vars(PublishView(v)) /\ WF_vars(EndRead(v))

FairSpec == Spec /\ Fairness
-----------------------------------------------------------------------------
Layouts == {LayoutOf[t][p] : t \in Topologies, p \in Planes}
Witnesses ==
  [epoch : 1 .. MaxEpoch, gen : [Planes -> Generations], layout : [Planes -> Layouts]]
FileRecords ==
  [plane : Planes, topo : Topologies, epoch : 1 .. MaxEpoch, gen : Generations,
   odd : BOOLEAN, data : Nat]
IoStates ==
  [pc : {"down", "idle", "begin", "allocate", "stage", "invalidate", "rename",
         "reopen", "store", "commit"},
   startup : BOOLEAN, restore : BOOLEAN, topo : Topologies \cup {NoTopology},
   epoch : 0 .. MaxEpoch, plane : Planes, staged : FileRecords \cup {NoFile},
   replaced : Nat]
ViewStates ==
  [topo : Topologies \cup {NoTopology}, leases : SUBSET Leases, validated : BOOLEAN,
   seen : Witnesses \cup {NoWitness}, pin : Witnesses \cup {NoWitness},
   opened : [Planes -> Nat], read : Planes \cup {"none", "accepted"}]

\* Types of the variables; every inode named by a path or a mapping exists.
TypeOK ==
  /\ files \in Seq(FileRecords)
  /\ canonical \in [Planes -> 0 .. Len(files)]
  /\ witness \in Witnesses \cup {NoWitness}
  /\ io \in IoStates
  /\ handle \in [Planes -> 0 .. Len(files)]
  /\ writing \in SUBSET Planes
  /\ acked \in [Planes -> Nat]
  /\ view \in [Views -> ViewStates]
  /\ \A v \in Views, p \in Planes : view[v].opened[p] \in 0 .. Len(files)
  /\ desired \in Topologies
  /\ used \in [writes : [Planes -> Nat], changes : Nat, crashes : Nat, faults : Nat]

\* Whenever the lock-free fence of a read passes (validate_reader_fence), the
\* mapping is the canonical file of its plane and the pinned publication is
\* the one the witness commits: no retired, half-published or superseded
\* plane is ever read, whatever generation numbers the clock gave.
FencedIsCommitted ==
  \A v \in Views, p \in Planes :
    Fenced(v, p, view[v].opened[p]) =>
      view[v].opened[p] = canonical[p] /\ view[v].pin = witness

\* A batch read is returned (with_reader, "after the read") only while its
\* mapping is canonical and its publication committed.
AcceptedReadsCommitted ==
  [][\A v \in Views :
       view[v].read \in Planes /\ view'[v].read = "accepted" =>
         /\ view[v].opened[view[v].read] = canonical[view[v].read]
         /\ view[v].pin = witness]_vars

\* From validation to the end of the closure of with_validated_authority the
\* two planes keep matching the pinned witness: the store of the service
\* "cannot race the final validation and publish a mapping that was already
\* superseded".
PublishedViewIsCurrent ==
  \A v \in Views : view[v].validated => MatchesReaders(view[v].pin) /\ view[v].pin = witness

\* A pair of planes that matches the witness was staged for one topology,
\* also when publications failed or IO was killed between the planes.
CommittedPairCoherent ==
  MatchesReaders(witness) =>
    files[canonical["point"]].topo = files[canonical["health"]].topo

\* next_publication_epoch advances "past every epoch that another process
\* could still observe": every file ever published, mapped or not.
EpochsNeverReused ==
  [][io.pc = "allocate" /\ io'.pc = "stage" =>
       witness.epoch < io'.epoch /\ \A i \in Inodes : files[i].epoch < io'.epoch]_vars

\* A confirmed write is in the canonical file as long as IO lives: no
\* publication, failed or not, loses it (migration happens under the lease).
ConfirmedWritesKept ==
  \A p \in Planes :
    handle[p] # 0 => canonical[p] # 0 /\ files[canonical[p]].data >= acked[p]

\* commit_batch: "no recoverable error can arise after the first mutation":
\* the second validation of a write in progress cannot fail.
WritesConfirmable == \A p \in writing : Authoritative(p, handle[p])

\* What a service reads or stores under its fence or its leases is the committed
\* publication.
ViewsCommitted == FencedIsCommitted /\ PublishedViewIsCurrent

\* A write that IO has begun can be confirmed, and one it confirmed stays.
WritesSafe == ConfirmedWritesKept /\ WritesConfirmable

\* Reads are accepted, and epochs handed out, only as the protocol promises.
StepsSafe == AcceptedReadsCommitted /\ EpochsNeverReused

Projected ==
  Validates(desired) /\ \A p \in Planes : Authoritative(p, handle[p])

\* A plane was renamed and could not be reopened: its handle still maps the
\* replaced file, and every later replacement is refused until IO restarts.
Stranded == io.pc = "idle" /\ \E p \in Planes : handle[p] \notin {0, canonical[p]}

\* Once failures and changes stop, IO commits the desired topology for good,
\* unless a reopen failed, although services keep taking the leases.
Converges == <>Stranded \/ <>[]Projected
=============================================================================
