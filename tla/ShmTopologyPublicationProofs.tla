-------------------- MODULE ShmTopologyPublicationProofs --------------------
(***************************************************************************)
(* Safety of the shared-memory topology publication for every set of       *)
(* topologies, views and writer generations and for every bound on epochs, *)
(* writes, kills and failures: the inductive invariant, what each step     *)
(* does to the variables, that every step keeps the types, the writes, the *)
(* files, the publisher and the views of the invariant, and the properties *)
(* that follow.                                                            *)
(***************************************************************************)
EXTENDS ShmTopologyPublication, TLAPS

(***************************************************************************)
(* The inductive invariant has one part per group of variables.            *)
(*                                                                         *)
(* Files: a stable file is the canonical one of its plane; the epoch at a  *)
(* canonical path never falls, and never falls behind the witness.         *)
(***************************************************************************)
FileInv ==
  /\ \A p \in Planes : canonical[p] # 0 => files[canonical[p]].plane = p
  /\ \A i \in Inodes :
       /\ files[i].odd \/ canonical[files[i].plane] = i
       /\ canonical[files[i].plane] # 0
       /\ files[i].epoch <= files[canonical[files[i].plane]].epoch
  /\ witness # NoWitness =>
       /\ \A p \in Planes : canonical[p] # 0 /\ witness.epoch <= files[canonical[p]].epoch
       /\ (\A p \in Planes : files[canonical[p]].epoch = witness.epoch) =>
            files[canonical["point"]].topo = files[canonical["health"]].topo

(***************************************************************************)
(* The publisher: the epoch it allocated is above the witness and not      *)
(* below any canonical file; a file that already has it is of the same     *)
(* attempt.  Between invalidation and rename no stable file is canonical.  *)
(***************************************************************************)
Working == {"stage", "invalidate", "rename", "reopen", "store", "commit"}

PubInv ==
  /\ io.pc \in Working \cup {"begin", "allocate"} => io.topo \in Topologies
  /\ io.pc \in Working =>
       /\ witness.epoch < io.epoch
       /\ \A p \in Planes : canonical[p] # 0 =>
            /\ files[canonical[p]].epoch <= io.epoch
            /\ files[canonical[p]].epoch = io.epoch => files[canonical[p]].topo = io.topo
  /\ io.pc \in {"invalidate", "rename"} =>
       /\ io.staged \in FileRecords
       /\ io.staged.plane = io.plane /\ io.staged.topo = io.topo
       /\ io.staged.epoch = io.epoch /\ ~io.staged.odd
  /\ io.pc = "rename" =>
       /\ io.replaced # 0 => canonical[io.plane] = io.replaced
       /\ ~Stable(canonical[io.plane])
  /\ io.pc \in {"reopen", "store"} => canonical[io.plane] # 0
  /\ io.pc = "commit" => io.plane = "health"

(***************************************************************************)
(* The views: a mapping is of its plane; an identity observed or pinned is *)
(* the witness or an earlier one; the topology lease keeps the publisher   *)
(* out of its critical section.                                            *)
(***************************************************************************)
Earlier(w) == w.epoch <= witness.epoch /\ (w.epoch = witness.epoch => w = witness)

ViewInv ==
  \A v \in Views :
    /\ \A p \in Planes : view[v].opened[p] # 0 => files[view[v].opened[p]].plane = p
    /\ Earlier(view[v].pin) /\ Earlier(view[v].seen)
    /\ view[v].leases # {} => "topology" \in view[v].leases /\ view[v].seen = NoWitness
    /\ "topology" \in view[v].leases => io.pc \in {"down", "idle", "begin"}
    /\ view[v].validated =>
         view[v].leases = Leases /\ view[v].pin = witness /\ MatchesReaders(witness)

(***************************************************************************)
(* The writes: a plane being written is not being replaced; what was       *)
(* confirmed is in the handle's file, the canonical file and the staged    *)
(* file.                                                                   *)
(***************************************************************************)
WriteInv ==
  /\ \A p \in writing : Authoritative(p, handle[p]) /\ p \notin Exclusive
  /\ \A p \in Planes :
       /\ acked[p] <= used.writes[p]
       /\ handle[p] # 0 =>
            /\ files[handle[p]].plane = p /\ files[handle[p]].data >= acked[p]
            /\ canonical[p] # 0 /\ files[canonical[p]].data >= acked[p]
  /\ \A i \in Inodes : files[i].data <= used.writes[files[i].plane]
  /\ io.pc \in {"invalidate", "rename"} =>
       /\ io.staged.data <= used.writes[io.plane]
       /\ handle[io.plane] # 0 => io.staged.data >= acked[io.plane]

IInv == TypeOK /\ FileInv /\ PubInv /\ ViewInv /\ WriteInv
-----------------------------------------------------------------------------
\* A witness read from its path has a positive epoch; a missing one counts 0.
LEMMA WitnessEpoch ==
  ASSUME NEW w \in Witnesses \cup {NoWitness}
  PROVE  /\ w.epoch \in Nat
         /\ w = NoWitness <=> w.epoch = 0
         /\ w # NoWitness => w \in Witnesses
<1>1. CASE w = NoWitness
  BY <1>1 DEF NoWitness
<1>2. CASE w \in Witnesses
  <2>1. w.epoch \in 1 .. MaxEpoch
    BY <1>2 DEF Witnesses
  <2>2. NoWitness.epoch = 0
    BY ZenonT(30) DEF NoWitness
  <2> QED
    BY <1>2, <2>1, <2>2, PublicationAssumption
<1> QED
  BY <1>1, <1>2

\* The fields of a file and of the publisher.
LEMMA FileFields ==
  ASSUME TypeOK, NEW i \in Inodes
  PROVE  /\ files[i] \in FileRecords
         /\ files[i].plane \in Planes /\ files[i].topo \in Topologies
         /\ files[i].epoch \in Nat \ {0} /\ files[i].epoch <= MaxEpoch
         /\ files[i].gen \in Generations /\ files[i].odd \in BOOLEAN /\ files[i].data \in Nat
<1>1. files[i] \in FileRecords
  BY DEF TypeOK, Inodes
<1> QED
  BY <1>1, PublicationAssumption DEF FileRecords

LEMMA IoFields ==
  ASSUME TypeOK
  PROVE  /\ io.startup \in BOOLEAN /\ io.restore \in BOOLEAN
         /\ io.topo \in Topologies \cup {NoTopology}
         /\ io.epoch \in Nat /\ io.epoch <= MaxEpoch
         /\ io.plane \in Planes /\ io.staged \in FileRecords \cup {NoFile}
         /\ io.replaced \in Nat
<1>1. /\ io.startup \in BOOLEAN /\ io.restore \in BOOLEAN
      /\ io.topo \in Topologies \cup {NoTopology}
      /\ io.epoch \in 0 .. MaxEpoch
      /\ io.plane \in Planes /\ io.staged \in FileRecords \cup {NoFile}
      /\ io.replaced \in Nat
  BY DEF TypeOK, IoStates
<1> QED
  BY <1>1, PublicationAssumption

LEMMA DownFields ==
  /\ Down \in IoStates
  /\ Down.pc = "down" /\ Down.plane = "point"
<1>1. 0 \in 0 .. MaxEpoch /\ 0 \in Nat /\ "point" \in Planes
  BY PublicationAssumption DEF Planes
<1> QED
  BY <1>1 DEF Down, IoStates

LEMMA IdleFields ==
  /\ [Down EXCEPT !.pc = "idle", !.startup = FALSE] \in IoStates
  /\ [Down EXCEPT !.pc = "idle", !.startup = FALSE].pc = "idle"
<1>1. 0 \in 0 .. MaxEpoch /\ 0 \in Nat /\ "point" \in Planes
  BY PublicationAssumption DEF Planes
<1> QED
  BY <1>1, Zenon DEF Down, IoStates

LEMMA InitInv ==
  ASSUME Init
  PROVE  IInv
<1>1. Len(files) = 0 /\ files \in Seq(FileRecords) /\ Inodes = {}
  BY DEF Init, Inodes
<1>2. /\ canonical = [p \in Planes |-> 0] /\ handle = [p \in Planes |-> 0] /\ acked = [p \in Planes |-> 0]
      /\ witness = NoWitness /\ writing = {} /\ desired \in Topologies /\ io = Down /\ used = Used
      /\ view = [v \in Views |-> NoView]
  BY ZenonT(60) DEF Init
<1>3. /\ NoView \in ViewStates /\ NoView.opened = [p \in Planes |-> 0] /\ NoView.pin = NoWitness
      /\ NoView.seen = NoWitness /\ NoView.leases = {} /\ ~NoView.validated
  BY SMTT(60) DEF NoView, ViewStates
<1>4. /\ Used \in [writes : [Planes -> Nat], changes : Nat, crashes : Nat, faults : Nat]
      /\ Used.writes = [p \in Planes |-> 0]
  BY ZenonT(30) DEF Used
<1>5. TypeOK
  BY <1>1, <1>2, <1>3, <1>4, DownFields, SMTT(60) DEF TypeOK
<1>6. FileInv
  BY <1>1, <1>2, SMTT(60) DEF FileInv
<1>7. PubInv
  BY <1>2, DownFields, Zenon DEF PubInv, Working
<1>8. ViewInv
  <2>1. Earlier(NoWitness)
    BY <1>2, SMTT(60) DEF Earlier, NoWitness
  <2> QED
    BY <1>2, <1>3, <2>1, ZenonT(60) DEF ViewInv
<1>9. WriteInv
  BY <1>1, <1>2, <1>4, DownFields, SMTT(60) DEF WriteInv
<1> QED
  BY <1>5, <1>6, <1>7, <1>8, <1>9, ZenonT(60) DEF IInv

LEMMA StutterInv ==
  ASSUME IInv, UNCHANGED vars
  PROVE  IInv'
<1>0. /\ TypeOK /\ FileInv /\ PubInv /\ ViewInv /\ WriteInv
  BY ZenonT(30) DEF IInv
<1>1. TypeOK'
  BY <1>0, ZenonT(30) DEF TypeOK, vars
<1>2. FileInv'
  BY <1>0, Zenon DEF FileInv, Inodes, vars
<1>3. PubInv'
  BY <1>0, Zenon DEF PubInv, Inodes, Stable, vars
<1>4. ViewInv'
  BY <1>0, ZenonT(60) DEF ViewInv, Earlier, MatchesReaders, Stable, Layout, vars
<1>5. WriteInv'
  BY <1>0, Zenon DEF WriteInv, Authoritative, Stable, Exclusive, Inodes, vars
<1> QED
  BY <1>1, <1>2, <1>3, <1>4, <1>5 DEF IInv

\* Where a failed step leaves the publisher: stopped, between two cycles, or
\* back at the staging of the point plane with the epoch it had.
LEMMA FailureEffect ==
  ASSUME TypeOK, AfterFailure
  PROVE  /\ io' \in IoStates
         /\ io'.pc \in {"down", "idle", "stage"}
         /\ io'.pc = "stage" =>
              /\ io.pc # "allocate" /\ io.plane = "point"
              /\ io'.topo = io.topo /\ io'.epoch = io.epoch /\ io'.plane = io.plane
         /\ \/ UNCHANGED <<handle, writing>>
            \/ handle' = [p \in Planes |-> 0] /\ writing' = {}
<1>1. CASE /\ RestoreRetried
           /\ io' = [io EXCEPT !.pc = "stage", !.restore = FALSE, !.staged = NoFile, !.replaced = 0]
           /\ UNCHANGED <<handle, writing>>
  <2>1. io.plane = "point" /\ io.pc # "allocate"
    BY <1>1, ZenonT(30) DEF RestoreRetried
  <2>2. io \in IoStates /\ 0 \in Nat
    BY DEF TypeOK
  <2> QED
    BY <1>1, <2>1, <2>2, Zenon DEF IoStates
<1>2. CASE io.startup /\ ~RestoreRetried /\ io' = Down /\ handle' = [p \in Planes |-> 0] /\ writing' = {}
  BY <1>2, DownFields
<1>3. CASE /\ ~io.startup
           /\ io' = [Down EXCEPT !.pc = "idle", !.startup = FALSE]
           /\ UNCHANGED <<handle, writing>>
  BY <1>3, IdleFields, SMTT(60)
<1> QED
  BY <1>1, <1>2, <1>3, ZenonT(30) DEF AfterFailure

\* The floor of next_publication_epoch bounds the witness and both headers.
LEMMA FloorBounds ==
  ASSUME TypeOK
  PROVE  /\ EpochFloor \in Nat
         /\ witness.epoch <= EpochFloor
         /\ \A p \in Planes : canonical[p] # 0 => files[canonical[p]].epoch <= EpochFloor
<1> DEFINE S == {witness.epoch} \cup {files[canonical[p]].epoch : p \in {q \in Planes : canonical[q] # 0}}
           E(p) == IF canonical[p] # 0 THEN files[canonical[p]].epoch ELSE witness.epoch
<1>1. witness.epoch \in Nat
  BY WitnessEpoch, ZenonT(30) DEF TypeOK
<1>2. \A p \in Planes : canonical[p] # 0 => files[canonical[p]].epoch \in Nat
  <2>1. \A p \in Planes : canonical[p] # 0 => canonical[p] \in Inodes
    BY DEF TypeOK, Inodes
  <2> QED
    BY <2>1, FileFields, ZenonT(30)
<1>3. E("point") \in Nat /\ E("health") \in Nat
  BY <1>1, <1>2, ZenonT(30) DEF Planes
<1>4. S = {witness.epoch, E("point"), E("health")}
  BY DEF Planes
<1>5. \E x \in S : \A y \in S : x >= y
  <2> HIDE DEF E, S
  <2> QED
    BY <1>1, <1>3, <1>4
<1>6. EpochFloor = CHOOSE x \in S : \A y \in S : x >= y
  BY DEF EpochFloor
<1>7. EpochFloor \in S /\ \A y \in S : EpochFloor >= y
  <2> HIDE DEF S
  <2> QED
    BY <1>5, <1>6, Zenon
<1>8. S \subseteq Nat
  BY <1>1, <1>2, ZenonT(30)
<1>9. \A p \in Planes : canonical[p] # 0 => files[canonical[p]].epoch \in S
  OBVIOUS
<1> HIDE DEF S
<1>10. \A y \in S : y <= EpochFloor
  BY <1>7, <1>8, ZenonT(30)
<1>11. EpochFloor \in Nat /\ witness.epoch \in S
  BY <1>4, <1>7, <1>8
<1> QED
  BY <1>9, <1>10, <1>11, Zenon

\* What the steps of the publisher do to its control state.
LEMMA StartEffect ==
  ASSUME TypeOK, Start
  PROVE  io' \in IoStates /\ io'.pc = "allocate" /\ io'.topo = desired
<1>1. PICK restore \in BOOLEAN :
        io' = [Down EXCEPT !.pc = "allocate", !.restore = restore, !.topo = desired]
  BY Zenon, Zenon DEF Start
<1>2. desired \in Topologies
  BY DEF TypeOK
<1>3. 0 \in 0 .. MaxEpoch /\ 0 \in Nat /\ "point" \in Planes
  BY PublicationAssumption DEF Planes
<1> QED
  BY <1>1, <1>2, <1>3, Zenon DEF Down, IoStates

LEMMA ProjectEffect ==
  ASSUME TypeOK, Project
  PROVE  io' \in IoStates /\ io'.pc = "begin" /\ io'.topo = desired
<1>1. desired \in Topologies
  BY DEF TypeOK
<1>2. 0 \in 0 .. MaxEpoch /\ 0 \in Nat /\ "point" \in Planes
  BY PublicationAssumption DEF Planes
<1> QED
  BY <1>1, <1>2, Zenon DEF Project, Down, IoStates

LEMMA BeginEffect ==
  ASSUME TypeOK, Begin
  PROVE  io' \in IoStates /\ io'.pc = "allocate" /\ io'.topo = io.topo
<1>1. io \in IoStates /\ io' = [io EXCEPT !.pc = "allocate"]
  BY DEF TypeOK, Begin
<1> QED
  BY <1>1 DEF IoStates

LEMMA AllocateEffect ==
  ASSUME TypeOK, NextPublicationEpoch
  PROVE  /\ io' \in IoStates /\ io'.pc = "stage" /\ io'.topo = io.topo
         /\ io'.epoch = EpochFloor + 1
<1>1. io \in IoStates /\ io' = [io EXCEPT !.pc = "stage", !.epoch = EpochFloor + 1]
  BY DEF TypeOK, NextPublicationEpoch
<1>2. EpochFloor + 1 \in 0 .. MaxEpoch
  BY FloorBounds, PublicationAssumption DEF NextPublicationEpoch
<1> HIDE DEF EpochFloor
<1> QED
  BY <1>1, <1>2, Zenon DEF IoStates

LEMMA StageEffect ==
  ASSUME IInv, Stage
  PROVE  /\ io' \in IoStates /\ io'.pc = "invalidate" /\ io'.topo = io.topo
         /\ io'.epoch = io.epoch /\ io'.plane = io.plane
         /\ \E g \in Generations, d \in StagedData(io.plane) :
              io'.staged = StagedFile(io.plane, g, d)
         /\ io'.staged \in FileRecords
<1>1. PICK g \in Generations, d \in StagedData(io.plane) :
        io' = [io EXCEPT !.pc = "invalidate", !.staged = StagedFile(io.plane, g, d)]
  BY Zenon, Zenon DEF Stage
<1>2. d \in Nat
  <2>1. io.plane \in Planes /\ used.writes[io.plane] \in Nat
    BY IoFields, ZenonT(30) DEF IInv, TypeOK
  <2>2. handle[io.plane] # 0 => handle[io.plane] \in Inodes
    BY <2>1 DEF IInv, TypeOK, Inodes
  <2>3. handle[io.plane] # 0 => files[handle[io.plane]].data \in Nat
    BY <2>2, FileFields, ZenonT(30) DEF IInv
  <2> QED
    BY <2>1, <2>3 DEF StagedData
<1>3. io.topo \in Topologies /\ io.epoch \in 1 .. MaxEpoch
  <2>1. io.pc = "stage" /\ witness.epoch \in Nat /\ io.epoch \in Nat /\ io.epoch <= MaxEpoch
    BY WitnessEpoch, IoFields, Zenon DEF Stage, IInv, TypeOK
  <2> QED
    BY <2>1 DEF IInv, PubInv, Working
<1>4. StagedFile(io.plane, g, d) \in FileRecords
  BY <1>2, <1>3, IoFields, ZenonT(30) DEF IInv, StagedFile, FileRecords
<1>5. io \in IoStates
  BY DEF IInv, TypeOK
<1> HIDE DEF StagedFile
<1> QED
  BY <1>1, <1>4, <1>5, Zenon DEF IoStates

LEMMA SwapEffect ==
  ASSUME TypeOK, BeginGenerationSwap
  PROVE  /\ io' \in IoStates /\ io'.pc = "rename" /\ io'.topo = io.topo
         /\ io'.epoch = io.epoch /\ io'.plane = io.plane /\ io'.staged = io.staged
         /\ io'.replaced = Replaced
         /\ Replaced \in 0 .. Len(files)
<1>1. io \in IoStates /\ io' = [io EXCEPT !.pc = "rename", !.replaced = Replaced]
  BY ZenonT(30) DEF TypeOK, BeginGenerationSwap
<1>2. Replaced \in 0 .. Len(files)
  BY IoFields DEF TypeOK, Replaced
<1>3. Replaced \in Nat
  BY <1>2 DEF TypeOK
<1> QED
  BY <1>1, <1>2, <1>3, Zenon DEF IoStates

LEMMA RenameEffect ==
  ASSUME TypeOK, CommitGenerationSwap
  PROVE  /\ io' \in IoStates /\ io'.pc = "reopen" /\ io'.topo = io.topo
         /\ io'.epoch = io.epoch /\ io'.plane = io.plane
<1>1. io \in IoStates /\ io' = [io EXCEPT !.pc = "reopen", !.staged = NoFile, !.replaced = 0]
  BY DEF TypeOK, CommitGenerationSwap
<1> QED
  BY <1>1, Zenon DEF IoStates

LEMMA ReopenEffect ==
  ASSUME TypeOK, Reopen
  PROVE  /\ io' \in IoStates /\ io'.pc = "store" /\ io'.topo = io.topo
         /\ io'.epoch = io.epoch /\ io'.plane = io.plane
<1>1. io \in IoStates /\ io' = [io EXCEPT !.pc = "store"]
  BY DEF TypeOK, Reopen
<1> QED
  BY <1>1 DEF IoStates

LEMMA StoreEffect ==
  ASSUME TypeOK, StoreHandle
  PROVE  /\ io' \in IoStates /\ io'.pc \in {"stage", "commit"} /\ io'.topo = io.topo
         /\ io'.epoch = io.epoch
         /\ io'.pc = "commit" => io'.plane = "health"
<1>1. io \in IoStates
  BY DEF TypeOK
<1>2. CASE io.plane = "point"
  <2>1. io' = [io EXCEPT !.pc = "stage", !.plane = "health"] /\ "health" \in Planes
    BY <1>2, ZenonT(30) DEF StoreHandle, Planes
  <2> QED
    BY <1>1, <2>1, Zenon DEF IoStates
<1>3. CASE io.plane # "point"
  <2>1. io' = [io EXCEPT !.pc = "commit"] /\ io.plane = "health"
    BY <1>3, IoFields, ZenonT(30) DEF StoreHandle, Planes
  <2> QED
    BY <1>1, <2>1, ZenonT(30) DEF IoStates
<1> QED
  BY <1>2, <1>3, ZenonT(30)
-----------------------------------------------------------------------------
\* A file table changed in place keeps its length and its type.
LEMMA InPlace ==
  ASSUME TypeOK, NEW g, g = [i \in Inodes |-> g[i]], \A i \in Inodes : g[i] \in FileRecords
  PROVE  g \in Seq(FileRecords) /\ Len(g) = Len(files)
<1>1. Len(files) \in Nat
  BY DEF TypeOK
<1>2. g \in [1 .. Len(files) -> FileRecords]
  BY DEF Inodes
<1>3. g \in Seq(FileRecords)
  BY <1>1, <1>2
<1>4. DOMAIN g = 1 .. Len(files)
  BY <1>2, ZenonT(30)
<1> QED
  BY <1>1, <1>3, <1>4

\* begin_generation_swap, the rollback of a failed rename and a write change
\* the odd mark or the data of one file, never its header.
InvalidatedFile(i) == [files[i] EXCEPT !.odd = TRUE]

LEMMA SwapFiles ==
  ASSUME TypeOK, BeginGenerationSwap
  PROVE  /\ files' \in Seq(FileRecords) /\ Len(files') = Len(files)
         /\ \A i \in Inodes :
              /\ files'[i].plane = files[i].plane /\ files'[i].topo = files[i].topo
              /\ files'[i].epoch = files[i].epoch /\ files'[i].gen = files[i].gen
              /\ files'[i].data = files[i].data
              /\ files'[i].odd = (files[i].odd \/ i = Replaced)
<1> DEFINE g == files'
<1>1. g = [i \in Inodes |-> IF i = Replaced THEN InvalidatedFile(i) ELSE files[i]]
  BY DEF BeginGenerationSwap, InvalidatedFile
<1>2. \A i \in Inodes :
        /\ InvalidatedFile(i) \in FileRecords
        /\ InvalidatedFile(i).plane = files[i].plane /\ InvalidatedFile(i).topo = files[i].topo
        /\ InvalidatedFile(i).epoch = files[i].epoch /\ InvalidatedFile(i).gen = files[i].gen
        /\ InvalidatedFile(i).data = files[i].data /\ InvalidatedFile(i).odd
  <2>1. \A i \in Inodes : files[i] \in FileRecords
    BY FileFields, ZenonT(30)
  <2> QED
    BY <2>1, Zenon DEF InvalidatedFile, FileRecords
<1>3. \A i \in Inodes : files[i] \in FileRecords /\ files[i].odd \in BOOLEAN
  BY FileFields
<1>4. \A i \in Inodes : g[i] = IF i = Replaced THEN InvalidatedFile(i) ELSE files[i]
  BY <1>1
<1>5. g = [i \in Inodes |-> g[i]]
  BY <1>1, ZenonT(30)
<1>6. \A i \in Inodes : g[i] \in FileRecords
  BY <1>2, <1>3, <1>4
<1> HIDE DEF g
<1>7. g \in Seq(FileRecords) /\ Len(g) = Len(files)
  BY <1>5, <1>6, InPlace, ZenonT(60)
<1>8. ASSUME NEW i \in Inodes
      PROVE  /\ g[i].plane = files[i].plane /\ g[i].topo = files[i].topo
             /\ g[i].epoch = files[i].epoch /\ g[i].gen = files[i].gen
             /\ g[i].data = files[i].data
             /\ g[i].odd = (files[i].odd \/ i = Replaced)
  <2>1. CASE i = Replaced
    <3>1. g[i] = InvalidatedFile(i)
      BY <1>4, <2>1, ZenonT(30)
    <3>2. g[i].odd = TRUE
      BY <1>2, <1>6, <3>1, ZenonT(30) DEF FileRecords
    <3> QED
      BY <1>2, <2>1, <3>1, <3>2, ZenonT(60)
  <2>2. CASE i # Replaced
    BY <1>3, <1>4, <2>2, ZenonT(30)
  <2> QED
    BY <2>1, <2>2
<1> QED
  BY <1>7, <1>8, ZenonT(30) DEF g

RestoredFile(i) == [files[i] EXCEPT !.odd = FALSE]

LEMMA RollbackFiles ==
  ASSUME TypeOK, RenameFails
  PROVE  /\ files' \in Seq(FileRecords) /\ Len(files') = Len(files)
         /\ \A i \in Inodes :
              /\ files'[i].plane = files[i].plane /\ files'[i].topo = files[i].topo
              /\ files'[i].epoch = files[i].epoch /\ files'[i].gen = files[i].gen
              /\ files'[i].data = files[i].data
              /\ files'[i].odd \in BOOLEAN
              /\ i # io.replaced => files'[i].odd = files[i].odd
<1> DEFINE g == files'
<1>1. g = [i \in Inodes |-> IF i = io.replaced THEN RestoredFile(i) ELSE files[i]]
  BY ZenonT(30) DEF RenameFails, RestoredFile
<1>2. \A i \in Inodes :
        /\ RestoredFile(i) \in FileRecords
        /\ RestoredFile(i).plane = files[i].plane /\ RestoredFile(i).topo = files[i].topo
        /\ RestoredFile(i).epoch = files[i].epoch /\ RestoredFile(i).gen = files[i].gen
        /\ RestoredFile(i).data = files[i].data
  <2>1. \A i \in Inodes : files[i] \in FileRecords
    BY FileFields
  <2> QED
    BY <2>1, Zenon DEF RestoredFile, FileRecords
<1>3. \A i \in Inodes : files[i] \in FileRecords
  BY FileFields
<1>4. \A i \in Inodes : g[i] = IF i = io.replaced THEN RestoredFile(i) ELSE files[i]
  BY <1>1, ZenonT(30)
<1>5. g = [i \in Inodes |-> g[i]]
  BY <1>1, ZenonT(30)
<1>6. \A i \in Inodes : g[i] \in FileRecords
  BY <1>2, <1>3, <1>4, Zenon
<1> HIDE DEF g
<1>7. g \in Seq(FileRecords) /\ Len(g) = Len(files)
  BY <1>5, <1>6, InPlace, ZenonT(30)
<1>8. \A i \in Inodes : g[i].odd \in BOOLEAN
  BY <1>6, ZenonT(30) DEF FileRecords
<1>9. \A i \in Inodes :
        /\ g[i].plane = files[i].plane /\ g[i].topo = files[i].topo
        /\ g[i].epoch = files[i].epoch /\ g[i].gen = files[i].gen
        /\ g[i].data = files[i].data
        /\ i # io.replaced => g[i].odd = files[i].odd
  BY <1>2, <1>4, ZenonT(30)
<1> QED
  BY <1>7, <1>8, <1>9, ZenonT(30) DEF g

WrittenFile(p, i) == [files[i] EXCEPT !.data = used.writes[p] + 1]

LEMMA WriteFiles ==
  ASSUME TypeOK, NEW p \in Planes, BeginWrite(p)
  PROVE  /\ files' \in Seq(FileRecords) /\ Len(files') = Len(files)
         /\ \A i \in Inodes :
              /\ files'[i].plane = files[i].plane /\ files'[i].topo = files[i].topo
              /\ files'[i].epoch = files[i].epoch /\ files'[i].gen = files[i].gen
              /\ files'[i].odd = files[i].odd
              /\ files'[i].data = IF i = handle[p] THEN used.writes[p] + 1 ELSE files[i].data
<1> DEFINE g == files'
<1>1. g = [i \in Inodes |-> IF i = handle[p] THEN WrittenFile(p, i) ELSE files[i]]
  BY ZenonT(30) DEF BeginWrite, WrittenFile
<1>2. \A i \in Inodes :
        /\ WrittenFile(p, i) \in FileRecords
        /\ WrittenFile(p, i).plane = files[i].plane /\ WrittenFile(p, i).topo = files[i].topo
        /\ WrittenFile(p, i).epoch = files[i].epoch /\ WrittenFile(p, i).gen = files[i].gen
        /\ WrittenFile(p, i).odd = files[i].odd
        /\ WrittenFile(p, i).data = used.writes[p] + 1
  <2>1. \A i \in Inodes : files[i] \in FileRecords
    BY FileFields, ZenonT(30)
  <2>2. used.writes[p] + 1 \in Nat
    BY DEF TypeOK
  <2> QED
    BY <2>1, <2>2, ZenonT(30) DEF WrittenFile, FileRecords
<1>3. \A i \in Inodes : files[i] \in FileRecords
  BY FileFields
<1>4. \A i \in Inodes : g[i] = IF i = handle[p] THEN WrittenFile(p, i) ELSE files[i]
  BY <1>1, ZenonT(30)
<1>5. g = [i \in Inodes |-> g[i]]
  BY <1>1, ZenonT(30)
<1>6. \A i \in Inodes : g[i] \in FileRecords
  BY <1>2, <1>3, <1>4
<1> HIDE DEF g
<1>7. g \in Seq(FileRecords) /\ Len(g) = Len(files)
  BY <1>5, <1>6, InPlace, Zenon
<1> QED
  BY <1>2, <1>4, <1>7 DEF g

\* rename(2): one more file, the staged one, and it is canonical.
LEMMA RenameFiles ==
  ASSUME IInv, CommitGenerationSwap
  PROVE  /\ files' \in Seq(FileRecords) /\ Len(files') = Len(files) + 1
         /\ \A i \in Inodes : files'[i] = files[i]
         /\ files'[Len(files) + 1] = io.staged
         /\ canonical' \in [Planes -> 0 .. Len(files')]
         /\ canonical'[io.plane] = Len(files) + 1
         /\ \A p \in Planes : p # io.plane => canonical'[p] = canonical[p]
<1>1. io.staged \in FileRecords
  BY ZenonT(30) DEF IInv, PubInv, CommitGenerationSwap
<1>2. files \in Seq(FileRecords) /\ files' = Append(files, io.staged) /\ Len(files) \in Nat
  BY DEF IInv, TypeOK, CommitGenerationSwap
<1>3. /\ files' \in Seq(FileRecords) /\ Len(files') = Len(files) + 1
      /\ \A i \in 1 .. Len(files) : files'[i] = files[i]
      /\ files'[Len(files) + 1] = io.staged
  BY <1>1, <1>2, SMTT(60)
<1>4. canonical \in [Planes -> 0 .. Len(files)] /\ io.plane \in Planes
  BY IoFields, ZenonT(30) DEF IInv, TypeOK
<1>5. canonical' = [canonical EXCEPT ![io.plane] = Len(files) + 1]
  BY ZenonT(30) DEF CommitGenerationSwap
<1> QED
  BY <1>2, <1>3, <1>4, <1>5, SMTT(60) DEF Inodes
-----------------------------------------------------------------------------
(***************************************************************************)
(* What any step of a view does to the view: its mappings stay or become   *)
(* the canonical files, its identities come from the witness, the leases   *)
(* it takes are free, and it is validated only under all of them.          *)
(***************************************************************************)
ViewMoves(v, n) ==
  /\ n \in ViewStates
  /\ \A p \in Planes : n.opened[p] \in {0, view[v].opened[p], canonical[p]}
  /\ n.pin \in {NoWitness, view[v].pin, view[v].seen, witness}
  /\ n.seen \in {NoWitness, view[v].seen, witness}
  /\ n.leases # {} => "topology" \in n.leases /\ n.seen = NoWitness
  /\ \A l \in n.leases : l \in view[v].leases \/ CanShare(l)
  /\ n.validated => n.leases = Leases /\ n.pin = witness /\ MatchesReaders(witness)
  /\ n.read = "accepted" /\ view[v].read \in Planes =>
       Fenced(v, view[v].read, view[v].opened[view[v].read])

LEMMA ViewFields ==
  ASSUME TypeOK, NEW v \in Views
  PROVE  /\ view[v] \in ViewStates
         /\ view[v].topo \in Topologies \cup {NoTopology} /\ view[v].leases \in SUBSET Leases
         /\ view[v].validated \in BOOLEAN
         /\ view[v].seen \in Witnesses \cup {NoWitness}
         /\ view[v].pin \in Witnesses \cup {NoWitness}
         /\ view[v].opened \in [Planes -> Nat]
         /\ view[v].read \in Planes \cup {"none", "accepted"}
<1>1. view[v] \in ViewStates
  BY ZenonT(30) DEF TypeOK
<1> QED
  BY <1>1, ZenonT(30) DEF ViewStates

LEMMA OpenedMapped ==
  ASSUME TypeOK, NEW v \in Views, NEW p \in Planes, view[v].opened[p] # 0
  PROVE  view[v].opened[p] \in Inodes
BY SMTT(60) DEF TypeOK, Inodes

LEMMA FenceArgument ==
  ASSUME IInv, NEW v \in Views, NEW p \in Planes, Fenced(v, p, view[v].opened[p])
  PROVE  view[v].opened[p] = canonical[p] /\ view[v].pin = witness
<1> DEFINE i == view[v].opened[p]
<1>1. i \in Inodes /\ ~files[i].odd /\ view[v].pin # NoWitness /\ files[i].epoch = view[v].pin.epoch
  BY SMTT(60) DEF Fenced, Stable, IInv, TypeOK, Inodes
<1>2. files[i].plane = p
  <2>1. i # 0
    BY <1>1 DEF Inodes
  <2>2. QED
    BY <2>1, ZenonT(60) DEF IInv, ViewInv
<1>3. canonical[p] = i
  BY <1>1, <1>2, ZenonT(60) DEF IInv, FileInv
<1>4. /\ view[v].pin.epoch \in Nat /\ witness.epoch \in Nat /\ view[v].pin.epoch # 0
      /\ witness = NoWitness => witness.epoch = 0
      /\ Earlier(view[v].pin)
  BY <1>1, WitnessEpoch, ViewFields, ZenonT(60) DEF IInv, TypeOK, ViewInv
<1>5. witness # NoWitness
  BY <1>4, SMTT(60) DEF Earlier
<1>6. witness.epoch <= files[canonical[p]].epoch
  BY <1>5, ZenonT(60) DEF IInv, FileInv
<1> HIDE DEF i
<1>7. view[v].pin.epoch = witness.epoch
  BY <1>1, <1>3, <1>4, <1>6, SMTT(60) DEF Earlier
<1> QED
  BY <1>3, <1>4, <1>7, ZenonT(60) DEF Earlier, i

LEMMA NewViewMoves ==
  ASSUME IInv, NEW v \in Views, NewView(v)
  PROVE  ViewMoves(v, view'[v])
<1> DEFINE n == [NoView EXCEPT !.topo = desired]
<1>1. desired \in Topologies /\ view \in [Views -> ViewStates] /\ 0 \in Nat
  BY DEF IInv, TypeOK
<1>2. view'[v] = n
  BY <1>1 DEF NewView
<1>3. /\ n \in ViewStates /\ n.leases = {} /\ ~n.validated /\ n.seen = NoWitness
      /\ n.pin = NoWitness /\ n.opened = [p \in Planes |-> 0] /\ n.read = "none"
  BY <1>1, Zenon DEF NoView, ViewStates
<1> HIDE DEF n
<1> QED
  BY <1>2, <1>3, ZenonT(30) DEF ViewMoves

LEMMA AcquireLeaseMoves ==
  ASSUME IInv, NEW v \in Views, AcquireLease(v)
  PROVE  ViewMoves(v, view'[v])
<1>1. PICK l \in LeaseOrder(view[v].leases) :
        CanShare(l) /\ view' = [view EXCEPT ![v].leases = @ \cup {l}]
  BY ZenonT(60), ZenonT(60) DEF AcquireLease
<1> DEFINE n == [view[v] EXCEPT !.leases = @ \cup {l}]
<1>2. view \in [Views -> ViewStates] /\ view[v] \in ViewStates
  BY DEF IInv, TypeOK
<1>3. view'[v] = n
  BY <1>1, <1>2, ZenonT(30)
<1>4. l \in Leases /\ (view[v].leases = {} => l = "topology")
  BY <1>1, PublicationAssumption DEF LeaseOrder, Leases, Planes
<1>5. view[v].leases # Leases
  BY <1>1, PublicationAssumption DEF LeaseOrder, Leases, Planes
<1>6. /\ n.leases = view[v].leases \cup {l} /\ n.validated = view[v].validated
      /\ n.seen = view[v].seen /\ n.pin = view[v].pin /\ n.opened = view[v].opened
      /\ n.read = view[v].read
      /\ n \in ViewStates
  BY <1>2, <1>4, Zenon DEF ViewStates
<1>7. view[v].seen = NoWitness
  BY ZenonT(30) DEF AcquireLease
<1>8. ~view[v].validated
  BY <1>5, ZenonT(30) DEF IInv, ViewInv
<1>9. "topology" \in n.leases
  BY <1>4, <1>6 DEF IInv, ViewInv
<1>10. n.read \notin {"accepted"} \/ view[v].read \notin Planes
  BY <1>6, ZenonT(30) DEF Planes
<1> HIDE DEF n
<1> QED
  BY <1>1, <1>3, <1>6, <1>7, <1>8, <1>9, <1>10, ZenonT(60) DEF ViewMoves

\* validate_layout opens nothing but canonical files.
LEMMA ReconnectedMappings ==
  ASSUME TypeOK, NEW v \in Views, NEW opened \in Reconnected(v)
  PROVE  /\ opened \in [Planes -> Nat]
         /\ \A p \in Planes : opened[p] \in {0, view[v].opened[p], canonical[p]}
<1>1. opened \in [Planes -> 0 .. Len(files)] /\ \A p \in Planes : opened[p] \in EnsureCurrent(v, p)
  BY ZenonT(30) DEF Reconnected
<1>2. opened \in [Planes -> Nat]
  BY <1>1, SMTT(60) DEF TypeOK
<1> QED
  BY <1>1, <1>2, ZenonT(30) DEF EnsureCurrent

LEMMA PinValidatedMoves ==
  ASSUME IInv, NEW v \in Views, PinValidated(v)
  PROVE  ViewMoves(v, view'[v])
<1>1. PICK opened \in Reconnected(v) :
        view' = [view EXCEPT ![v] =
                   IF ViewValidates(v, opened)
                   THEN [@ EXCEPT !.opened = opened, !.pin = witness, !.validated = TRUE]
                   ELSE [@ EXCEPT !.opened = opened, !.leases = {}]]
  BY ZenonT(60), ZenonT(60) DEF PinValidated
<1>2. /\ view \in [Views -> ViewStates] /\ view[v] \in ViewStates
      /\ witness \in Witnesses \cup {NoWitness}
  BY ZenonT(30) DEF IInv, TypeOK
<1>3. /\ opened \in [Planes -> Nat]
      /\ \A p \in Planes : opened[p] \in {0, view[v].opened[p], canonical[p]}
  BY ReconnectedMappings DEF IInv
<1>4. view[v].leases = Leases /\ ~view[v].validated /\ "topology" \in Leases /\ view[v].seen = NoWitness
  BY ZenonT(60) DEF PinValidated, IInv, ViewInv, Leases
<1>5. CASE ViewValidates(v, opened)
  <2> DEFINE n == [view[v] EXCEPT !.opened = opened, !.pin = witness, !.validated = TRUE]
  <2>1. view'[v] = n
    BY <1>1, <1>2, <1>5, SMTT(60)
  <2>2. /\ n.leases = view[v].leases /\ n.seen = view[v].seen /\ n.pin = witness
        /\ n.opened = opened /\ n.read = view[v].read /\ n \in ViewStates
    BY <1>2, <1>3, ZenonT(60) DEF ViewStates
  <2>3. MatchesReaders(witness)
    BY <1>5, ZenonT(30) DEF ViewValidates, Validates
  <2>4. n.read \notin {"accepted"} \/ view[v].read \notin Planes
    BY <2>2, ZenonT(60) DEF Planes
  <2> HIDE DEF n
  <2> QED
    BY <1>3, <1>4, <2>1, <2>2, <2>3, <2>4, SMTT(60) DEF ViewMoves
<1>6. CASE ~ViewValidates(v, opened)
  <2> DEFINE n == [view[v] EXCEPT !.opened = opened, !.leases = {}]
  <2>1. view'[v] = n
    BY <1>1, <1>2, <1>6
  <2>2. /\ n.leases = {} /\ n.seen = view[v].seen /\ n.pin = view[v].pin
        /\ n.validated = view[v].validated
        /\ n.opened = opened /\ n.read = view[v].read /\ n \in ViewStates
    BY <1>2, <1>3, ZenonT(60) DEF ViewStates
  <2>3. n.read \notin {"accepted"} \/ view[v].read \notin Planes
    BY <2>2, Zenon DEF Planes
  <2> HIDE DEF n
  <2> QED
    BY <1>3, <1>4, <2>1, <2>2, <2>3, SMTT(60) DEF ViewMoves
<1> QED
  BY <1>5, <1>6, SMTT(60)

LEMMA PublishViewMoves ==
  ASSUME IInv, NEW v \in Views, PublishView(v)
  PROVE  ViewMoves(v, view'[v])
<1> DEFINE n == [view[v] EXCEPT !.validated = FALSE, !.leases = {}]
<1>1. view \in [Views -> ViewStates] /\ view[v] \in ViewStates
  BY DEF IInv, TypeOK
<1>2. view'[v] = n
  BY <1>1 DEF PublishView
<1>3. /\ n.leases = {} /\ ~n.validated /\ n.seen = view[v].seen /\ n.pin = view[v].pin
      /\ n.opened = view[v].opened /\ n.read = view[v].read /\ n \in ViewStates
  BY <1>1, Zenon DEF ViewStates
<1>4. n.read \notin {"accepted"} \/ view[v].read \notin Planes
  BY <1>3, ZenonT(30) DEF Planes
<1> HIDE DEF n
<1> QED
  BY <1>2, <1>3, <1>4, ZenonT(60) DEF ViewMoves

LEMMA ObserveValidatedMoves ==
  ASSUME IInv, NEW v \in Views, ObserveValidated(v)
  PROVE  ViewMoves(v, view'[v])
<1>1. PICK opened \in Reconnected(v) :
        view' = [view EXCEPT ![v] = [@ EXCEPT !.leases = {}, !.opened = opened, !.seen = witness]]
  BY Zenon, Zenon DEF ObserveValidated
<1> DEFINE n == [view[v] EXCEPT !.leases = {}, !.opened = opened, !.seen = witness]
<1>2. /\ view \in [Views -> ViewStates] /\ view[v] \in ViewStates /\ ~view[v].validated
      /\ witness \in Witnesses \cup {NoWitness}
  BY DEF IInv, TypeOK, ObserveValidated
<1>3. /\ opened \in [Planes -> Nat]
      /\ \A p \in Planes : opened[p] \in {0, view[v].opened[p], canonical[p]}
  BY ReconnectedMappings DEF IInv
<1>4. view'[v] = n
  BY <1>1, <1>2
<1>5. /\ n.leases = {} /\ n.validated = view[v].validated /\ n.seen = witness /\ n.pin = view[v].pin
      /\ n.opened = opened /\ n.read = view[v].read /\ n \in ViewStates
  BY <1>2, <1>3, Zenon DEF ViewStates
<1>6. n.read \notin {"accepted"} \/ view[v].read \notin Planes
  BY <1>5, SMTT(60) DEF Planes
<1> HIDE DEF n
<1> QED
  BY <1>2, <1>3, <1>4, <1>5, <1>6, SMTT(60) DEF ViewMoves

LEMMA PinObservedMoves ==
  ASSUME IInv, NEW v \in Views, PinObserved(v)
  PROVE  ViewMoves(v, view'[v])
<1> DEFINE n == [view[v] EXCEPT !.pin = view[v].seen, !.seen = NoWitness]
<1>1. view \in [Views -> ViewStates] /\ view[v] \in ViewStates
  BY DEF IInv, TypeOK
<1>2. view'[v] = n
  BY <1>1 DEF PinObserved
<1>3. /\ n.leases = view[v].leases /\ n.validated = view[v].validated
      /\ n.seen = NoWitness /\ n.pin = view[v].seen
      /\ n.opened = view[v].opened /\ n.read = view[v].read /\ n \in ViewStates
  BY <1>1, ZenonT(60) DEF ViewStates
<1>4. view[v].leases = {} /\ ~view[v].validated
  <2>1. view[v].leases = {}
    BY DEF PinObserved, IInv, ViewInv
  <2> QED
    BY <2>1, ZenonT(30) DEF IInv, ViewInv, Leases
<1>5. n.read \notin {"accepted"} \/ view[v].read \notin Planes
  BY <1>3, ZenonT(60) DEF Planes
<1> HIDE DEF n
<1> QED
  BY <1>2, <1>3, <1>4, <1>5, SMTT(60) DEF ViewMoves

LEMMA BeginReadMoves ==
  ASSUME IInv, NEW v \in Views, NEW p \in Planes, BeginRead(v, p)
  PROVE  ViewMoves(v, view'[v])
<1>1. PICK i \in EnsureCurrent(v, p) :
        view' = [view EXCEPT ![v].opened[p] = i,
                             ![v].read = IF Fenced(v, p, i) THEN p ELSE "none"]
  BY Zenon, Zenon DEF BeginRead
<1> DEFINE r == IF Fenced(v, p, i) THEN p ELSE "none"
           o == [view[v].opened EXCEPT ![p] = i]
           n == [view[v] EXCEPT !.opened = o, !.read = r]
<1>2. view \in [Views -> ViewStates] /\ view[v] \in ViewStates /\ view[v].opened \in [Planes -> Nat]
  BY ViewFields, ZenonT(60) DEF IInv, TypeOK
<1>3. i \in {0, view[v].opened[p], canonical[p]} /\ i \in Nat
  <2>1. i \in {0, view[v].opened[p], canonical[p]}
    BY <1>1, ZenonT(30) DEF EnsureCurrent
  <2>2. canonical[p] \in Nat /\ view[v].opened[p] \in Nat
    BY <1>2, SMTT(30) DEF IInv, TypeOK
  <2> QED
    BY <2>1, <2>2, SMTT(30)
<1>4. view'[v] = n
  BY <1>1, <1>2, ZenonT(30)
<1>5. /\ o \in [Planes -> Nat] /\ o[p] = i
      /\ \A q \in Planes : q # p => o[q] = view[v].opened[q]
  BY <1>2, <1>3
<1>6. r \in Planes \cup {"none", "accepted"} /\ r # "accepted"
  BY DEF Planes
<1> HIDE DEF o, r
<1>7. /\ n.leases = view[v].leases /\ n.validated = view[v].validated
      /\ n.seen = view[v].seen /\ n.pin = view[v].pin
      /\ n.opened = o /\ n.read = r /\ n \in ViewStates
  BY <1>2, <1>5, <1>6, Zenon DEF ViewStates
<1> HIDE DEF n
<1>8. \A l \in n.leases : l \in view[v].leases
  BY <1>7, ZenonT(60)
<1>9. n.leases # {} => "topology" \in n.leases /\ n.seen = NoWitness
  BY <1>7 DEF IInv, ViewInv
<1>10. n.validated => n.leases = Leases /\ n.pin = witness /\ MatchesReaders(witness)
  BY <1>7, Zenon DEF IInv, ViewInv
<1> QED
  BY <1>3, <1>4, <1>5, <1>6, <1>7, <1>8, <1>9, <1>10, SMTT(60) DEF ViewMoves

LEMMA EndReadMoves ==
  ASSUME IInv, NEW v \in Views, EndRead(v)
  PROVE  ViewMoves(v, view'[v])
<1> DEFINE r == IF Fenced(v, view[v].read, view[v].opened[view[v].read]) THEN "accepted" ELSE "none"
           n == [view[v] EXCEPT !.read = r]
<1>1. view \in [Views -> ViewStates] /\ view[v] \in ViewStates
  BY DEF IInv, TypeOK
<1>2. view'[v] = n
  BY <1>1, ZenonT(30) DEF EndRead
<1>3. /\ r \in Planes \cup {"none", "accepted"}
      /\ r = "accepted" => Fenced(v, view[v].read, view[v].opened[view[v].read])
  OBVIOUS
<1> HIDE DEF r
<1>4. /\ n.leases = view[v].leases /\ n.validated = view[v].validated
      /\ n.seen = view[v].seen /\ n.pin = view[v].pin
      /\ n.opened = view[v].opened /\ n.read = r /\ n \in ViewStates
  BY <1>1, <1>3, ZenonT(60) DEF ViewStates
<1> HIDE DEF n
<1>5. n.leases # {} => "topology" \in n.leases /\ n.seen = NoWitness
  BY <1>4, SMTT(60) DEF IInv, ViewInv
<1>6. n.validated => n.leases = Leases /\ n.pin = witness /\ MatchesReaders(witness)
  BY <1>4, Zenon DEF IInv, ViewInv
<1> QED
  BY <1>2, <1>3, <1>4, <1>5, <1>6, ZenonT(60) DEF ViewMoves

LEMMA ReadEffect ==
  ASSUME IInv, NEW v \in Views, Read(v)
  PROVE  /\ UNCHANGED <<files, canonical, witness, io, handle, writing, acked, desired, used>>
         /\ view' \in [Views -> ViewStates]
         /\ ViewMoves(v, view'[v])
         /\ \A u \in Views : u # v => view'[u] = view[u]
<1>1. UNCHANGED <<files, canonical, witness, io, handle, writing, acked, desired, used>>
  BY Zenon, Zenon DEF Read, NewView, AcquireLease, PinValidated, PublishView, ObserveValidated, PinObserved,
         EndRead, BeginRead
<1>2. ViewMoves(v, view'[v])
  BY NewViewMoves, AcquireLeaseMoves, PinValidatedMoves, PublishViewMoves, ObserveValidatedMoves,
     PinObservedMoves, BeginReadMoves, EndReadMoves, ZenonT(60) DEF Read
<1>3. view \in [Views -> ViewStates]
  BY ZenonT(30) DEF IInv, TypeOK
<1>4. DOMAIN view' = Views /\ view' = [u \in Views |-> view'[u]] /\ \A u \in Views : u # v => view'[u] = view[u]
  <2>1. CASE NewView(v)
    BY <1>3, <2>1, Zenon DEF NewView
  <2>2. CASE AcquireLease(v)
    BY <1>3, <2>2, Zenon DEF AcquireLease
  <2>3. CASE PinValidated(v)
    BY <1>3, <2>3, Zenon DEF PinValidated
  <2>4. CASE PublishView(v)
    BY <1>3, <2>4, Zenon DEF PublishView
  <2>5. CASE ObserveValidated(v)
    BY <1>3, <2>5, Zenon DEF ObserveValidated
  <2>6. CASE PinObserved(v)
    BY <1>3, <2>6, Zenon DEF PinObserved
  <2>7. CASE EndRead(v)
    BY <1>3, <2>7, Zenon DEF EndRead
  <2>8. CASE \E p \in Planes : BeginRead(v, p)
    BY <1>3, <2>8, ZenonT(60) DEF BeginRead
  <2> QED
    BY <2>1, <2>2, <2>3, <2>4, <2>5, <2>6, <2>7, <2>8, SMTT(60) DEF Read
<1>5. \A u \in Views : view'[u] \in ViewStates
  BY <1>2, <1>3, <1>4 DEF ViewMoves
<1> QED
  BY <1>1, <1>2, <1>4, <1>5

-----------------------------------------------------------------------------
\* The steps that touch neither a file, nor the paths, nor a view.
Quiet ==
  \/ Start \/ Project \/ ProjectCurrent \/ Begin \/ NextPublicationEpoch \/ EpochsExhausted
  \/ Stage \/ Reopen \/ StoreHandle \/ SwapRefused \/ StepFails \/ Crash \/ ChangeDesired
  \/ \E p \in Planes : ConfirmWrite(p)

\* The steps that leave the views alone, one kind per line.
Steps ==
  \/ Quiet
  \/ BeginGenerationSwap \/ CommitGenerationSwap \/ RenameFails
  \/ CommitTopologyPublication
  \/ \E p \in Planes : BeginWrite(p)

LEMMA NextCases ==
  ASSUME Next
  PROVE  Steps \/ \E v \in Views : Read(v)
BY SMTT(60) DEF Next, Publish, Fail, Write, Steps, Quiet

LEMMA QuietFrame ==
  ASSUME Quiet
  PROVE  UNCHANGED <<files, canonical, witness, view>>
BY Zenon DEF Quiet, Start, Project, ProjectCurrent, Begin, NextPublicationEpoch, EpochsExhausted, Stage,
       Reopen, StoreHandle, SwapRefused, StepFails, Crash, ChangeDesired, ConfirmWrite, vars

\* An injected failure counts against its bound and ends the attempt.
LEMMA FaultEffect ==
  ASSUME TypeOK, NEW point, Fault(point)
  PROVE  AfterFailure /\ used' \in [writes : [Planes -> Nat], changes : Nat, crashes : Nat, faults : Nat]
         /\ used'.writes = used.writes
<1>1. used \in [writes : [Planes -> Nat], changes : Nat, crashes : Nat, faults : Nat]
  BY DEF TypeOK
<1>2. used' = [used EXCEPT !.faults = used.faults + 1] /\ AfterFailure
  BY DEF Fault
<1> QED
  BY <1>1, <1>2

\* The control state, the handles and the planes being written keep their
\* types, whatever step is taken.
LEMMA ControlTypes ==
  ASSUME IInv, Steps
  PROVE  /\ io' \in IoStates
         /\ writing' \in SUBSET Planes
         /\ used' \in [writes : [Planes -> Nat], changes : Nat, crashes : Nat, faults : Nat]
         /\ desired' \in Topologies
<1>1. /\ io \in IoStates /\ writing \in SUBSET Planes /\ desired \in Topologies
      /\ used \in [writes : [Planes -> Nat], changes : Nat, crashes : Nat, faults : Nat]
      /\ TypeOK
  BY SMTT(60) DEF IInv, TypeOK
<1>2. CASE Start \/ Project \/ Begin \/ NextPublicationEpoch \/ Stage \/ BeginGenerationSwap
           \/ CommitGenerationSwap \/ Reopen \/ StoreHandle
  <2>1. UNCHANGED <<writing, used, desired>>
    BY <1>2, Zenon DEF Start, Project, Begin, NextPublicationEpoch, Stage, BeginGenerationSwap,
                CommitGenerationSwap, Reopen, StoreHandle
  <2>2. io' \in IoStates
    BY <1>1, <1>2, StartEffect, ProjectEffect, BeginEffect, AllocateEffect, StageEffect, SwapEffect,
       RenameEffect, ReopenEffect, StoreEffect, ZenonT(60)
  <2> QED
    BY <1>1, <2>1, <2>2, ZenonT(30)
<1>3. CASE ProjectCurrent
  BY <1>1, <1>3, ZenonT(30) DEF ProjectCurrent, vars
<1>4. CASE EpochsExhausted \/ SwapRefused
  <2>1. AfterFailure /\ UNCHANGED <<used, desired>>
    BY <1>4 DEF EpochsExhausted, SwapRefused
  <2> QED
    BY <1>1, <2>1, FailureEffect, ZenonT(30)
<1>5. CASE StepFails \/ RenameFails
  <2>1. (\E x : Fault(x)) /\ UNCHANGED desired
    BY <1>5 DEF StepFails, RenameFails
  <2> QED
    BY <1>1, <2>1, FailureEffect, FaultEffect, Zenon
<1>6. CASE CommitTopologyPublication
  <2>1. CASE Fault("sync_parent_directory")
    BY <1>1, <1>6, <2>1, FailureEffect, FaultEffect, SMTT(60) DEF CommitTopologyPublication
  <2>2. CASE /\ io' = [Down EXCEPT !.pc = "idle", !.startup = FALSE]
             /\ UNCHANGED <<handle, writing, used>>
    BY <1>1, <1>6, <2>2, IdleFields, Zenon DEF CommitTopologyPublication
  <2> QED
    BY <1>6, <2>1, <2>2, Zenon DEF CommitTopologyPublication
<1>7. CASE Crash
  <2>1. io' = Down /\ writing' = {} /\ desired' = desired /\ used' = [used EXCEPT !.crashes = used.crashes + 1]
    BY <1>7 DEF Crash
  <2> QED
    BY <1>1, <2>1, DownFields, SMTT(60)
<1>8. CASE ChangeDesired
  <2>1. io' = io /\ writing' = writing /\ desired' \in Topologies /\ used' = [used EXCEPT !.changes = used.changes + 1]
    BY <1>8, ZenonT(30) DEF ChangeDesired
  <2> QED
    BY <1>1, <2>1
<1>9. CASE \E p \in Planes : ConfirmWrite(p)
  BY <1>1, <1>9, ZenonT(30) DEF ConfirmWrite
<1>10. ASSUME NEW p \in Planes, BeginWrite(p)
       PROVE  /\ io' \in IoStates /\ writing' \in SUBSET Planes /\ desired' \in Topologies
              /\ used' \in [writes : [Planes -> Nat], changes : Nat, crashes : Nat, faults : Nat]
  <2>1. /\ io' = io /\ writing' = writing \cup {p} /\ desired' = desired
        /\ used' = [used EXCEPT !.writes[p] = used.writes[p] + 1]
    BY <1>10, ZenonT(30) DEF BeginWrite
  <2> QED
    BY <1>1, <2>1
<1> QED
  BY <1>2, <1>3, <1>4, <1>5, <1>6, <1>7, <1>8, <1>9, <1>10, ZenonT(60) DEF Steps, Quiet

\* The handles change when a plane is stored and when the process ends.
LEMMA HandleFrame ==
  ASSUME IInv, Steps
  PROVE  \/ UNCHANGED <<handle, writing>>
         \/ handle' = [p \in Planes |-> 0] /\ writing' = {}
         \/ StoreHandle
         \/ UNCHANGED handle /\ \E p \in Planes : BeginWrite(p) \/ ConfirmWrite(p)
<1>1. CASE \E x : Fault(x)
  BY <1>1, FaultEffect, FailureEffect, ZenonT(30) DEF IInv
<1>2. CASE AfterFailure
  BY <1>2, FailureEffect, SMTT(60) DEF IInv
<1> QED
  BY <1>1, <1>2, Zenon DEF Steps, Quiet, Start, Project, ProjectCurrent, Begin, NextPublicationEpoch,
       EpochsExhausted, Stage, Reopen, SwapRefused, StepFails, Crash, ChangeDesired, ConfirmWrite,
       BeginGenerationSwap, CommitGenerationSwap, RenameFails, CommitTopologyPublication, BeginWrite, vars

LEMMA AckedFrame ==
  ASSUME IInv, Steps
  PROVE  UNCHANGED acked \/ StoreHandle \/ \E p \in Planes : ConfirmWrite(p)
BY Zenon DEF Steps, Quiet, Start, Project, ProjectCurrent, Begin, NextPublicationEpoch,
       EpochsExhausted, Stage, Reopen, SwapRefused, StepFails, Crash, ChangeDesired,
       BeginGenerationSwap, CommitGenerationSwap, RenameFails, CommitTopologyPublication, BeginWrite, vars

\* A file in use stays in the table.
LEMMA FilesGrow ==
  ASSUME IInv, Steps
  PROVE  /\ files' \in Seq(FileRecords) /\ Len(files') \in Nat /\ Len(files) \in Nat
         /\ Len(files) <= Len(files')
         /\ canonical' \in [Planes -> 0 .. Len(files')]
<1>1. TypeOK /\ files \in Seq(FileRecords) /\ Len(files) \in Nat /\ canonical \in [Planes -> 0 .. Len(files)]
  BY SMTT(60) DEF IInv, TypeOK
<1>2. CASE Quiet
  BY <1>1, <1>2, QuietFrame
<1>3. CASE BeginGenerationSwap
  <2>1. canonical' = canonical
    BY <1>3, ZenonT(30) DEF BeginGenerationSwap
  <2> QED
    BY <1>1, <1>3, <2>1, SwapFiles, SMTT(60)
<1>4. CASE RenameFails
  <2>1. canonical' = canonical
    BY <1>4, ZenonT(30) DEF RenameFails
  <2> QED
    BY <1>1, <1>4, <2>1, RollbackFiles, SMTT(60)
<1>5. CASE CommitGenerationSwap
  BY <1>1, <1>5, RenameFiles, SMTT(60)
<1>6. CASE CommitTopologyPublication
  BY <1>1, <1>6, SMTT(60) DEF CommitTopologyPublication
<1>7. ASSUME NEW p \in Planes, BeginWrite(p)
      PROVE  /\ files' \in Seq(FileRecords) /\ Len(files') = Len(files)
             /\ canonical' = canonical
  BY <1>1, <1>7, WriteFiles, Zenon DEF BeginWrite
<1> QED
  BY <1>1, <1>2, <1>3, <1>4, <1>5, <1>6, <1>7, SMTT(60) DEF Steps

LEMMA WitnessType ==
  ASSUME IInv, Steps
  PROVE  witness' \in Witnesses \cup {NoWitness}
<1>1. CASE CommitTopologyPublication
  <2>1. witness' = WitnessOf(io.epoch) /\ CommitAllowed
    BY <1>1, ZenonT(30) DEF CommitTopologyPublication
  <2>2. \A p \in Planes : canonical[p] \in Inodes
    BY <2>1, SMTT(30) DEF CommitAllowed, Stable, IInv, TypeOK, Inodes
  <2>3. \A p \in Planes : /\ files[canonical[p]].gen \in Generations
                          /\ files[canonical[p]].plane \in Planes
                          /\ files[canonical[p]].topo \in Topologies
    BY <2>2, FileFields, ZenonT(60) DEF IInv
  <2>4. \A p \in Planes : Layout(canonical[p]) \in Layouts
    BY <2>3 DEF Layout, Layouts
  <2>5. io.epoch \in 1 .. MaxEpoch
    <3>1. io.epoch \in Nat /\ io.epoch <= MaxEpoch /\ witness.epoch \in Nat
      BY IoFields, WitnessEpoch, Zenon DEF IInv, TypeOK
    <3> QED
      BY <2>1, <3>1, PublicationAssumption, SMTT(60) DEF CommitAllowed
  <2>6. WitnessOf(io.epoch) \in Witnesses
    <3> HIDE DEF Layout
    <3> QED
      BY <2>3, <2>4, <2>5, Zenon DEF WitnessOf, Witnesses
  <2> QED
    BY <2>1, <2>6
<1>2. CASE ~CommitTopologyPublication
  <2>1. witness' = witness
    BY <1>2, QuietFrame, ZenonT(30) DEF Steps, BeginGenerationSwap, CommitGenerationSwap, RenameFails, BeginWrite
  <2> QED
    BY <2>1, Zenon DEF IInv, TypeOK
<1> QED
  BY <1>1, <1>2

LEMMA HandleType ==
  ASSUME IInv, Steps
  PROVE  handle' \in [Planes -> 0 .. Len(files')] /\ acked' \in [Planes -> Nat]
<1>1. /\ TypeOK /\ handle \in [Planes -> 0 .. Len(files)] /\ acked \in [Planes -> Nat]
      /\ io.plane \in Planes /\ canonical \in [Planes -> 0 .. Len(files)]
  BY IoFields, Zenon DEF IInv, TypeOK
<1>2. Len(files) \in Nat /\ Len(files') \in Nat /\ Len(files) <= Len(files')
  BY FilesGrow
<1>3. CASE StoreHandle
  <2>1. files' = files /\ handle' = [handle EXCEPT ![io.plane] = canonical[io.plane]]
    BY <1>3, Zenon DEF StoreHandle
  <2>2. canonical[io.plane] \in Inodes
    BY <1>1, <1>3, SMTT(60) DEF StoreHandle, IInv, PubInv, Inodes
  <2>3. files[canonical[io.plane]].data \in Nat
    BY <1>1, <2>2, FileFields, Zenon
  <2>4. acked' \in [Planes -> Nat]
    BY <1>1, <1>3, <2>3, Zenon DEF StoreHandle
  <2> QED
    BY <1>1, <2>1, <2>4, Zenon
<1>4. ASSUME NEW p \in Planes, ConfirmWrite(p)
      PROVE  acked' \in [Planes -> Nat] /\ handle' = handle
  <2>1. handle[p] \in Inodes
    BY <1>1, <1>4, SMTT(60) DEF ConfirmWrite, Authoritative, Inodes
  <2>2. files[handle[p]].data \in Nat
    BY <1>1, <2>1, FileFields, ZenonT(30)
  <2> QED
    BY <1>1, <1>4, <2>2, Zenon DEF ConfirmWrite
<1>5. CASE ~StoreHandle
  <2>1. acked' \in [Planes -> Nat]
    BY <1>1, <1>4, <1>5, AckedFrame, ZenonT(30)
  <2>2. handle' = handle \/ handle' = [p \in Planes |-> 0]
    BY <1>5, HandleFrame, ZenonT(30)
  <2> QED
    BY <1>1, <1>2, <2>1, <2>2, SMTT(60)
<1> QED
  BY <1>3, <1>5, SMTT(60)

LEMMA TypeStep ==
  ASSUME IInv, Next
  PROVE  TypeOK'
<1>1. CASE Steps
  <2>1. view' = view
    BY <1>1, QuietFrame, ZenonT(30) DEF Steps, BeginGenerationSwap, CommitGenerationSwap, RenameFails, BeginWrite,
       CommitTopologyPublication
  <2>2. \A v \in Views, p \in Planes : view'[v].opened[p] \in 0 .. Len(files')
    <3>1. \A v \in Views, p \in Planes : view[v].opened[p] \in 0 .. Len(files)
      BY ZenonT(30) DEF IInv, TypeOK
    <3>2. Len(files) \in Nat /\ Len(files') \in Nat /\ Len(files) <= Len(files')
      BY <1>1, FilesGrow, Zenon
    <3> QED
      BY <2>1, <3>1, <3>2, SMTT(60)
  <2>3. view' \in [Views -> ViewStates]
    BY <2>1, ZenonT(60) DEF IInv, TypeOK
  <2> QED
    BY <1>1, <2>2, <2>3, ControlTypes, FilesGrow, WitnessType, HandleType, ZenonT(60) DEF TypeOK
<1>2. ASSUME NEW v \in Views, Read(v)
      PROVE  TypeOK'
  <2>1. /\ UNCHANGED <<files, canonical, witness, io, handle, writing, acked, desired, used>>
        /\ view' \in [Views -> ViewStates]
        /\ ViewMoves(v, view'[v])
        /\ \A u \in Views : u # v => view'[u] = view[u]
    BY <1>2, ReadEffect, Zenon
  <2>2. \A p \in Planes : view'[v].opened[p] \in 0 .. Len(files)
    <3>1. \A p \in Planes : view'[v].opened[p] \in {0, view[v].opened[p], canonical[p]}
      BY <2>1, Zenon DEF ViewMoves
    <3>2. \A p \in Planes : 0 \in 0 .. Len(files) /\ view[v].opened[p] \in 0 .. Len(files)
                            /\ canonical[p] \in 0 .. Len(files)
      BY DEF IInv, TypeOK
    <3> QED
      BY <3>1, <3>2, Zenon
  <2>3. \A u \in Views, p \in Planes : view'[u].opened[p] \in 0 .. Len(files)
    BY <2>1, <2>2, ZenonT(60) DEF IInv, TypeOK
  <2> QED
    BY <2>1, <2>3 DEF IInv, TypeOK
<1> QED
  BY <1>1, <1>2, NextCases, Zenon
-----------------------------------------------------------------------------
\* The steps that change a file in place keep every header and every path.
SameHeaders ==
  /\ Len(files') = Len(files)
  /\ \A i \in Inodes :
       /\ files'[i].plane = files[i].plane /\ files'[i].topo = files[i].topo
       /\ files'[i].epoch = files[i].epoch /\ files'[i].gen = files[i].gen
  /\ UNCHANGED <<canonical, witness>>

LEMMA InPlaceHeaders ==
  ASSUME IInv, BeginGenerationSwap \/ RenameFails \/ \E p \in Planes : BeginWrite(p)
  PROVE  SameHeaders
<1>1. TypeOK
  BY ZenonT(30) DEF IInv
<1>2. UNCHANGED <<canonical, witness>>
  BY DEF BeginGenerationSwap, RenameFails, BeginWrite
<1> QED
  BY <1>1, <1>2, SwapFiles, RollbackFiles, WriteFiles DEF SameHeaders

\* A failed rename restores the canonical file or none.
LEMMA RollbackTarget ==
  ASSUME IInv, RenameFails
  PROVE  io.replaced # 0 => canonical[io.plane] = io.replaced
BY Zenon DEF IInv, PubInv, RenameFails

LEMMA PlanesKept ==
  ASSUME IInv, Steps, NEW i \in Inodes
  PROVE  files'[i].plane = files[i].plane
<1>1. CASE Quiet \/ CommitTopologyPublication
  BY <1>1, QuietFrame, Zenon DEF CommitTopologyPublication
<1>2. CASE CommitGenerationSwap
  BY <1>2, RenameFiles, ZenonT(60)
<1>3. CASE BeginGenerationSwap \/ RenameFails \/ \E p \in Planes : BeginWrite(p)
  BY <1>3, InPlaceHeaders, SMTT(60) DEF SameHeaders
<1> QED
  BY <1>1, <1>2, <1>3, SMTT(60) DEF Steps

-----------------------------------------------------------------------------
\* The number of writes of a plane changes with a write only.
LEMMA WritesCounted ==
  ASSUME IInv, Steps
  PROVE  \/ used'.writes = used.writes
         \/ \E p \in Planes : BeginWrite(p) /\ used'.writes = [used.writes EXCEPT ![p] = used.writes[p] + 1]
<1>1. /\ TypeOK
      /\ used \in [writes : [Planes -> Nat], changes : Nat, crashes : Nat, faults : Nat]
  BY ZenonT(30) DEF IInv, TypeOK
<1>2. CASE \E x : Fault(x)
  BY <1>1, <1>2, FaultEffect, ZenonT(30)
<1>3. CASE used' = used
  BY <1>3
<1>4. CASE Crash
  BY <1>1, <1>4 DEF Crash
<1>5. CASE ChangeDesired
  BY <1>1, <1>5 DEF ChangeDesired
<1>6. ASSUME NEW p \in Planes, BeginWrite(p)
      PROVE  used'.writes = [used.writes EXCEPT ![p] = used.writes[p] + 1]
  <2>1. used' = [used EXCEPT !.writes[p] = used.writes[p] + 1]
    BY <1>6, ZenonT(60) DEF BeginWrite
  <2> QED
    BY <1>1, <2>1, SMTT(60)
<1> QED
  BY <1>2, <1>3, <1>4, <1>5, <1>6, ZenonT(60)
  DEF Steps, Quiet, Start, Project, ProjectCurrent, Begin, NextPublicationEpoch, EpochsExhausted,
      Stage, Reopen, StoreHandle, SwapRefused, StepFails, ConfirmWrite, BeginGenerationSwap,
      CommitGenerationSwap, RenameFails, CommitTopologyPublication, vars

\* A step that ends an attempt, or that does not move it, frees leases only.
LEMMA LeasesFreed ==
  ASSUME IInv, Steps
  PROVE  \A p \in Planes : p \in Exclusive' => p \in Exclusive \/ (Stage /\ p = io.plane)
<1>1. TypeOK
  BY ZenonT(30) DEF IInv
<1>2. \A p \in Planes : p \in Exclusive' <=>
          /\ p = io'.plane
          /\ io'.pc \in {"invalidate", "rename", "reopen"} \/ (io'.pc = "store" /\ io'.plane = "health")
  BY ZenonT(30) DEF Exclusive, Planes
<1>3. \A p \in Planes : p \in Exclusive <=>
          /\ p = io.plane
          /\ io.pc \in {"invalidate", "rename", "reopen"} \/ (io.pc = "store" /\ io.plane = "health")
  BY ZenonT(30) DEF Exclusive, Planes
<1>4. CASE io' = io
  BY <1>2, <1>3, <1>4, ZenonT(30)
<1>5. CASE io'.pc \in {"down", "idle", "begin", "allocate", "stage", "commit"}
  BY <1>2, <1>5, SMTT(60)
<1>6. CASE AfterFailure
  BY <1>1, <1>5, <1>6, FailureEffect, ZenonT(60)
<1>7. CASE Stage
  BY <1>2, <1>7, StageEffect, SMTT(60)
<1>8. CASE BeginGenerationSwap
  BY <1>1, <1>2, <1>3, <1>8, SwapEffect, ZenonT(60) DEF BeginGenerationSwap
<1>9. CASE CommitGenerationSwap
  BY <1>1, <1>2, <1>3, <1>9, RenameEffect, ZenonT(60) DEF CommitGenerationSwap
<1>10. CASE Reopen
  BY <1>1, <1>2, <1>3, <1>10, ReopenEffect, ZenonT(60) DEF Reopen
<1>11. CASE Start \/ Project \/ Begin \/ NextPublicationEpoch \/ StoreHandle
  BY <1>1, <1>5, <1>11, StartEffect, ProjectEffect, BeginEffect, AllocateEffect, StoreEffect, ZenonT(60)
<1>12. CASE Crash
  BY <1>5, <1>12, DownFields, SMTT(60) DEF Crash
<1>13. CASE CommitTopologyPublication
  BY <1>5, <1>6, <1>13, IdleFields, ZenonT(60) DEF CommitTopologyPublication, Fault
<1> QED
  BY <1>4, <1>6, <1>7, <1>8, <1>9, <1>10, <1>11, <1>12, <1>13, SMTT(60)
  DEF Steps, Quiet, ProjectCurrent, EpochsExhausted, SwapRefused, StepFails, RenameFails, Fault,
      ChangeDesired, ConfirmWrite, BeginWrite, vars

\* A plane in a write transaction keeps its canonical, stable file.
LEMMA WritersUndisturbed ==
  ASSUME IInv, Steps, NEW p \in writing
  PROVE  canonical'[p] = canonical[p] /\ (Stable(canonical[p]) => Stable(canonical[p])')
<1>1. /\ TypeOK /\ p \in Planes /\ p \notin Exclusive /\ io.plane \in Planes
      /\ Authoritative(p, handle[p])
  BY IoFields, ZenonT(60) DEF IInv, TypeOK, WriteInv
<1>2. canonical[p] \in Inodes /\ files[canonical[p]].odd \in BOOLEAN /\ ~files[canonical[p]].odd
  <2>1. canonical[p] \in Inodes
    BY <1>1 DEF Authoritative, TypeOK, Inodes
  <2> QED
    BY <1>1, <2>1, FileFields, ZenonT(30) DEF Authoritative, Stable
<1>3. CASE Quiet \/ CommitTopologyPublication
  BY <1>3, QuietFrame, ZenonT(30) DEF CommitTopologyPublication, Stable
<1>4. CASE BeginGenerationSwap
  <2>1. p # io.plane /\ canonical' = canonical
    BY <1>1, <1>4, ZenonT(60) DEF BeginGenerationSwap, Exclusive
  <2>2. canonical[p] # Replaced
    <3>1. Replaced # 0 => Replaced = canonical[io.plane]
      BY <1>4, ZenonT(30) DEF BeginGenerationSwap, Authoritative
    <3>2. files[canonical[p]].plane = p
      BY <1>1, <1>2, ZenonT(30) DEF IInv, FileInv, Inodes
    <3>3. canonical[io.plane] # 0 => files[canonical[io.plane]].plane = io.plane
      BY <1>1, ZenonT(30) DEF IInv, FileInv
    <3> QED
      BY <1>2, <2>1, <3>1, <3>2, <3>3, SMTT(60) DEF Inodes
  <2>3. ~files'[canonical[p]].odd
    BY <1>1, <1>2, <1>4, <2>2, SwapFiles, ZenonT(30)
  <2> QED
    BY <1>2, <2>1, <2>3 DEF Stable, Inodes
<1>5. CASE RenameFails
  <2>1. canonical' = canonical /\ io.pc = "rename" /\ p # io.plane
    BY <1>1, <1>5, ZenonT(30) DEF RenameFails, Exclusive
  <2>2. canonical[p] # io.replaced
    <3>1. io.replaced # 0 => io.replaced = canonical[io.plane]
      BY <1>5, RollbackTarget, SMTT(60)
    <3>2. files[canonical[p]].plane = p
      BY <1>1, <1>2 DEF IInv, FileInv, Inodes
    <3>3. canonical[io.plane] # 0 => files[canonical[io.plane]].plane = io.plane
      BY <1>1 DEF IInv, FileInv
    <3> QED
      BY <1>2, <2>1, <3>1, <3>2, <3>3, SMTT(60) DEF Inodes
  <2>3. ~files'[canonical[p]].odd
    BY <1>1, <1>2, <1>5, <2>2, RollbackFiles, ZenonT(60)
  <2> QED
    BY <1>2, <2>1, <2>3, ZenonT(30) DEF Stable, Inodes
<1>6. CASE CommitGenerationSwap
  <2>1. p # io.plane
    BY <1>1, <1>6, ZenonT(30) DEF CommitGenerationSwap, Exclusive
  <2> QED
    BY <1>1, <1>2, <1>6, <2>1, RenameFiles, SMTT(60) DEF Stable
<1>7. ASSUME NEW q \in Planes, BeginWrite(q)
      PROVE  canonical'[p] = canonical[p] /\ (Stable(canonical[p]) => Stable(canonical[p])')
  <2>1. canonical' = canonical
    BY <1>7, SMTT(60) DEF BeginWrite
  <2>2. ~files'[canonical[p]].odd
    BY <1>1, <1>2, <1>7, WriteFiles, ZenonT(60)
  <2> QED
    BY <1>2, <2>1, <2>2, ZenonT(30) DEF Stable, Inodes
<1> QED
  BY <1>3, <1>4, <1>5, <1>6, <1>7, ZenonT(30) DEF Steps

\* The data of a file: only a write through the handle changes it.
LEMMA DataKept ==
  ASSUME IInv, Steps, NEW i \in Inodes
  PROVE  \/ files'[i].data = files[i].data
         \/ \E p \in Planes : BeginWrite(p) /\ i = handle[p] /\ files'[i].data = used.writes[p] + 1
<1>1. TypeOK
  BY DEF IInv
<1>2. CASE Quiet \/ CommitTopologyPublication
  BY <1>2, QuietFrame, SMTT(60) DEF CommitTopologyPublication
<1>3. CASE BeginGenerationSwap
  BY <1>1, <1>3, SwapFiles, ZenonT(60)
<1>4. CASE RenameFails
  BY <1>1, <1>4, RollbackFiles, ZenonT(60)
<1>5. CASE CommitGenerationSwap
  BY <1>5, RenameFiles, ZenonT(30)
<1>6. ASSUME NEW p \in Planes, BeginWrite(p)
      PROVE  files'[i].data = files[i].data \/ (i = handle[p] /\ files'[i].data = used.writes[p] + 1)
  BY <1>1, <1>6, WriteFiles, ZenonT(30)
<1> QED
  BY <1>2, <1>3, <1>4, <1>5, <1>6, SMTT(60) DEF Steps

\* The counters as numbers.
LEMMA WriteNumbers ==
  ASSUME IInv
  PROVE  /\ \A p \in Planes : acked[p] \in Nat /\ used.writes[p] \in Nat
         /\ \A i \in Inodes : files[i].data \in Nat /\ files[i].plane \in Planes
         /\ \A p \in Planes : handle[p] # 0 => handle[p] \in Inodes
         /\ \A p \in Planes : canonical[p] # 0 => canonical[p] \in Inodes
         /\ io.plane \in Planes
<1>1. TypeOK /\ io.plane \in Planes
  BY IoFields, ZenonT(30) DEF IInv
<1>2. \A i \in Inodes : files[i].data \in Nat /\ files[i].plane \in Planes
  BY <1>1, FileFields, SMTT(60)
<1>3. \A p \in Planes : acked[p] \in Nat /\ used.writes[p] \in Nat
  BY <1>1, Zenon DEF TypeOK
<1>4. \A p \in Planes : (handle[p] # 0 => handle[p] \in Inodes) /\ (canonical[p] # 0 => canonical[p] \in Inodes)
  BY <1>1, SMTT(60) DEF TypeOK, Inodes
<1> QED
  BY <1>1, <1>2, <1>3, <1>4, ZenonT(30)

LEMMA WritesGrow ==
  ASSUME IInv, Steps, NEW p \in Planes
  PROVE  used'.writes[p] \in Nat /\ used'.writes[p] >= used.writes[p]
<1>1. used.writes \in [Planes -> Nat] /\ used.writes[p] \in Nat
  BY ZenonT(30) DEF IInv, TypeOK
<1>2. CASE used'.writes = used.writes
  BY <1>1, <1>2
<1>3. ASSUME NEW q \in Planes, used'.writes = [used.writes EXCEPT ![q] = used.writes[q] + 1]
      PROVE  used'.writes[p] \in Nat /\ used'.writes[p] >= used.writes[p]
  <2>1. used'.writes[p] = IF p = q THEN used.writes[p] + 1 ELSE used.writes[p]
    BY <1>1, <1>3, ZenonT(30)
  <2> QED
    BY <1>1, <2>1
<1> QED
  BY <1>2, <1>3, WritesCounted, Zenon

\* No file holds more writes than were made; a file in use never loses one.
LEMMA DataStep ==
  ASSUME IInv, Steps, NEW i \in Inodes
  PROVE  /\ files'[i].data >= files[i].data
         /\ files'[i].data <= used'.writes[files'[i].plane]
<1>1. /\ files[i].data \in Nat /\ files[i].plane \in Planes /\ files'[i].plane = files[i].plane
      /\ files[i].data <= used.writes[files[i].plane]
      /\ \A p \in Planes : used.writes[p] \in Nat
      /\ used.writes \in [Planes -> Nat]
  BY WriteNumbers, PlanesKept, Zenon DEF IInv, WriteInv, TypeOK
<1>2. \A p \in Planes : used'.writes[p] \in Nat /\ used'.writes[p] >= used.writes[p]
  BY WritesGrow, ZenonT(60)
<1>3. CASE files'[i].data = files[i].data
  BY <1>1, <1>2, <1>3, SMTT(60)
<1>4. ASSUME NEW p \in Planes, BeginWrite(p), i = handle[p], files'[i].data = used.writes[p] + 1
      PROVE  /\ files'[i].data >= files[i].data
             /\ files'[i].data <= used'.writes[files'[i].plane]
  <2>1. files[i].plane = p
    BY <1>4, SMTT(60) DEF IInv, WriteInv, Inodes
  <2>2. used'.writes[p] = used.writes[p] + 1
    <3>1. used' = [used EXCEPT !.writes[p] = used.writes[p] + 1]
      BY <1>4, Zenon DEF BeginWrite
    <3>2. used \in [writes : [Planes -> Nat], changes : Nat, crashes : Nat, faults : Nat]
      BY DEF IInv, TypeOK
    <3> QED
      BY <3>1, <3>2, SMTT(60)
  <2> QED
    BY <1>1, <1>4, <2>1, <2>2, SMTT(60)
<1> QED
  BY <1>3, <1>4, DataKept, ZenonT(60)

LEMMA WritingStep ==
  ASSUME IInv, Steps, NEW p \in writing'
  PROVE  (Authoritative(p, handle[p]) /\ p \notin Exclusive)'
<1>1. CASE p \in writing
  <2>1. /\ p \in Planes /\ Authoritative(p, handle[p]) /\ p \notin Exclusive
    BY <1>1, Zenon DEF IInv, WriteInv, TypeOK
  <2>2. p \notin Exclusive'
    <3>1. Stage => p # io.plane
      BY <1>1, SMTT(60) DEF Stage, CanExclude, Shared
    <3> QED
      BY <2>1, <3>1, LeasesFreed, ZenonT(60)
  <2>3. handle'[p] = handle[p]
    <3>1. CASE StoreHandle
      <4>1. handle' = [handle EXCEPT ![io.plane] = canonical[io.plane]]
        BY <3>1, SMTT(60) DEF StoreHandle
      <4> QED
        BY <2>1, <4>1, Zenon DEF Authoritative, IInv, TypeOK
    <3>2. CASE ~StoreHandle
      BY <3>2, HandleFrame, Zenon
    <3> QED
      BY <3>1, <3>2, Zenon
  <2>4. canonical'[p] = canonical[p] /\ (Stable(canonical[p]) => Stable(canonical[p])')
    BY <1>1, WritersUndisturbed, Zenon
  <2> QED
    BY <2>1, <2>2, <2>3, <2>4, ZenonT(60) DEF Authoritative
<1>2. CASE p \notin writing
  <2>1. BeginWrite(p) /\ p \in Planes
    <3>1. CASE \E q \in Planes : BeginWrite(q)
      BY <1>2, <3>1, SMTT(60) DEF BeginWrite
    <3>2. CASE StoreHandle \/ \E q \in Planes : ConfirmWrite(q)
      BY <1>2, <3>2, Zenon DEF StoreHandle, ConfirmWrite
    <3> QED
      BY <1>2, <3>1, <3>2, HandleFrame, ZenonT(60)
  <2>2. /\ handle[p] \in Inodes /\ canonical[p] = handle[p] /\ ~files[handle[p]].odd
        /\ UNCHANGED <<handle, canonical, io>> /\ p \notin Exclusive
    BY <2>1, WriteNumbers, Zenon DEF BeginWrite, Authoritative, Stable, CanShare
  <2>3. files'[handle[p]].odd = files[handle[p]].odd
    BY <2>1, <2>2, WriteFiles, Zenon DEF IInv
  <2> QED
    BY <2>2, <2>3, SMTT(60) DEF Authoritative, Stable, Exclusive, Inodes
<1> QED
  BY <1>1, <1>2, Zenon

\* What the handles and the canonical files hold.
LEMMA ConfirmedStep ==
  ASSUME IInv, Steps, NEW p \in Planes
  PROVE  /\ acked'[p] <= used'.writes[p]
         /\ handle'[p] # 0 =>
              /\ files'[handle'[p]].plane = p /\ files'[handle'[p]].data >= acked'[p]
              /\ canonical'[p] # 0 /\ files'[canonical'[p]].data >= acked'[p]
<1> USE WriteNumbers
<1>1. /\ acked[p] <= used.writes[p]
      /\ handle[p] # 0 =>
            /\ files[handle[p]].plane = p /\ files[handle[p]].data >= acked[p]
            /\ canonical[p] # 0 /\ files[canonical[p]].data >= acked[p]
      /\ canonical[p] # 0 => files[canonical[p]].plane = p
      /\ \A i \in Inodes : files[i].data <= used.writes[files[i].plane]
  BY Zenon DEF IInv, WriteInv, FileInv
<1>2. used'.writes[p] \in Nat /\ used'.writes[p] >= used.writes[p]
  BY WritesGrow, Zenon
<1>3. CASE StoreHandle
  <2>1. /\ files' = files /\ canonical' = canonical /\ used' = used
        /\ handle' = [handle EXCEPT ![io.plane] = canonical[io.plane]]
        /\ acked' = IF handle[io.plane] = 0
              THEN [acked EXCEPT ![io.plane] = files[canonical[io.plane]].data] ELSE acked
        /\ canonical[io.plane] # 0
    BY <1>3, Zenon DEF StoreHandle, IInv, PubInv
  <2>2. handle \in [Planes -> 0 .. Len(files)] /\ acked \in [Planes -> Nat]
    BY Zenon DEF IInv, TypeOK
  <2>3. CASE p = io.plane
    <3>1. handle'[p] = canonical[p] /\ canonical[p] \in Inodes
      BY <2>1, <2>2, <2>3, ZenonT(60)
    <3>2. CASE handle[p] = 0
      <4>1. acked'[p] = files[canonical[p]].data
        BY <2>1, <2>2, <2>3, <3>2, ZenonT(60)
      <4> QED
        BY <1>1, <2>1, <3>1, <4>1, SMTT(60)
    <3>3. CASE handle[p] # 0
      BY <1>1, <2>1, <2>3, <3>1, <3>3, ZenonT(60)
    <3> QED
      BY <3>2, <3>3, Zenon
  <2>4. CASE p # io.plane
    <3>1. handle'[p] = handle[p] /\ acked'[p] = acked[p]
      BY <2>1, <2>2, <2>4, ZenonT(60)
    <3> QED
      BY <1>1, <2>1, <3>1, ZenonT(60)
  <2> QED
    BY <2>3, <2>4, Zenon
<1>4. ASSUME NEW q \in Planes, ConfirmWrite(q)
      PROVE  /\ acked'[p] <= used'.writes[p]
             /\ handle'[p] # 0 =>
                  /\ files'[handle'[p]].plane = p /\ files'[handle'[p]].data >= acked'[p]
                  /\ canonical'[p] # 0 /\ files'[canonical'[p]].data >= acked'[p]
  <2>1. /\ UNCHANGED <<files, canonical, used, handle>>
        /\ canonical[q] = handle[q] /\ handle[q] # 0
        /\ acked' = [acked EXCEPT ![q] = files[handle[q]].data]
    BY <1>4, Zenon DEF ConfirmWrite, Authoritative
  <2>2. acked \in [Planes -> Nat]
    BY ZenonT(60) DEF IInv, TypeOK
  <2>3. CASE p = q
    <3>1. acked'[p] = files[handle[p]].data /\ handle[p] \in Inodes /\ files[handle[p]].plane = p
      BY <1>1, <2>1, <2>2, <2>3, ZenonT(60)
    <3> QED
      BY <1>1, <2>1, <2>3, <3>1, SMTT(60)
  <2>4. CASE p # q
    <3>1. acked'[p] = acked[p]
      BY <2>1, <2>2, <2>4, Zenon
    <3> QED
      BY <1>1, <2>1, <3>1, Zenon
  <2> QED
    BY <2>3, <2>4, ZenonT(60)
<1>5. CASE UNCHANGED acked /\ ~StoreHandle
  <2>1. acked'[p] <= used'.writes[p]
    BY <1>1, <1>2, <1>5, SMTT(60)
  <2>2. ASSUME handle'[p] # 0
        PROVE  handle'[p] = handle[p] /\ handle[p] \in Inodes /\ canonical[p] \in Inodes
    BY <1>1, <1>5, <2>2, HandleFrame, ZenonT(60)
  <2>3. ASSUME handle'[p] # 0
        PROVE  canonical'[p] # 0 /\ files'[canonical'[p]].data >= acked[p]
    <3>1. CASE CommitGenerationSwap /\ p = io.plane
      <4>1. files'[canonical'[p]] = io.staged /\ canonical'[p] # 0
        <5>1. Len(files) + 1 # 0
          BY SMTT(60) DEF IInv, TypeOK
        <5>2. canonical'[p] = Len(files) + 1 /\ files'[Len(files) + 1] = io.staged
          BY <3>1, RenameFiles, SMTT(60)
        <5> QED
          BY <5>1, <5>2, ZenonT(60)
      <4>2. io.pc = "rename" /\ handle[io.plane] # 0
        BY <2>2, <2>3, <3>1, Zenon DEF CommitGenerationSwap
      <4>3. io.staged.data >= acked[p]
        BY <3>1, <4>2, ZenonT(60) DEF IInv, WriteInv
      <4> QED
        BY <4>1, <4>3, SMTT(60)
    <3>2. CASE ~(CommitGenerationSwap /\ p = io.plane)
      <4>1. canonical'[p] = canonical[p]
        BY <3>2, QuietFrame, RenameFiles, ZenonT(60)
        DEF Steps, BeginGenerationSwap, RenameFails, BeginWrite, CommitTopologyPublication
      <4>2. files'[canonical[p]].data >= files[canonical[p]].data
        BY <2>2, <2>3, DataStep, ZenonT(60)
      <4>3. files'[canonical[p]].data \in Int
        <5>1. canonical[p] \in Inodes
          BY <2>2, <2>3, ZenonT(60)
        <5> QED
          BY <5>1, DataKept, SMTT(60)
      <4> QED
        BY <1>1, <2>2, <2>3, <4>1, <4>2, <4>3, SMTT(60)
    <3> QED
      BY <3>1, <3>2, ZenonT(30)
  <2>4. ASSUME handle'[p] # 0
        PROVE  files'[handle[p]].plane = p /\ files'[handle[p]].data >= acked[p]
    <3>1. handle[p] \in Inodes
      BY <2>2, <2>4, ZenonT(60)
    <3>2. files'[handle[p]].data >= files[handle[p]].data /\ files'[handle[p]].data \in Int
      BY <3>1, DataStep, DataKept, SMTT(60)
    <3>3. files'[handle[p]].plane = p
      BY <1>1, <3>1, PlanesKept, SMTT(60) DEF Inodes
    <3> QED
      BY <1>1, <2>2, <2>4, <3>1, <3>2, <3>3, SMTT(60)
  <2> QED
    BY <1>5, <2>1, <2>2, <2>3, <2>4, ZenonT(60)
<1> QED
  BY <1>3, <1>4, <1>5, AckedFrame, ZenonT(60)

\* The staged file holds what was confirmed of its plane.
LEMMA StagedStep ==
  ASSUME IInv, Steps, io'.pc \in {"invalidate", "rename"}
  PROVE  /\ io'.staged.data <= used'.writes[io'.plane]
         /\ handle'[io'.plane] # 0 => io'.staged.data >= acked'[io'.plane]
<1> USE WriteNumbers
<1>1. TypeOK
  BY ZenonT(30) DEF IInv
<1>2. CASE Stage
  <2>1. /\ UNCHANGED <<handle, acked, used>> /\ io'.plane = io.plane
        /\ \E g \in Generations, d \in StagedData(io.plane) : io'.staged = StagedFile(io.plane, g, d)
    BY <1>2, StageEffect, ZenonT(60) DEF Stage
  <2>2. PICK d \in StagedData(io.plane) : io'.staged.data = d
    BY <2>1, SMTT(60) DEF StagedFile
  <2>3. CASE handle[io.plane] # 0
    <3>1. d = files[handle[io.plane]].data /\ handle[io.plane] \in Inodes
      BY <2>3, Zenon DEF StagedData
    <3>2. /\ files[handle[io.plane]].plane = io.plane /\ files[handle[io.plane]].data >= acked[io.plane]
          /\ files[handle[io.plane]].data <= used.writes[files[handle[io.plane]].plane]
      BY <2>3, <3>1, ZenonT(60) DEF IInv, WriteInv
    <3> QED
      BY <2>1, <2>2, <3>1, <3>2, ZenonT(60)
  <2>4. CASE handle[io.plane] = 0
    <3>1. d <= used.writes[io.plane]
      BY <2>4, SMTT(60) DEF StagedData
    <3> QED
      BY <2>1, <2>2, <2>4, <3>1, ZenonT(30)
  <2> QED
    BY <2>3, <2>4, SMTT(60)
<1>3. CASE BeginGenerationSwap
  <2>1. /\ UNCHANGED <<handle, acked, used>> /\ io'.plane = io.plane /\ io'.staged = io.staged
        /\ io.pc = "invalidate"
    BY <1>1, <1>3, SwapEffect, ZenonT(60) DEF BeginGenerationSwap
  <2> QED
    BY <2>1, SMTT(60) DEF IInv, WriteInv
<1>4. CASE UNCHANGED io
  <2>1. /\ io.staged.data <= used.writes[io.plane] /\ io.staged.data \in Nat
        /\ handle[io.plane] # 0 => io.staged.data >= acked[io.plane]
    <3>1. io.pc \in {"invalidate", "rename"}
      BY <1>4, Zenon
    <3>2. io.staged \in FileRecords
      BY <3>1, Zenon DEF IInv, PubInv
    <3>3. io.staged.data \in Nat
      BY <3>2, ZenonT(60) DEF FileRecords
    <3> QED
      BY <3>1, <3>3, ZenonT(60) DEF IInv, WriteInv
  <2>2. io.plane \in Exclusive /\ io.plane \in Planes
    BY <1>4, ZenonT(30) DEF Exclusive
  <2>3. used'.writes[io.plane] \in Nat /\ used'.writes[io.plane] >= used.writes[io.plane]
    BY WritesGrow, ZenonT(30)
  <2>4. ~StoreHandle
    BY <1>4, SMTT(60) DEF StoreHandle
  <2>5. acked'[io.plane] = acked[io.plane]
    <3>1. ASSUME NEW q \in Planes, ConfirmWrite(q)
          PROVE  acked'[io.plane] = acked[io.plane]
      <4>1. q # io.plane
        BY <2>2, <3>1, ZenonT(60) DEF ConfirmWrite, IInv, WriteInv
      <4> QED
        BY <3>1, <4>1, ZenonT(60) DEF ConfirmWrite, IInv, TypeOK
    <3> QED
      BY <2>4, <3>1, AckedFrame, ZenonT(60)
  <2>6. handle'[io.plane] # 0 => handle[io.plane] # 0
    BY <2>4, HandleFrame, ZenonT(60)
  <2> QED
    BY <1>4, <2>1, <2>3, <2>5, <2>6, SMTT(60)
<1>5. CASE AfterFailure
  BY <1>1, <1>5, FailureEffect, ZenonT(60)
<1>6. CASE Start \/ Project \/ Begin \/ NextPublicationEpoch \/ CommitGenerationSwap \/ Reopen \/ StoreHandle
  BY <1>1, <1>6, StartEffect, ProjectEffect, BeginEffect, AllocateEffect, RenameEffect, ReopenEffect,
     StoreEffect, ZenonT(60)
<1>7. CASE Crash
  BY <1>7, DownFields, SMTT(60) DEF Crash
<1>8. CASE CommitTopologyPublication
  BY <1>5, <1>8, IdleFields, ZenonT(60) DEF CommitTopologyPublication, Fault
<1> QED
  BY <1>2, <1>3, <1>4, <1>5, <1>6, <1>7, <1>8, ZenonT(60)
  DEF Steps, Quiet, ProjectCurrent, EpochsExhausted, SwapRefused, StepFails, RenameFails, Fault,
      ChangeDesired, ConfirmWrite, BeginWrite, vars

LEMMA WriteStep ==
  ASSUME IInv, Next
  PROVE  WriteInv'
<1>1. CASE \E v \in Views : Read(v)
  <2>1. UNCHANGED <<files, canonical, witness, io, handle, writing, acked, desired, used>>
    BY <1>1, ReadEffect, Zenon
  <2> QED
    BY <2>1 DEF IInv, WriteInv, Authoritative, Stable, Exclusive, Inodes
<1>2. CASE Steps
  <2>1. ASSUME NEW i \in Inodes'
        PROVE  files'[i].data <= used'.writes[files'[i].plane]
    <3>1. CASE i \in Inodes
      BY <1>2, <3>1, DataStep, ZenonT(60)
    <3>2. CASE i \notin Inodes
      <4>1. CommitGenerationSwap /\ i = Len(files) + 1
        <5>1. Len(files') = Len(files) \/ CommitGenerationSwap
          BY <1>2, QuietFrame, InPlaceHeaders, ZenonT(60) DEF Steps, SameHeaders, CommitTopologyPublication
        <5>2. CommitGenerationSwap
          BY <3>2, <5>1, ZenonT(60) DEF Inodes
        <5>3. Len(files') = Len(files) + 1 /\ Len(files) \in Nat
          BY <5>2, RenameFiles, SMTT(60) DEF IInv, TypeOK
        <5> QED
          BY <3>2, <5>2, <5>3, SMTT(60) DEF Inodes
      <4>2. files'[i] = io.staged /\ used' = used /\ io.pc = "rename"
        BY <4>1, RenameFiles, ZenonT(60) DEF CommitGenerationSwap
      <4>3. io.staged.plane = io.plane /\ io.staged.data <= used.writes[io.plane]
        BY <4>2, ZenonT(60) DEF IInv, PubInv, WriteInv
      <4> QED
        BY <4>2, <4>3, ZenonT(60)
    <3> QED
      BY <3>1, <3>2, Zenon
  <2>2. \A p \in writing' : (Authoritative(p, handle[p]) /\ p \notin Exclusive)'
    BY <1>2, WritingStep, ZenonT(60)
  <2>3. \A p \in Planes :
          /\ acked'[p] <= used'.writes[p]
          /\ handle'[p] # 0 =>
               /\ files'[handle'[p]].plane = p /\ files'[handle'[p]].data >= acked'[p]
               /\ canonical'[p] # 0 /\ files'[canonical'[p]].data >= acked'[p]
    BY <1>2, ConfirmedStep, ZenonT(60)
  <2>4. io'.pc \in {"invalidate", "rename"} =>
          /\ io'.staged.data <= used'.writes[io'.plane]
          /\ handle'[io'.plane] # 0 => io'.staged.data >= acked'[io'.plane]
    BY <1>2, StagedStep, SMTT(60)
  <2> QED
    BY <2>1, <2>2, <2>3, <2>4, ZenonT(60) DEF WriteInv
<1> QED
  BY <1>1, <1>2, NextCases, ZenonT(60)

-----------------------------------------------------------------------------
\* FileInv for the steps that change a file in place.
LEMMA FileInPlace ==
  ASSUME IInv, SameHeaders,
         \A i \in Inodes : files[i].odd => files'[i].odd \/ canonical[files[i].plane] = i
  PROVE  FileInv'
<1>1. Inodes' = Inodes /\ UNCHANGED <<canonical, witness>>
  BY ZenonT(30) DEF SameHeaders, Inodes
<1>2. \A p \in Planes : canonical[p] # 0 => canonical[p] \in Inodes
  BY SMTT(60) DEF IInv, TypeOK, Inodes
<1>3. \A i \in Inodes :
        /\ files'[i].plane = files[i].plane /\ files'[i].topo = files[i].topo
        /\ files'[i].epoch = files[i].epoch /\ files[i].plane \in Planes
  BY FileFields, Zenon DEF IInv, SameHeaders
<1>4. \A p \in Planes : canonical'[p] # 0 => files'[canonical'[p]].plane = p
  BY <1>1, <1>2, <1>3, ZenonT(60) DEF IInv, FileInv
<1>5. ASSUME NEW i \in Inodes
      PROVE  /\ files'[i].odd \/ canonical'[files'[i].plane] = i
             /\ canonical'[files'[i].plane] # 0
             /\ files'[i].epoch <= files'[canonical'[files'[i].plane]].epoch
  BY <1>1, <1>2, <1>3, SMTT(60) DEF IInv, FileInv
<1>6. witness # NoWitness =>
        /\ \A p \in Planes : canonical[p] # 0 /\ canonical[p] \in Inodes
        /\ \A p \in Planes : witness.epoch <= files[canonical[p]].epoch
        /\ (\A p \in Planes : files[canonical[p]].epoch = witness.epoch) =>
            files[canonical["point"]].topo = files[canonical["health"]].topo
  BY <1>2, Zenon DEF IInv, FileInv
<1>7. witness # NoWitness =>
        /\ \A p \in Planes : canonical[p] # 0 /\ witness.epoch <= files'[canonical[p]].epoch
        /\ (\A p \in Planes : files'[canonical[p]].epoch = witness.epoch) =>
            files'[canonical["point"]].topo = files'[canonical["health"]].topo
  <2>1. "point" \in Planes /\ "health" \in Planes
    BY Zenon DEF Planes
  <2> QED
    BY <1>3, <1>6, <2>1, Zenon
<1> QED
  BY <1>1, <1>4, <1>5, <1>7, Zenon DEF FileInv

\* FileInv for the rename: the new file's epoch is above every other of its
\* plane and above the witness.
LEMMA FileRename ==
  ASSUME IInv, CommitGenerationSwap
  PROVE  FileInv'
<1> DEFINE n == Len(files) + 1
<1>1. /\ Len(files) \in Nat /\ Inodes' = 1 .. n /\ witness' = witness
      /\ \A i \in Inodes : files'[i] = files[i]
      /\ files'[n] = io.staged
      /\ canonical'[io.plane] = n /\ n # 0 /\ n \notin Inodes
      /\ \A p \in Planes : p # io.plane => canonical'[p] = canonical[p]
  <2>1. witness' = witness /\ Len(files) \in Nat
    BY SMTT(60) DEF CommitGenerationSwap, IInv, TypeOK
  <2> QED
    BY <2>1, RenameFiles DEF Inodes
<1>2. /\ io.staged.plane = io.plane /\ io.staged.epoch = io.epoch /\ io.plane \in Planes
      /\ witness.epoch < io.epoch /\ io.epoch \in Nat /\ witness.epoch \in Nat
      /\ io.staged.topo = io.topo
      /\ \A p \in Planes : canonical[p] # 0 => files[canonical[p]].epoch <= io.epoch
      /\ ~Stable(canonical[io.plane])
  <2>1. io.pc = "rename"
    BY ZenonT(30) DEF CommitGenerationSwap
  <2> QED
    BY <2>1, IoFields, WitnessEpoch, ZenonT(60) DEF IInv, TypeOK, PubInv, Working
<1>3. \A p \in Planes : canonical[p] # 0 => canonical[p] \in Inodes
  BY SMTT(60) DEF IInv, TypeOK, Inodes
<1>4. \A i \in Inodes : files[i].plane \in Planes /\ files[i].epoch \in Nat
  BY FileFields, ZenonT(30) DEF IInv
<1>5. \A i \in 1 .. n : i \in Inodes \/ i = n
  BY <1>1, SMTT(60) DEF Inodes
<1> HIDE DEF n
<1>6. \A p \in Planes : canonical'[p] # 0 => files'[canonical'[p]].plane = p
  BY <1>1, <1>2, <1>3, SMTT(60) DEF IInv, FileInv
<1>7. ASSUME NEW i \in Inodes
      PROVE  /\ files[i].odd \/ canonical'[files[i].plane] = i
             /\ canonical'[files[i].plane] # 0
             /\ files[i].epoch <= files'[canonical'[files[i].plane]].epoch
  <2>1. /\ files[i].odd \/ canonical[files[i].plane] = i
        /\ canonical[files[i].plane] # 0
        /\ files[i].epoch <= files[canonical[files[i].plane]].epoch
        /\ canonical[files[i].plane] \in Inodes
    BY <1>3, <1>4, ZenonT(60) DEF IInv, FileInv
  <2>2. CASE files[i].plane = io.plane
    <3>1. files[i].odd
      BY <1>2, <2>1, <2>2, ZenonT(60) DEF Stable
    <3>2. files[i].epoch <= io.epoch
      BY <1>2, <1>4, <2>1, SMTT(60)
    <3> QED
      BY <1>1, <1>2, <2>2, <3>1, <3>2, SMTT(60)
  <2>3. CASE files[i].plane # io.plane
    BY <1>1, <1>4, <2>1, <2>3, ZenonT(60)
  <2> QED
    BY <2>2, <2>3, Zenon
<1>8. /\ canonical'[io.staged.plane] = n
      /\ io.staged.epoch <= files'[canonical'[io.staged.plane]].epoch
  BY <1>1, <1>2, SMTT(60)
<1>9. ASSUME witness # NoWitness
      PROVE  /\ \A p \in Planes : canonical'[p] # 0 /\ witness.epoch <= files'[canonical'[p]].epoch
             /\ ~\A p \in Planes : files'[canonical'[p]].epoch = witness.epoch
  <2>1. \A p \in Planes : canonical[p] # 0 /\ witness.epoch <= files[canonical[p]].epoch
    BY <1>9, Zenon DEF IInv, FileInv
  <2>2. files'[canonical'[io.plane]].epoch = io.epoch
    BY <1>1, <1>2, Zenon
  <2>3. \A p \in Planes : p # io.plane => files'[canonical'[p]] = files[canonical[p]]
    BY <1>1, <1>3, <2>1, ZenonT(60)
  <2> QED
    BY <1>1, <1>2, <2>1, <2>2, <2>3, SMTT(60)
<1>10. \A i \in Inodes' :
         /\ files'[i].odd \/ canonical'[files'[i].plane] = i
         /\ canonical'[files'[i].plane] # 0
         /\ files'[i].epoch <= files'[canonical'[files'[i].plane]].epoch
  BY <1>1, <1>5, <1>7, <1>8, SMTT(60)
<1> QED
  BY <1>1, <1>6, <1>9, <1>10, ZenonT(60) DEF FileInv

LEMMA FileStep ==
  ASSUME IInv, Next
  PROVE  FileInv'
<1>1. CASE Quiet \/ \E v \in Views : Read(v)
  <2>1. UNCHANGED <<files, canonical, witness>>
    BY <1>1, QuietFrame, ReadEffect, ZenonT(60)
  <2> QED
    BY <2>1 DEF IInv, FileInv, Inodes
<1>2. CASE BeginGenerationSwap
  <2>1. \A i \in Inodes : files[i].odd => files'[i].odd
    BY <1>2, SwapFiles, ZenonT(60) DEF IInv
  <2> QED
    BY <1>2, <2>1, InPlaceHeaders, FileInPlace, ZenonT(60)
<1>3. CASE RenameFails
  <2>1. ASSUME NEW i \in Inodes, files[i].odd
        PROVE  files'[i].odd \/ canonical[files[i].plane] = i
    <3>1. CASE i = io.replaced
      <4>1. canonical[io.plane] = i /\ i # 0 /\ io.plane \in Planes
        BY <1>3, <3>1, RollbackTarget, IoFields DEF IInv, Inodes
      <4>2. files[i].plane = io.plane
        BY <4>1, ZenonT(60) DEF IInv, FileInv
      <4> QED
        BY <4>1, <4>2, ZenonT(30)
    <3>2. CASE i # io.replaced
      BY <1>3, <2>1, <3>2, RollbackFiles, SMTT(60) DEF IInv
    <3> QED
      BY <3>1, <3>2, ZenonT(30)
  <2> QED
    BY <1>3, <2>1, InPlaceHeaders, FileInPlace, ZenonT(30)
<1>4. ASSUME NEW p \in Planes, BeginWrite(p)
      PROVE  FileInv'
  <2>1. \A i \in Inodes : files[i].odd => files'[i].odd
    BY <1>4, WriteFiles, Zenon DEF IInv
  <2> QED
    BY <1>4, <2>1, InPlaceHeaders, FileInPlace, ZenonT(60)
<1>5. CASE CommitGenerationSwap
  BY <1>5, FileRename, ZenonT(60)
<1>6. CASE CommitTopologyPublication
  <2>1. UNCHANGED <<files, canonical>> /\ CommitAllowed /\ witness' = WitnessOf(io.epoch) /\ io.pc = "commit"
    BY <1>6, Zenon DEF CommitTopologyPublication
  <2>2. witness'.epoch = io.epoch /\ io.epoch \in Nat
    BY <2>1, IoFields, ZenonT(60) DEF WitnessOf, IInv
  <2>3. \A p \in Planes : /\ canonical[p] # 0 /\ files[canonical[p]].epoch = io.epoch
                          /\ files[canonical[p]].topo = io.topo
    BY <2>1, ZenonT(30) DEF CommitAllowed, Stable, IInv, PubInv, Working
  <2>4. "point" \in Planes /\ "health" \in Planes
    BY ZenonT(30) DEF Planes
  <2>5. \A p \in Planes : canonical'[p] # 0 /\ witness'.epoch <= files'[canonical'[p]].epoch
    BY <2>1, <2>2, <2>3, SMTT(60)
  <2>6. files'[canonical'["point"]].topo = files'[canonical'["health"]].topo
    BY <2>1, <2>3, <2>4, ZenonT(60)
  <2>7. Inodes' = Inodes
    BY <2>1, ZenonT(60) DEF Inodes
  <2> QED
    BY <2>1, <2>5, <2>6, <2>7, ZenonT(30) DEF IInv, FileInv
<1> QED
  BY <1>1, <1>2, <1>3, <1>4, <1>5, <1>6, NextCases, ZenonT(60) DEF Steps

-----------------------------------------------------------------------------
(* The publisher, the views and the writes *)

\* The publisher's bound on the canonical epochs, for the state after a step
\* that renames nothing.
LEMMA BoundKept ==
  ASSUME IInv, io.pc \in Working, SameHeaders \/ UNCHANGED <<files, canonical, witness>>,
         io'.epoch = io.epoch, io'.topo = io.topo
  PROVE  /\ io'.topo \in Topologies
         /\ witness'.epoch < io'.epoch
         /\ \A p \in Planes : canonical'[p] # 0 =>
              /\ files'[canonical'[p]].epoch <= io'.epoch
              /\ files'[canonical'[p]].epoch = io'.epoch => files'[canonical'[p]].topo = io'.topo
<1>1. /\ io.topo \in Topologies
      /\ witness.epoch < io.epoch
      /\ \A p \in Planes : canonical[p] # 0 =>
              /\ files[canonical[p]].epoch <= io.epoch
              /\ files[canonical[p]].epoch = io.epoch => files[canonical[p]].topo = io.topo
  BY ZenonT(30) DEF IInv, PubInv, Working
<1>2. \A p \in Planes : canonical[p] # 0 => canonical[p] \in Inodes
  BY DEF IInv, TypeOK, Inodes
<1> QED
  BY <1>1, <1>2, ZenonT(30) DEF SameHeaders

\* A failing step leaves no attempt, or the one it had at its first plane.
LEMMA PubFailure ==
  ASSUME IInv, AfterFailure, SameHeaders \/ UNCHANGED <<files, canonical, witness>>,
         io.pc \in Working \cup {"allocate"}
  PROVE  PubInv'
<1>1. /\ io'.pc \in {"down", "idle", "stage"}
      /\ io'.pc = "stage" => /\ io.pc # "allocate"
                             /\ io'.topo = io.topo /\ io'.epoch = io.epoch
  BY FailureEffect, ZenonT(30) DEF IInv
<1>2. CASE io'.pc = "stage"
  BY <1>1, <1>2, BoundKept, ZenonT(30) DEF PubInv, Working
<1>3. CASE io'.pc # "stage"
  BY <1>1, <1>3, ZenonT(30) DEF PubInv, Working
<1> QED
  BY <1>2, <1>3, ZenonT(30)

\* Steps that do not move the publisher and keep every header and odd mark.
LEMMA PubFrame ==
  ASSUME IInv, io' = io, SameHeaders \/ UNCHANGED <<files, canonical, witness>>,
         \A i \in Inodes : files'[i].odd = files[i].odd
  PROVE  PubInv'
<1>1. canonical' = canonical /\ io.plane \in Planes
  BY IoFields, ZenonT(30) DEF SameHeaders, IInv
<1>2. canonical[io.plane] # 0 => canonical[io.plane] \in Inodes
  BY <1>1, SMTT(60) DEF IInv, TypeOK, Inodes
<1>3. io.pc = "rename" => ~(canonical[io.plane] # 0 /\ ~files'[canonical[io.plane]].odd)
  BY <1>2, Zenon DEF IInv, PubInv, Stable
<1>4. CASE io.pc \in Working
  BY <1>1, <1>3, <1>4, BoundKept, ZenonT(60) DEF IInv, PubInv, Working, Stable
<1>5. CASE io.pc \notin Working
  BY <1>5, SMTT(60) DEF IInv, PubInv, Working
<1> QED
  BY <1>4, <1>5, ZenonT(30)

LEMMA PubStep ==
  ASSUME IInv, Next
  PROVE  PubInv'
<1>1. TypeOK /\ desired \in Topologies
  BY SMTT(60) DEF IInv, TypeOK
<1>2. CASE Start \/ Project
  BY <1>1, <1>2, StartEffect, ProjectEffect, ZenonT(60) DEF PubInv, Working
<1>3. CASE Begin
  <2>1. io.topo \in Topologies
    BY <1>3, Zenon DEF Begin, IInv, PubInv, Working
  <2> QED
    BY <1>1, <1>3, <2>1, BeginEffect, Zenon DEF PubInv, Working
<1>4. CASE NextPublicationEpoch
  <2>1. UNCHANGED <<files, canonical, witness>> /\ io.topo \in Topologies
    BY <1>4, SMTT(60) DEF NextPublicationEpoch, IInv, PubInv, Working
  <2>2. \A p \in Planes : canonical[p] # 0 => files[canonical[p]].epoch \in Nat
    <3>1. \A p \in Planes : canonical[p] # 0 => canonical[p] \in Inodes
      BY <1>1, SMTT(60) DEF TypeOK, Inodes
    <3> QED
      BY <1>1, <3>1, FileFields, ZenonT(60)
  <2>3. witness.epoch \in Nat
    BY <1>1, WitnessEpoch, SMTT(60) DEF TypeOK
  <2> HIDE DEF EpochFloor
  <2>4. io'.pc = "stage" /\ io'.topo = io.topo /\ io'.epoch = EpochFloor + 1 /\ EpochFloor \in Nat
    BY <1>1, <1>4, AllocateEffect, FloorBounds, ZenonT(60)
  <2>5. witness'.epoch < io'.epoch
    BY <1>1, <2>1, <2>3, <2>4, FloorBounds, SMTT(60)
  <2>6. \A p \in Planes : canonical'[p] # 0 => files'[canonical'[p]].epoch < io'.epoch
    BY <1>1, <2>1, <2>2, <2>4, FloorBounds, SMTT(60)
  <2>7. \A p \in Planes : canonical'[p] # 0 => files'[canonical'[p]].epoch \in Nat
    BY <2>1, <2>2, ZenonT(30)
  <2> QED
    BY <2>1, <2>4, <2>5, <2>6, <2>7, SMTT(60) DEF PubInv, Working
<1>5. CASE EpochsExhausted \/ SwapRefused \/ StepFails
  <2>1. AfterFailure /\ UNCHANGED <<files, canonical, witness>>
    BY <1>5, ZenonT(30) DEF EpochsExhausted, SwapRefused, StepFails, Fault
  <2>2. io.pc \in Working \cup {"allocate"}
    BY <1>5 DEF EpochsExhausted, SwapRefused, StepFails, Working
  <2> QED
    BY <2>1, <2>2, PubFailure, ZenonT(30)
<1>6. CASE RenameFails
  BY <1>6, InPlaceHeaders, PubFailure, Zenon DEF RenameFails, Fault, Working
<1>7. CASE Stage
  <2>1. UNCHANGED <<files, canonical, witness>> /\ io.pc = "stage"
    BY <1>7, ZenonT(30) DEF Stage
  <2>2. /\ io'.pc = "invalidate" /\ io'.topo = io.topo /\ io'.epoch = io.epoch /\ io'.plane = io.plane
        /\ io'.staged \in FileRecords
    BY <1>7, StageEffect, ZenonT(30)
  <2>3. io'.staged.plane = io.plane /\ io'.staged.topo = io.topo /\ io'.staged.epoch = io.epoch /\ ~io'.staged.odd
    <3>1. PICK g \in Generations, d \in StagedData(io.plane) : io'.staged = StagedFile(io.plane, g, d)
      BY <1>7, StageEffect, ZenonT(30)
    <3>2. /\ StagedFile(io.plane, g, d).plane = io.plane /\ StagedFile(io.plane, g, d).topo = io.topo
          /\ StagedFile(io.plane, g, d).epoch = io.epoch /\ StagedFile(io.plane, g, d).odd = FALSE
      BY ZenonT(30) DEF StagedFile
    <3> QED
      BY <3>1, <3>2, ZenonT(30)
  <2> QED
    BY <2>1, <2>2, <2>3, BoundKept, ZenonT(60) DEF PubInv, Working
<1>8. CASE BeginGenerationSwap
  <2>1. /\ io.pc = "invalidate" /\ canonical' = canonical
        /\ Replaced # 0 => Authoritative(io.plane, Replaced)
    BY <1>8, ZenonT(30) DEF BeginGenerationSwap
  <2>2. /\ io'.pc = "rename" /\ io'.topo = io.topo /\ io'.epoch = io.epoch /\ io'.plane = io.plane
        /\ io'.staged = io.staged /\ io'.replaced = Replaced
    BY <1>1, <1>8, SwapEffect, SMTT(60)
  <2>3. Replaced # 0 => canonical[io.plane] = Replaced
    BY <2>1, Zenon DEF Authoritative
  <2>4. canonical[io.plane] # 0 => canonical[io.plane] \in Inodes
    BY <1>1, IoFields, SMTT(60) DEF TypeOK, Inodes
  <2>5. canonical[io.plane] # 0 => files'[canonical[io.plane]].odd
    <3>1. CASE Replaced = 0
      <4>1. ~Stable(canonical[io.plane])
        BY <3>1, ZenonT(30) DEF Replaced, Stable
      <4> QED
        BY <1>1, <1>8, <2>4, <4>1, SwapFiles, ZenonT(60) DEF Stable
    <3>2. CASE Replaced # 0
      BY <1>1, <1>8, <2>3, <2>4, <3>2, SwapFiles, ZenonT(60)
    <3> QED
      BY <3>1, <3>2, ZenonT(30)
  <2> HIDE DEF Replaced
  <2> QED
    BY <1>8, <2>1, <2>2, <2>3, <2>5, InPlaceHeaders, BoundKept, ZenonT(60) DEF IInv, PubInv, Working, Stable
<1>9. CASE CommitGenerationSwap
  <2>1. /\ io'.pc = "reopen" /\ io'.topo = io.topo /\ io'.epoch = io.epoch /\ io'.plane = io.plane
        /\ io.pc = "rename" /\ witness' = witness
    BY <1>1, <1>9, RenameEffect, ZenonT(60) DEF CommitGenerationSwap
  <2>2. /\ files'[canonical'[io.plane]] = io.staged /\ canonical'[io.plane] # 0
        /\ \A p \in Planes : p # io.plane => canonical'[p] = canonical[p]
        /\ \A i \in Inodes : files'[i] = files[i]
    BY <1>1, <1>9, RenameFiles, SMTT(60) DEF TypeOK
  <2>3. /\ io.staged.epoch = io.epoch /\ io.staged.topo = io.topo /\ io.epoch \in Nat
        /\ io.topo \in Topologies /\ witness.epoch < io.epoch
        /\ \A p \in Planes : canonical[p] # 0 =>
              /\ files[canonical[p]].epoch <= io.epoch
              /\ files[canonical[p]].epoch = io.epoch => files[canonical[p]].topo = io.topo
    BY <1>1, <2>1, IoFields, ZenonT(60) DEF IInv, PubInv, Working
  <2>4. \A p \in Planes : canonical[p] # 0 => canonical[p] \in Inodes
    BY <1>1 DEF TypeOK, Inodes
  <2>5. ASSUME NEW p \in Planes, canonical'[p] # 0
        PROVE  /\ files'[canonical'[p]].epoch <= io.epoch
               /\ files'[canonical'[p]].epoch = io.epoch => files'[canonical'[p]].topo = io.topo
    <3>1. CASE p = io.plane
      BY <2>2, <2>3, <3>1, SMTT(60)
    <3>2. CASE p # io.plane
      BY <2>2, <2>3, <2>4, <2>5, <3>2, SMTT(60)
    <3> QED
      BY <3>1, <3>2, ZenonT(60)
  <2> QED
    BY <2>1, <2>2, <2>3, <2>5 DEF PubInv, Working
<1>10. CASE Reopen
  <2>1. /\ UNCHANGED <<files, canonical, witness>> /\ io.pc = "reopen" /\ canonical[io.plane] # 0
    BY <1>10, SMTT(60) DEF Reopen, IInv, PubInv
  <2> QED
    BY <1>1, <1>10, <2>1, ReopenEffect, BoundKept, ZenonT(60) DEF PubInv, Working
<1>11. CASE StoreHandle
  <2>1. /\ UNCHANGED <<files, canonical, witness>> /\ io.pc = "store"
    BY <1>11, ZenonT(30) DEF StoreHandle
  <2> QED
    BY <1>1, <1>11, <2>1, StoreEffect, BoundKept, ZenonT(60) DEF PubInv, Working
<1>12. CASE CommitTopologyPublication
  <2>1. io'.pc \in {"down", "idle"}
    <3>1. CASE Fault("sync_parent_directory")
      <4>1. io.pc = "commit" /\ io.plane = "health" /\ AfterFailure
        BY <1>12, <3>1, SMTT(60) DEF CommitTopologyPublication, IInv, PubInv, Fault
      <4> QED
        BY <1>1, <4>1, FailureEffect, ZenonT(30)
    <3>2. CASE io' = [Down EXCEPT !.pc = "idle", !.startup = FALSE]
      BY <3>2, IdleFields, ZenonT(60)
    <3> QED
      BY <1>12, <3>1, <3>2, ZenonT(60) DEF CommitTopologyPublication
  <2> QED
    BY <2>1, SMTT(60) DEF PubInv, Working
<1>13. CASE Crash
  <2>1. io'.pc = "down"
    BY <1>13, DownFields, ZenonT(30) DEF Crash
  <2> QED
    BY <2>1, SMTT(60) DEF PubInv, Working
<1>14. CASE ProjectCurrent \/ ChangeDesired \/ (\E p \in Planes : ConfirmWrite(p)) \/ (\E v \in Views : Read(v))
  <2>1. UNCHANGED <<io, files, canonical, witness>>
    BY <1>14, ReadEffect, ZenonT(30) DEF ProjectCurrent, ChangeDesired, ConfirmWrite, vars
  <2> QED
    BY <2>1, PubFrame, ZenonT(30)
<1>15. ASSUME NEW p \in Planes, BeginWrite(p)
       PROVE  PubInv'
  <2>1. io' = io
    BY <1>15, ZenonT(30) DEF BeginWrite
  <2> QED
    BY <1>1, <1>15, <2>1, InPlaceHeaders, WriteFiles, PubFrame, ZenonT(30)
<1> QED
  BY <1>2, <1>3, <1>4, <1>5, <1>6, <1>7, <1>8, <1>9, <1>10, <1>11, <1>12, <1>13, <1>14, <1>15, NextCases, ZenonT(60)
  DEF Steps, Quiet
-----------------------------------------------------------------------------
\* No step renames a plane or the witness away from under a topology lease.
LEMMA TopologyLeaseHolds ==
  ASSUME IInv, Steps, NEW v \in Views, "topology" \in view[v].leases
  PROVE  /\ io'.pc \in {"down", "idle", "begin"}
         /\ UNCHANGED <<canonical, witness>>
         /\ UNCHANGED files \/ \E p \in Planes : BeginWrite(p)
<1>1. io.pc \in {"down", "idle", "begin"}
  BY ZenonT(30) DEF IInv, ViewInv
<1>2. ~CanExclude("topology")
  BY ZenonT(30) DEF CanExclude, Shared
<1>3. CASE Project
  BY <1>3, ProjectEffect DEF Project, IInv
<1>4. CASE Crash
  BY <1>4, DownFields, Zenon DEF Crash
<1>5. CASE ProjectCurrent \/ ChangeDesired \/ \E p \in Planes : ConfirmWrite(p) \/ BeginWrite(p)
  BY <1>1, <1>5, Zenon DEF ProjectCurrent, ChangeDesired, ConfirmWrite, BeginWrite, vars
<1> QED
  BY <1>1, <1>2, <1>3, <1>4, <1>5, ZenonT(60)
  DEF Steps, Quiet, Start, Begin, NextPublicationEpoch, EpochsExhausted, Stage, Reopen, StoreHandle,
      SwapRefused, StepFails, BeginGenerationSwap, CommitGenerationSwap, RenameFails,
      CommitTopologyPublication

\* A validated pair stays the committed pair while data is written to it.
LEMMA MatchKept ==
  ASSUME IInv, Steps, NEW v \in Views, "topology" \in view[v].leases, MatchesReaders(witness)
  PROVE  MatchesReaders(witness)'
<1>1. /\ UNCHANGED <<canonical, witness>>
      /\ UNCHANGED files \/ \E p \in Planes : BeginWrite(p)
  BY TopologyLeaseHolds, Zenon
<1>2. CASE UNCHANGED files
  BY <1>1, <1>2, ZenonT(60) DEF MatchesReaders, Stable, Layout
<1>3. ASSUME NEW q \in Planes, BeginWrite(q)
      PROVE  MatchesReaders(witness)'
  <2>1. \A p \in Planes : canonical[p] \in Inodes
    BY SMTT(60) DEF MatchesReaders, Stable, IInv, TypeOK, Inodes
  <2>2. \A i \in Inodes : /\ files'[i].plane = files[i].plane /\ files'[i].topo = files[i].topo
                          /\ files'[i].epoch = files[i].epoch /\ files'[i].gen = files[i].gen
                          /\ files'[i].odd = files[i].odd
    BY <1>3, WriteFiles, ZenonT(30) DEF IInv
  <2> QED
    BY <1>1, <2>1, <2>2, SMTT(60) DEF MatchesReaders, Stable, Layout
<1> QED
  BY <1>1, <1>2, <1>3, Zenon

\* A new witness is later than every identity a view has observed.
LEMMA EarlierKept ==
  ASSUME IInv, Steps, NEW w \in Witnesses \cup {NoWitness}, Earlier(w)
  PROVE  Earlier(w)'
<1>1. w.epoch \in Nat /\ witness.epoch \in Nat /\ io.epoch \in Nat
  BY WitnessEpoch, IoFields, ZenonT(30) DEF IInv, TypeOK
<1>2. CASE CommitTopologyPublication
  <2>1. witness'.epoch = io.epoch /\ witness.epoch < io.epoch
    BY <1>2, SMTT(60) DEF CommitTopologyPublication, CommitAllowed, WitnessOf
  <2> QED
    BY <1>1, <2>1 DEF Earlier
<1>3. CASE ~CommitTopologyPublication
  <2>1. witness' = witness
    BY <1>3, QuietFrame, Zenon DEF Steps, BeginGenerationSwap, CommitGenerationSwap, RenameFails, BeginWrite
  <2> QED
    BY <2>1, Zenon DEF Earlier
<1> QED
  BY <1>2, <1>3, ZenonT(60)

LEMMA ViewStep ==
  ASSUME IInv, Next
  PROVE  ViewInv'
<1>1. CASE Steps
  <2>1. view' = view
    BY <1>1, QuietFrame DEF Steps, BeginGenerationSwap, CommitGenerationSwap, RenameFails, BeginWrite,
       CommitTopologyPublication
  <2>2. ASSUME NEW v \in Views
        PROVE  /\ \A p \in Planes : view[v].opened[p] # 0 => files'[view[v].opened[p]].plane = p
               /\ Earlier(view[v].pin)' /\ Earlier(view[v].seen)'
               /\ view[v].leases # {} => "topology" \in view[v].leases /\ view[v].seen = NoWitness
               /\ "topology" \in view[v].leases => io'.pc \in {"down", "idle", "begin"}
               /\ view[v].validated =>
                    view[v].leases = Leases /\ view[v].pin = witness' /\ MatchesReaders(witness)'
    <3>1. \A p \in Planes : view[v].opened[p] # 0 => files'[view[v].opened[p]].plane = p
      <4>1. \A p \in Planes : view[v].opened[p] # 0 => view[v].opened[p] \in Inodes
        BY OpenedMapped, ZenonT(60) DEF IInv
      <4> QED
        BY <1>1, <4>1, PlanesKept, ZenonT(60) DEF IInv, ViewInv
    <3>2. Earlier(view[v].pin)' /\ Earlier(view[v].seen)'
      <4>1. /\ view[v].pin \in Witnesses \cup {NoWitness} /\ view[v].seen \in Witnesses \cup {NoWitness}
            /\ Earlier(view[v].pin) /\ Earlier(view[v].seen)
        BY ViewFields, SMTT(60) DEF IInv, ViewInv
      <4>2. ASSUME NEW w \in Witnesses \cup {NoWitness}, Earlier(w)
            PROVE  w.epoch <= witness'.epoch /\ (w.epoch = witness'.epoch => w = witness')
        BY <1>1, <4>2, EarlierKept, ZenonT(60) DEF Earlier
      <4> QED
        BY <2>1, <4>1, <4>2, Zenon DEF Earlier
    <3>3. view[v].leases # {} => "topology" \in view[v].leases /\ view[v].seen = NoWitness
      BY SMTT(60) DEF IInv, ViewInv
    <3>4. "topology" \in view[v].leases => io'.pc \in {"down", "idle", "begin"}
      BY <1>1, TopologyLeaseHolds, Zenon
    <3>5. ASSUME view[v].validated
          PROVE  view[v].leases = Leases /\ view[v].pin = witness' /\ MatchesReaders(witness)'
      <4>1. view[v].leases = Leases /\ view[v].pin = witness /\ MatchesReaders(witness)
            /\ "topology" \in view[v].leases
        BY <3>5, SMTT(60) DEF IInv, ViewInv, Leases
      <4> QED
        BY <1>1, <4>1, MatchKept, TopologyLeaseHolds, ZenonT(60)
    <3> QED
      BY <3>1, <3>2, <3>3, <3>4, <3>5, ZenonT(60)
  <2> QED
    BY <2>1, <2>2, SMTT(60) DEF ViewInv
<1>2. ASSUME NEW v \in Views, Read(v)
      PROVE  ViewInv'
  <2>1. /\ UNCHANGED <<files, canonical, witness, io>>
        /\ ViewMoves(v, view'[v])
        /\ \A u \in Views : u # v => view'[u] = view[u]
    BY <1>2, ReadEffect, Zenon
  <2>3. MatchesReaders(witness)' <=> MatchesReaders(witness)
    BY <2>1, ZenonT(60) DEF MatchesReaders, Stable, Layout
  <2>4. ASSUME NEW u \in Views, u # v
        PROVE  /\ \A p \in Planes : view'[u].opened[p] # 0 => files[view'[u].opened[p]].plane = p
               /\ Earlier(view'[u].pin) /\ Earlier(view'[u].seen)
               /\ view'[u].leases # {} => "topology" \in view'[u].leases /\ view'[u].seen = NoWitness
               /\ "topology" \in view'[u].leases => io.pc \in {"down", "idle", "begin"}
               /\ view'[u].validated =>
                    view'[u].leases = Leases /\ view'[u].pin = witness /\ MatchesReaders(witness)
    BY <2>1, <2>4, SMTT(60) DEF IInv, ViewInv
  <2>5. /\ \A p \in Planes : view'[v].opened[p] # 0 => files[view'[v].opened[p]].plane = p
        /\ Earlier(view'[v].pin) /\ Earlier(view'[v].seen)
        /\ view'[v].leases # {} => "topology" \in view'[v].leases /\ view'[v].seen = NoWitness
        /\ "topology" \in view'[v].leases => io.pc \in {"down", "idle", "begin"}
        /\ view'[v].validated =>
             view'[v].leases = Leases /\ view'[v].pin = witness /\ MatchesReaders(witness)
    <3>1. \A p \in Planes : view'[v].opened[p] # 0 => files[view'[v].opened[p]].plane = p
      <4>1. /\ \A p \in Planes : view[v].opened[p] # 0 => files[view[v].opened[p]].plane = p
            /\ \A p \in Planes : canonical[p] # 0 => files[canonical[p]].plane = p
        BY SMTT(60) DEF IInv, ViewInv, FileInv
      <4>2. \A p \in Planes : view'[v].opened[p] \in {0, view[v].opened[p], canonical[p]}
        BY <2>1, ZenonT(60) DEF ViewMoves
      <4> QED
        BY <4>1, <4>2, ZenonT(60)
    <3>2. Earlier(NoWitness) /\ Earlier(witness) /\ Earlier(view[v].pin) /\ Earlier(view[v].seen)
      <4>1. witness.epoch \in Nat /\ (witness.epoch = 0 => witness = NoWitness) /\ NoWitness.epoch = 0
        BY WitnessEpoch, ZenonT(60) DEF IInv, TypeOK, NoWitness
      <4> QED
        BY <4>1, SMTT(60) DEF IInv, ViewInv, Earlier
    <3>3. Earlier(view'[v].pin) /\ Earlier(view'[v].seen)
      <4> HIDE DEF Earlier
      <4> QED
        BY <2>1, <3>2, ZenonT(30) DEF ViewMoves
    <3>4. "topology" \in view'[v].leases => io.pc \in {"down", "idle", "begin"}
      BY <2>1, Zenon DEF ViewMoves, IInv, ViewInv, CanShare, Exclusive
    <3>5. /\ view'[v].leases # {} => "topology" \in view'[v].leases /\ view'[v].seen = NoWitness
          /\ view'[v].validated =>
               view'[v].leases = Leases /\ view'[v].pin = witness /\ MatchesReaders(witness)
      BY <2>1, Zenon DEF ViewMoves
    <3> QED
      BY <3>1, <3>3, <3>4, <3>5, ZenonT(60)
  <2>6. \A u \in Views :
          /\ \A p \in Planes : view'[u].opened[p] # 0 => files[view'[u].opened[p]].plane = p
          /\ Earlier(view'[u].pin) /\ Earlier(view'[u].seen)
          /\ view'[u].leases # {} => "topology" \in view'[u].leases /\ view'[u].seen = NoWitness
          /\ "topology" \in view'[u].leases => io.pc \in {"down", "idle", "begin"}
          /\ view'[u].validated =>
               view'[u].leases = Leases /\ view'[u].pin = witness /\ MatchesReaders(witness)
    BY <2>4, <2>5, Zenon
  <2> QED
    BY <2>1, <2>3, <2>6, ZenonT(60) DEF ViewInv, Earlier
<1> QED
  BY <1>1, <1>2, NextCases, ZenonT(60)

\* The inductive invariant of the publication: whatever IO, the views and the
\* writes do, and wherever IO fails or is killed.
THEOREM PublicationInvariant == Spec => []IInv
<1>1. Init => IInv
  BY InitInv, ZenonT(30)
<1>2. IInv /\ [Next]_vars => IInv'
  BY TypeStep, FileStep, PubStep, ViewStep, WriteStep, StutterInv, ZenonT(60) DEF IInv
<1> QED
  BY <1>1, <1>2, PTL DEF Spec

\* A read whose fence passes (validate_reader_fence) reads the canonical plane
\* of the committed publication.
THEOREM FencedReadsAreCommitted == Spec => []FencedIsCommitted
<1>1. IInv => FencedIsCommitted
  BY FenceArgument DEF FencedIsCommitted
<1> QED
  BY <1>1, PublicationInvariant, PTL

\* with_reader returns values only from the canonical plane of the committed
\* publication.
THEOREM ReadsReturnedAreCommitted == Spec => AcceptedReadsCommitted
<1>1. ASSUME IInv, [Next]_vars, NEW v \in Views, view[v].read \in Planes, view'[v].read = "accepted"
      PROVE  view[v].opened[view[v].read] = canonical[view[v].read] /\ view[v].pin = witness
  <2>1. view'[v] # view[v]
    BY <1>1, Zenon DEF Planes
  <2>2. ~Steps
    BY <2>1, QuietFrame, ZenonT(60) DEF Steps, BeginGenerationSwap, CommitGenerationSwap, RenameFails,
       BeginWrite, CommitTopologyPublication
  <2>3. ~UNCHANGED vars
    BY <2>1, Zenon DEF vars
  <2>4. ASSUME NEW u \in Views, Read(u)
        PROVE  Fenced(v, view[v].read, view[v].opened[view[v].read])
    <3>1. u = v
      BY <1>1, <2>1, <2>4, ReadEffect, ZenonT(60)
    <3> QED
      BY <1>1, <2>4, <3>1, ReadEffect, ZenonT(60) DEF ViewMoves
  <2>5. Fenced(v, view[v].read, view[v].opened[view[v].read])
    BY <1>1, <2>2, <2>3, <2>4, NextCases, ZenonT(60)
  <2> QED
    BY <1>1, <2>5, FenceArgument, ZenonT(60)
<1>2. IInv /\ [Next]_vars =>
        [\A v \in Views :
           view[v].read \in Planes /\ view'[v].read = "accepted" =>
             /\ view[v].opened[view[v].read] = canonical[view[v].read]
             /\ view[v].pin = witness]_vars
  BY <1>1, ZenonT(60)
<1> QED
  BY <1>2, PublicationInvariant, PTL DEF Spec, AcceptedReadsCommitted

\* The closure of with_validated_authority runs while the pair it validated
\* is the committed one.
THEOREM ViewsPublishedAreCurrent == Spec => []PublishedViewIsCurrent
<1>1. IInv => PublishedViewIsCurrent
  BY ZenonT(60) DEF IInv, ViewInv, PublishedViewIsCurrent
<1> QED
  BY <1>1, PublicationInvariant, PTL

\* A pair of planes that matches the witness was staged for one topology.
THEOREM CommittedPairsAreCoherent == Spec => []CommittedPairCoherent
<1>1. IInv => CommittedPairCoherent
  BY ZenonT(30) DEF IInv, FileInv, MatchesReaders, CommittedPairCoherent
<1> QED
  BY <1>1, PublicationInvariant, PTL

\* next_publication_epoch never hands out an epoch that any file has carried.
THEOREM AllocatedEpochsAreNew == Spec => EpochsNeverReused
<1>1. ASSUME IInv, Next, io.pc = "allocate", io'.pc = "stage"
      PROVE  witness.epoch < io'.epoch /\ \A i \in Inodes : files[i].epoch < io'.epoch
  <2>1. TypeOK
    BY <1>1, ZenonT(60) DEF IInv
  <2>2. NextPublicationEpoch
    <3>1. ~AfterFailure
      BY <1>1, <2>1, FailureEffect, SMTT(60)
    <3>2. io' # io
      BY <1>1
    <3>3. ~Crash
      BY <1>1, DownFields, SMTT(60) DEF Crash
    <3>4. ~\E v \in Views : Read(v)
      BY <1>1, <3>2, ReadEffect, ZenonT(60)
    <3> QED
      BY <1>1, <3>1, <3>2, <3>3, <3>4, NextCases, ZenonT(60)
      DEF Steps, Quiet, Start, Project, ProjectCurrent, Begin, EpochsExhausted, Stage, Reopen,
          StoreHandle, SwapRefused, StepFails, RenameFails, Fault, ChangeDesired, ConfirmWrite,
          BeginWrite, BeginGenerationSwap, CommitGenerationSwap, CommitTopologyPublication, vars
  <2>3. io'.epoch = EpochFloor + 1 /\ EpochFloor \in Nat /\ witness.epoch \in Nat
    BY <2>1, <2>2, AllocateEffect, FloorBounds, WitnessEpoch, ZenonT(60) DEF TypeOK
  <2>4. ASSUME NEW i \in Inodes
        PROVE  files[i].epoch <= EpochFloor
    <3>1. /\ files[i].plane \in Planes /\ files[i].epoch \in Nat
          /\ canonical[files[i].plane] # 0
          /\ files[i].epoch <= files[canonical[files[i].plane]].epoch
      BY <1>1, <2>1, FileFields, ZenonT(60) DEF IInv, FileInv
    <3>2. /\ files[canonical[files[i].plane]].epoch <= EpochFloor
          /\ canonical[files[i].plane] \in Inodes
      <4>1. canonical[files[i].plane] \in Inodes
        BY <2>1, <3>1, SMTT(60) DEF TypeOK, Inodes
      <4> HIDE DEF EpochFloor
      <4> QED
        BY <2>1, <3>1, <4>1, FloorBounds, ZenonT(60)
    <3>3. files[canonical[files[i].plane]].epoch \in Nat
      BY <2>1, <3>2, FileFields, Zenon
    <3> HIDE DEF EpochFloor
    <3> QED
      BY <2>3, <3>1, <3>2, <3>3, SMTT(60)
  <2>5. \A i \in Inodes : files[i].epoch \in Nat
    BY <2>1, FileFields, Zenon
  <2> HIDE DEF EpochFloor
  <2> QED
    BY <2>1, <2>3, <2>4, <2>5, FloorBounds, SMTT(60)
<1>2. IInv /\ [Next]_vars =>
        [io.pc = "allocate" /\ io'.pc = "stage" =>
           witness.epoch < io'.epoch /\ \A i \in Inodes : files[i].epoch < io'.epoch]_vars
  BY <1>1, Zenon
<1> QED
  BY <1>2, PublicationInvariant, PTL DEF Spec, EpochsNeverReused

\* As long as IO lives, no publication loses a write it confirmed.
THEOREM ConfirmedWritesSurvive == Spec => []ConfirmedWritesKept
<1>1. IInv => ConfirmedWritesKept
  BY ZenonT(60) DEF IInv, WriteInv, ConfirmedWritesKept
<1> QED
  BY <1>1, PublicationInvariant, PTL

\* The validation after the mutation of commit_batch never fails.
THEOREM WritesAlwaysConfirmable == Spec => []WritesConfirmable
<1>1. IInv => WritesConfirmable
  BY DEF IInv, WriteInv, WritesConfirmable
<1> QED
  BY <1>1, PublicationInvariant, PTL

\* What a service reads under its fence, or stores under its leases, is the
\* committed publication.
THEOREM ViewsAlwaysCommitted == Spec => []ViewsCommitted
<1>1. FencedIsCommitted /\ PublishedViewIsCurrent => ViewsCommitted
  BY DEF ViewsCommitted
<1> QED
  BY <1>1, FencedReadsAreCommitted, ViewsPublishedAreCurrent, PTL

\* Every write of commit_batch or set_online that began can be confirmed, and
\* every confirmed one outlives the publications of the process.
THEOREM WritesAlwaysSafe == Spec => []WritesSafe
<1>1. ConfirmedWritesKept /\ WritesConfirmable => WritesSafe
  BY DEF WritesSafe
<1> QED
  BY <1>1, ConfirmedWritesSurvive, WritesAlwaysConfirmable, PTL

\* with_reader accepts reads, and next_publication_epoch hands out epochs, only
\* as the protocol promises.
THEOREM StepsAlwaysSafe == Spec => StepsSafe
  BY ReadsReturnedAreCommitted, AllocatedEpochsAreNew DEF StepsSafe
=============================================================================
