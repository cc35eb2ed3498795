------------------------- MODULE FileCloudLinkSpool -------------------------
(***************************************************************************)
(* The journal-backed CloudLink spool, its crashes and its recovery        *)
(* (libs/aether-store-local/src/file_cloudlink_spool.rs).                  *)
(*                                                                         *)
(* The journal is a sequence of entries; Torn(n) stands for the bytes of   *)
(* an entry that did not reach the disk whole: it lacks as many bytes as   *)
(* up to n further entries have.  A mutation is appended, synced and only  *)
(* then takes effect in memory; the process may be killed, or lose power,  *)
(* between any two steps, and then any part of what was not yet synced     *)
(* survives.  All calls hold one mutex and the file one process lock, so   *)
(* there is one mutation at a time.                                        *)
(***************************************************************************)
EXTENDS CloudLinkSpoolState, SequencesExt

CONSTANTS
  CompactAfter,   \* COMPACT_AFTER_MUTATIONS, 256 in the code
  MaxCrashes,     \* bound on crashes
  MaxErrors,      \* bound on failed writes and syncs
  MaxTempSeq,     \* bound on the compactions of one process
  MaxJournal      \* bound on the journal an open with another capacity extends

ASSUME FaultAssumption ==
  /\ CompactAfter \in Nat \ {0}
  /\ MaxCrashes \in Nat /\ MaxErrors \in Nat
  /\ MaxTempSeq \in Nat /\ MaxJournal \in Nat

VARIABLES
  pc,          \* where the process is
  journal,     \* the entries of the file at the spool's path
  synced,      \* how many of them are known to be on disk
  shadow,      \* the journal a rename replaced, until the directory is synced
  temps,       \* sequences of the compaction files named by this process's id
  tempSeq,     \* TEMP_SEQUENCE of the running process
  state,       \* FileState.state
  pending,     \* `next` of mutate: the state the entry being appended leads to
  mutations,   \* mutations_since_compaction
  crashes, errors,
  doubt,       \* what an earlier failure has left in doubt (see Doubts)
  stream       \* the stream as the outside world may rely on it (see ImplementsPort)

vars == <<pc, journal, synced, shadow, temps, tempSeq, state, pending, mutations,
          crashes, errors, doubt, stream>>

Torn(n) == [op |-> "torn", missing |-> n]
NoJournal == <<Torn(0)>>
NoState == NewSpool(CHOOSE c \in Capacities : TRUE)

(***************************************************************************)
(* What the code does not undo: the bytes of a failed append are in the    *)
(* file; the directory may still name the journal a rename replaced; the   *)
(* first checkpoint was cut short.                                         *)
(***************************************************************************)
Doubts == {"entry", "name", "header"}

-----------------------------------------------------------------------------
(* JournalEntry *)

CheckpointEntry(s) == [op |-> "checkpoint", spool |-> [s EXCEPT !.records = [p \in {} |-> 0]]]
RecordEntry(s, p) == [op |-> "record", position |-> p, record |-> s.records[p]]
EnqueuedEntry(s, in) ==
  [op |-> "enqueued", position |-> s.next, record |-> QueuedRecord(in),
   next |-> AfterEnqueue(s, in).next, loss |-> AfterEnqueue(s, in).loss]
OfferedEntry(id, session) == [op |-> "offered", id |-> id, session |-> session]
PublishedEntry(id, session) == [op |-> "published", id |-> id, session |-> session]
AcknowledgedEntry(ack) == [op |-> "acknowledged", ack |-> ack]
RotatedEntry(epoch) == [op |-> "rotated", epoch |-> epoch]
CapacityEntry(capacity) == [op |-> "capacity", capacity |-> capacity]

\* Mutant of CompactedJournal: records are written, the loss evidence is not.
CompactedJournalDropsLoss(s) ==
  LET positions == SetToSortSeq(Retained(s), <)
  IN  <<CheckpointEntry([s EXCEPT !.loss = NoLoss])>>
        \o [i \in DOMAIN positions |-> RecordEntry(s, positions[i])]

\* write_compacted_journal: the checkpoint, then the retained records in order.
CompactedJournal(s) ==
  LET positions == SetToSortSeq(Retained(s), <)
  IN  <<CheckpointEntry(s)>> \o [i \in DOMAIN positions |-> RecordEntry(s, positions[i])]

-----------------------------------------------------------------------------
(***************************************************************************)
(* recover, apply_entry: entries are replayed through the very operations  *)
(* that produced them; an entry they do not accept makes the journal       *)
(* corrupt.                                                                *)
(***************************************************************************)
ReplayStart == [spool |-> NoState, found |-> FALSE, mutations |-> 0, corrupt |-> FALSE]

\* apply_enqueued and the checks of the other mutations
Accepts(s, entry) ==
  CASE entry.op = "enqueued" -> entry.position = s.next /\ entry.next = s.next + 1
    [] entry.op = "offered" -> OfferOutcome(s, entry.id, entry.session) = "offered"
    [] entry.op = "published" -> PublishOutcome(s, entry.id, entry.session) = "published"
    [] entry.op = "acknowledged" -> AckOutcome(s, entry.ack) \in {"applied", "duplicate"}
    [] entry.op = "rotated" -> RotateOutcome(s) = "rotated" /\ entry.epoch = s.epoch + 1
    [] entry.op = "capacity" -> CanOpen(s, entry.capacity)
    [] OTHER -> FALSE

ReplayEnqueued(s, entry) ==
  LET kept == IF Full(s) THEN Retained(s) \ {Earliest(s)} ELSE Retained(s)
  IN  [s EXCEPT !.records = [p \in kept \cup {entry.position} |->
                               IF p = entry.position THEN entry.record ELSE s.records[p]],
                !.next = entry.next, !.loss = entry.loss]

Replay(s, entry) ==
  CASE entry.op = "enqueued" -> ReplayEnqueued(s, entry)
    [] entry.op = "offered" -> AfterOffer(s, entry.id, entry.session)
    [] entry.op = "published" -> AfterPublish(s, entry.id, entry.session)
    [] entry.op = "acknowledged" ->
         IF AckOutcome(s, entry.ack) = "applied" THEN AfterAck(s, entry.ack) ELSE s
    [] entry.op = "rotated" -> AfterRotate(s)
    [] entry.op = "capacity" -> WithCapacity(s, entry.capacity)

\* restore_checkpoint_record
AcceptsRecord(s, entry) ==
  /\ entry.position < s.next
  /\ entry.position \notin Retained(s)
  /\ Cardinality(Retained(s)) < s.capacity

RestoreRecord(s, entry) ==
  [s EXCEPT !.records = [p \in Retained(s) \cup {entry.position} |->
                           IF p = entry.position THEN entry.record ELSE s.records[p]]]

ApplyEntry(r, entry) ==
  LET corrupt == [r EXCEPT !.corrupt = TRUE]
  IN  CASE r.corrupt -> r
        [] ~r.corrupt /\ entry.op = "checkpoint" ->
             IF r.found THEN corrupt ELSE [r EXCEPT !.spool = entry.spool, !.found = TRUE]
        [] ~r.corrupt /\ entry.op = "record" ->
             IF r.found /\ r.mutations = 0 /\ AcceptsRecord(r.spool, entry)
               THEN [r EXCEPT !.spool = RestoreRecord(r.spool, entry)]
               ELSE corrupt
        [] OTHER ->
             IF r.found /\ Accepts(r.spool, entry)
               THEN [r EXCEPT !.spool = Replay(r.spool, entry), !.mutations = @ + 1]
               ELSE corrupt

(***************************************************************************)
(* recover, truncate_torn_tail: where fewer bytes follow than the length   *)
(* announces, the file is cut.  Where enough follow, they are read as part *)
(* of the torn entry and its checksum fails.                               *)
(***************************************************************************)
WithoutTornTail(j) ==
  LET torn == SelectInSeq(j, LAMBDA entry : entry.op = "torn")
  IN  IF torn > 0 /\ Len(j) - torn < j[torn].missing THEN SubSeq(j, 1, torn - 1) ELSE j

Recover(j) ==
  LET entries == WithoutTornTail(j)
      replayed[n \in 0 .. Len(entries)] ==
        IF n = 0 THEN ReplayStart ELSE ApplyEntry(replayed[n - 1], entries[n])
      r == replayed[Len(entries)]
  IN  [r EXCEPT !.corrupt = r.corrupt \/ ~r.found \/ ~ValidRecovered(r.spool)]

-----------------------------------------------------------------------------
Init ==
  /\ pc = "down"
  /\ journal = <<>> /\ synced = 0 /\ shadow = NoJournal
  /\ temps = {} /\ tempSeq = 1
  /\ state = NoState /\ pending = NoState
  /\ mutations = 0
  /\ crashes = 0 /\ errors = 0
  /\ doubt = {}
  /\ stream = NoState

\* FileCloudLinkSpool::open of an empty file: the first checkpoint.
Create(capacity) ==
  /\ pc = "down"
  /\ journal = <<>>
  /\ journal' = CompactedJournal(NewSpool(capacity))
  /\ state' = NewSpool(capacity)
  /\ pending' = NewSpool(capacity)
  /\ stream' = NewSpool(capacity)
  /\ mutations' = 0
  /\ tempSeq' = 1
  /\ pc' = "creating"
  /\ UNCHANGED <<synced, shadow, temps, crashes, errors, doubt>>

\* write_compacted_journal: the closing sync_all of the first checkpoint.
CreateSynced ==
  /\ pc = "creating"
  /\ synced' = Len(journal)
  /\ pc' = "ready"
  /\ UNCHANGED <<journal, shadow, temps, tempSeq, state, pending, mutations, crashes, errors, stream, doubt>>

(***************************************************************************)
(* FileCloudLinkSpool::open of an existing journal.  A torn tail is cut    *)
(* off and synced; a changed capacity is appended like any mutation.  A    *)
(* corrupt journal, or a capacity below what is retained, fails the open   *)
(* and changes nothing.                                                    *)
(***************************************************************************)
Open(capacity) ==
  LET r == Recover(journal)
      whole == WithoutTornTail(journal)
  IN  /\ pc = "down"
      /\ journal # <<>>
      /\ ~r.corrupt
      /\ CanOpen(r.spool, capacity)
      /\ capacity # r.spool.capacity => Len(whole) < MaxJournal
      /\ state' = r.spool
      /\ pending' = WithCapacity(r.spool, capacity)
      /\ mutations' = r.mutations
      /\ tempSeq' = 1
      /\ synced' = Len(whole)
      /\ IF capacity = r.spool.capacity
           THEN journal' = whole /\ pc' = "ready"
           ELSE journal' = Append(whole, CapacityEntry(capacity)) /\ pc' = "appending"
      /\ stream' = r.spool
      /\ doubt' = doubt \ {"entry"}
      /\ UNCHANGED <<shadow, temps, crashes, errors>>

-----------------------------------------------------------------------------
\* Mutant of Mutate: the spool never compacts before a mutation.
MutateWithoutLimit(entry, after) ==
  /\ pc = "ready"
  /\ after # state
  /\ journal' = Append(journal, entry)
  /\ pending' = after
  /\ pc' = "appending"
  /\ UNCHANGED <<synced, shadow, temps, tempSeq, state, mutations, crashes, errors, stream, doubt>>

(***************************************************************************)
(* mutate: a full journal is compacted first; an operation that changes    *)
(* the state has its entry written, and waits for append_entry's sync.     *)
(***************************************************************************)
Mutate(entry, after) ==
  /\ pc = "ready"
  /\ mutations < CompactAfter
  /\ after # state
  /\ journal' = Append(journal, entry)
  /\ pending' = after
  /\ pc' = "appending"
  /\ UNCHANGED <<synced, shadow, temps, tempSeq, state, mutations, crashes, errors, stream, doubt>>

Enqueue(in) ==
  /\ EnqueueOutcome(state, in) = "queued"
  /\ Mutate(EnqueuedEntry(state, in), AfterEnqueue(state, in))

MarkOffered(id, session) ==
  /\ OfferOutcome(state, id, session) = "offered"
  /\ Mutate(OfferedEntry(id, session), AfterOffer(state, id, session))

MarkTransportPublished(id, session) ==
  /\ PublishOutcome(state, id, session) = "published"
  /\ Mutate(PublishedEntry(id, session), AfterPublish(state, id, session))

Acknowledge(ack) ==
  /\ AckOutcome(state, ack) = "applied"
  /\ Mutate(AcknowledgedEntry(ack), AfterAck(state, ack))

RotateStreamEpoch ==
  /\ RotateOutcome(state) = "rotated"
  /\ Mutate(RotatedEntry(state.epoch + 1), AfterRotate(state))

\* Mutant of Appended: the mutation is answered before sync_data.
AppendedUnsynced ==
  /\ pc = "appending"
  /\ state' = pending
  /\ stream' = pending
  /\ mutations' = mutations + 1
  /\ pc' = "ready"
  /\ UNCHANGED <<journal, synced, shadow, temps, tempSeq, pending, crashes, errors, doubt>>

\* append_entry: sync_data succeeded; the mutation takes effect and is answered.
Appended ==
  /\ pc = "appending"
  /\ synced' = Len(journal)
  /\ state' = pending
  /\ stream' = pending
  /\ mutations' = mutations + 1
  /\ pc' = "ready"
  /\ UNCHANGED <<journal, shadow, temps, tempSeq, pending, crashes, errors, doubt>>

(***************************************************************************)
(* append_entry: write_all or sync_data failed.  The caller gets an error  *)
(* and the memory is left alone; so is whatever reached the file.  If it   *)
(* was open that appended its capacity, the spool stays closed.            *)
(***************************************************************************)
AppendFails ==
  /\ errors < MaxErrors
  /\ pc = "appending"
  /\ journal' \in {Front(journal), Append(Front(journal), Torn(1)),
                   Append(Front(journal), Torn(2)), journal}
  /\ errors' = errors + 1
  /\ doubt' = doubt \cup {"entry"}
  /\ IF Last(journal).op = "capacity"
       THEN /\ pc' = "down"
            /\ state' = NoState /\ pending' = NoState /\ mutations' = 0 /\ tempSeq' = 1
       ELSE /\ pc' = "ready"
            /\ pending' = state
            /\ UNCHANGED <<state, mutations, tempSeq>>
  /\ UNCHANGED <<synced, shadow, temps, crashes, stream>>

-----------------------------------------------------------------------------
(***************************************************************************)
(* A compaction that fails fails the call it was part of.  Only open is    *)
(* ever over the limit (by the capacity it appended), and it gives up.     *)
(***************************************************************************)
CompactionFailed ==
  IF mutations > CompactAfter
    THEN /\ pc' = "down"
         /\ state' = NoState /\ pending' = NoState /\ mutations' = 0 /\ tempSeq' = 1
    ELSE /\ pc' = "ready"
         /\ UNCHANGED <<state, pending, mutations, tempSeq>>

\* compact_locked: create_new of a temporary file named by pid and sequence.
CompactCreate ==
  /\ pc = "ready"
  /\ mutations >= CompactAfter
  /\ tempSeq <= MaxTempSeq
  /\ tempSeq \notin temps
  /\ temps' = temps \cup {tempSeq}
  /\ tempSeq' = tempSeq + 1
  /\ pc' = "compacting"
  /\ UNCHANGED <<journal, synced, shadow, state, pending, mutations, crashes, errors, stream, doubt>>

\* compact_locked: create_new finds a file of that name, left by a crash.
CompactCollides ==
  /\ pc = "ready"
  /\ mutations >= CompactAfter
  /\ tempSeq \in temps
  /\ IF mutations > CompactAfter
       THEN CompactionFailed
       ELSE tempSeq' = tempSeq + 1 /\ UNCHANGED <<pc, state, pending, mutations>>
  /\ UNCHANGED <<journal, synced, shadow, temps, crashes, errors, stream, doubt>>

\* compact_locked: the temporary file is written and synced, then renamed.
CompactRename ==
  /\ pc = "compacting"
  /\ shadow' = journal
  /\ journal' = CompactedJournal(state)
  /\ synced' = Len(CompactedJournal(state))
  /\ temps' = temps \ {tempSeq - 1}
  /\ mutations' = 0
  /\ doubt' = IF doubt = {} THEN {} ELSE {"name"}
  /\ pc' = "renamed"
  /\ UNCHANGED <<tempSeq, state, pending, crashes, errors, stream>>

\* compact_locked: the write or the rename failed; the temporary is removed.
CompactFails ==
  /\ errors < MaxErrors
  /\ pc = "compacting"
  /\ errors' = errors + 1
  /\ temps' = temps \ {tempSeq - 1}
  /\ CompactionFailed
  /\ UNCHANGED <<journal, synced, shadow, crashes, stream, doubt>>

\* sync_parent_directory
CompactSynced ==
  /\ pc = "renamed"
  /\ shadow' = NoJournal
  /\ doubt' = {}
  /\ pc' = "ready"
  /\ UNCHANGED <<journal, synced, temps, tempSeq, state, pending, mutations, crashes, errors, stream>>

\* sync_parent_directory failed: the call fails, the spool goes on.
CompactSyncFails ==
  /\ errors < MaxErrors
  /\ pc = "renamed"
  /\ errors' = errors + 1
  /\ doubt' = {"name"}
  /\ pc' = "ready"
  /\ UNCHANGED <<journal, synced, shadow, temps, tempSeq, state, pending, mutations, crashes, stream>>

-----------------------------------------------------------------------------
(***************************************************************************)
(* What a crash leaves of the journal: everything synced, and of the rest  *)
(* a prefix whose last entry may be torn; or, while the directory is not   *)
(* synced, the journal the rename replaced.                                *)
(***************************************************************************)
Survivors ==
  {SubSeq(journal, 1, n) : n \in synced .. Len(journal)}
    \cup {Append(SubSeq(journal, 1, n), Torn(1)) : n \in synced .. Len(journal) - 1}
    \cup (IF shadow = NoJournal THEN {} ELSE {shadow})

\* The process, or the machine, goes down; a compaction file left behind is in
\* the way of the next process only if that one gets the same process id.
Crash ==
  /\ pc # "down"
  /\ crashes < MaxCrashes
  /\ crashes' = crashes + 1
  /\ \E j \in Survivors :
       LET r == Recover(j)
           cut == pc = "creating" /\ r.corrupt
       IN  /\ journal' = j
           /\ synced' = Len(j)
           /\ stream' = IF cut THEN stream ELSE r.spool
           /\ doubt' = IF cut THEN {"header"} ELSE IF r.corrupt THEN doubt ELSE {}
  /\ temps' \in {temps, {}}
  /\ shadow' = NoJournal
  /\ pc' = "down"
  /\ state' = NoState /\ pending' = NoState
  /\ mutations' = 0 /\ tempSeq' = 1
  /\ UNCHANGED errors

\* The process stops between two calls.
Close ==
  /\ pc = "ready"
  /\ mutations <= CompactAfter
  /\ pc' = "down"
  /\ state' = NoState /\ pending' = NoState
  /\ mutations' = 0 /\ tempSeq' = 1
  /\ UNCHANGED <<journal, synced, shadow, temps, crashes, errors, stream, doubt>>

Next ==
  \/ \E capacity \in Capacities : Create(capacity) \/ Open(capacity)
  \/ CreateSynced
  \/ \E in \in Inputs : Enqueue(in)
  \/ \E id \in Identities, session \in Sessions :
       MarkOffered(id, session) \/ MarkTransportPublished(id, session)
  \/ \E ack \in DurableAcks : Acknowledge(ack)
  \/ RotateStreamEpoch
  \/ Appended \/ AppendFails
  \/ CompactCreate \/ CompactCollides \/ CompactRename \/ CompactFails
  \/ CompactSynced \/ CompactSyncFails
  \/ Crash \/ Close

Spec == Init /\ [][Next]_vars

-----------------------------------------------------------------------------
TypeOK ==
  /\ pc \in {"down", "creating", "ready", "appending", "compacting", "renamed"}
  /\ synced \in 0 .. Len(journal)
  /\ temps \subseteq Nat
  /\ tempSeq \in Nat \ {0}
  /\ mutations \in Nat
  /\ crashes \in 0 .. MaxCrashes
  /\ errors \in 0 .. MaxErrors
  /\ doubt \subseteq Doubts

(***************************************************************************)
(* "Opens or creates a process-exclusive crash-recoverable stream journal":*)
(* unless an earlier failure has left it in doubt, no crash leaves a       *)
(* journal that the next open refuses.                                     *)
(***************************************************************************)
Reopenable ==
  pc = "down" /\ journal # <<>> /\ doubt = {} => ~Recover(journal).corrupt

(***************************************************************************)
(* "CloudLink records remain durable until a matching application receipt":*)
(* whatever a crash would leave at this moment replays to the state that   *)
(* was answered, or to that state and the one mutation under way; a        *)
(* compaction ends the doubt an earlier failure has left.                  *)
(***************************************************************************)
CrashConsistent ==
  /\ Reopenable
  /\ pc \notin {"down", "creating"} /\ doubt = {} =>
       \A j \in Survivors : ~Recover(j).corrupt /\ Recover(j).spool \in {state, pending}

(***************************************************************************)
(* Between two calls the file replays to exactly the state in memory, with *)
(* the same count of mutations, whether it was appended to, compacted or   *)
(* recovered; what a failed append left behind is gone once a compaction   *)
(* has rewritten the file or open has read it.                             *)
(***************************************************************************)
JournalMatchesMemory ==
  pc = "ready" /\ "entry" \notin doubt =>
    /\ ~Recover(journal).corrupt
    /\ Recover(journal).spool = state
    /\ Recover(journal).mutations = mutations

(***************************************************************************)
(* Compaction keeps the journal bounded: a mutation extends nothing longer *)
(* than a checkpoint, the retained records, fewer than CompactAfter        *)
(* mutations and what failed appends left.  (Not so the capacity an open   *)
(* appends: while a file left by a crash has the name of its compaction,   *)
(* every open with another capacity adds an entry, fails, and leaves it.)  *)
(***************************************************************************)
JournalBounded ==
  pc = "appending" /\ Last(journal).op # "capacity" =>
    Len(journal) <= 1 + (CHOOSE m \in Capacities : \A c \in Capacities : c <= m)
                      + CompactAfter + errors

(***************************************************************************)
(* The file spool implements the spool of the port, but for the steps from *)
(* a state left in doubt.  The stream the port speaks of is the memory     *)
(* while the process runs; a crash leaves what the journal replays to,     *)
(* which may complete a mutation nobody was answered for and may lose      *)
(* nothing that was answered.                                              *)
(***************************************************************************)
Port == INSTANCE CloudLinkSpool WITH spool <- stream

ImplementsPort == Port!SpoolInit /\ [][doubt = {} => Port!SpoolNext]_stream

(***************************************************************************)
(* The journal is sound between two calls (JournalMatchesMemory) and its   *)
(* length stays bounded (JournalBounded).                                  *)
(***************************************************************************)
JournalSound == TypeOK /\ JournalMatchesMemory /\ JournalBounded
=============================================================================
