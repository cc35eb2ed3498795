----------------------------- MODULE FileOutbox -----------------------------
(***************************************************************************)
(* The journal-backed outbox of uplink                                     *)
(* (libs/aether-store-local/src/file_outbox.rs).  One worker thread takes  *)
(* the requests one at a time: a record is appended, synced, and only then *)
(* takes effect in memory and is answered.  The process may be killed, or  *)
(* lose power, between any two steps; every disk operation may fail.       *)
(*                                                                         *)
(* The file is a sequence of records.  Torn(n) stands for a record whose   *)
(* bytes are not all there: it lacks what up to n further records have.    *)
(***************************************************************************)
EXTENDS Naturals, FiniteSets, SequencesExt

CONSTANTS
  MaxMessages, \* bound on the calls of enqueue
  Capacity,    \* entries the outbox holds at most
  MaxFaults    \* bound on crashes and failures of any kind

ASSUME OutboxAssumption ==
  MaxMessages \in Nat /\ Capacity \in Nat \ {0} /\ MaxFaults \in Nat

Messages == 1 .. MaxMessages   \* in the order in which the worker takes them

VARIABLES
  pc,          \* where the worker is; "down": no process, "poisoned": fatal error
  file,        \* the journal at the outbox's path
  synced,      \* how many of its records are known to be on disk
  residue,     \* a record cut off again, if the cut may not be on disk
  shadow,      \* the files the path may still name until the directory is synced
  mem,         \* Journal.next_id and Journal.entries
  outcome,     \* what the caller of enqueue was told, by message
  reply,       \* what the caller of acknowledge was told
  damage,      \* see Damages
  faults

journalVars == <<pc, file, synced, residue, shadow, mem, outcome, reply, damage, faults>>

Header == [op |-> "header"]
Enqueued(id, m) == [op |-> "enqueue", id |-> id, message |-> m]
Acknowledged(id) == [op |-> "acknowledge", id |-> id]
Checkpoint(next) == [op |-> "checkpoint", next |-> next]
Torn(n) == [op |-> "torn", missing |-> n]
NoRecord == [op |-> "none"]

(***************************************************************************)
(* The answers to enqueue: none yet, an error, or the identifier.          *)
(***************************************************************************)
New == [status |-> "new", id |-> 0]
Failed == [status |-> "failed", id |-> 0]
Stored(id) == [status |-> "stored", id |-> id]

(***************************************************************************)
(* "append": a failed append left bytes in the file that no compaction has *)
(* removed yet.  "lost": the process crashed in that state, or the crash   *)
(* brought back a file that had been replaced (see Crash).                 *)
(***************************************************************************)
Damages == {"none", "append", "lost"}

Fault == faults < MaxFaults /\ faults' = faults + 1

-----------------------------------------------------------------------------
Empty == [next |-> 1, entries |-> [id \in {} |-> id]]

With(state, id, m) ==
  [next |-> Max({state.next, id + 1}),
   entries |-> [i \in DOMAIN state.entries \cup {id} |->
                  IF i = id THEN m ELSE state.entries[i]]]

Without(state, id) == [state EXCEPT !.entries = Restrict(@, DOMAIN @ \ {id})]

\* apply_record: an identifier that is already there makes the journal corrupt.
ApplyRecord(r, record) ==
  CASE r.corrupt -> r
    [] record.op = "checkpoint" ->
         [r EXCEPT !.state.next = Max({@, record.next})]
    [] record.op = "acknowledge" -> [r EXCEPT !.state = Without(@, record.id)]
    [] record.op = "enqueue" /\ record.id \notin DOMAIN r.state.entries ->
         [r EXCEPT !.state = With(@, record.id, record.message)]
    [] OTHER -> [r EXCEPT !.corrupt = TRUE]

\* recover: a record that the file ends in is cut off; one that others follow stays.
WithoutTornTail(j) ==
  LET torn == SelectInSeq(j, LAMBDA record : record.op = "torn")
  IN  IF torn > 1 /\ Len(j) - torn <= j[torn].missing THEN SubSeq(j, 1, torn - 1) ELSE j

\* recover: an empty file is a new journal, half a header is a corrupt one.
Recover(j) ==
  LET records == WithoutTornTail(j)
      replayed[n \in 0 .. Len(records)] ==
        IF n <= 1 THEN [state |-> Empty, corrupt |-> n = 1 /\ records[1] # Header]
                  ELSE ApplyRecord(replayed[n - 1], records[n])
  IN  replayed[Len(records)]

\* What a crash may leave of the file.
Survivors ==
  {SubSeq(file, 1, n) : n \in synced .. Len(file)}
    \cup {Append(SubSeq(file, 1, n), Torn(0)) : n \in synced .. Len(file) - 1}
    \cup (IF residue = NoRecord THEN {} ELSE {Append(SubSeq(file, 1, synced), residue)})
    \cup shadow

\* The pending entries, as the next process would find them or this one holds them.
Contents == IF pc = "down" THEN Recover(file).state ELSE mem

-----------------------------------------------------------------------------
JournalInit ==
  /\ pc = "down"
  /\ file = <<>> /\ synced = 0 /\ residue = NoRecord
  /\ shadow = {}
  /\ mem = Empty
  /\ outcome = [m \in Messages |-> New]
  /\ reply = "none"
  /\ damage = "none"
  /\ faults = 0

(***************************************************************************)
(* Journal::open, recover: a new file gets its header; the directory that  *)
(* names it is not synced.  A torn tail is cut off and synced.  A corrupt  *)
(* journal fails the start of the process.                                 *)
(***************************************************************************)
Create ==
  /\ pc = "down" /\ file = <<>>
  /\ file' = <<Header>>
  /\ shadow' = {<<>>}
  /\ pc' = "creating"
  /\ UNCHANGED <<synced, residue, mem, outcome, reply, damage, faults>>

\* write_file_header: sync_all
Created ==
  /\ pc = "creating"
  /\ synced' = 1
  /\ pc' = "ready"
  /\ UNCHANGED <<file, residue, shadow, mem, outcome, reply, damage, faults>>

Open ==
  /\ pc = "down" /\ file # <<>>
  /\ ~Recover(file).corrupt
  /\ mem' = Recover(file).state
  /\ file' = WithoutTornTail(file)
  /\ synced' = Len(file')
  /\ pc' = "ready"
  /\ UNCHANGED <<residue, shadow, outcome, reply, damage, faults>>

-----------------------------------------------------------------------------
(***************************************************************************)
(* append_record: written at the end of the file, answered after the sync. *)
(***************************************************************************)
AppendRecord(record) ==
  /\ pc = "ready"
  /\ file' = Append(file, record)
  /\ pc' = "appending"
  /\ UNCHANGED <<synced, residue, shadow, mem, damage, faults>>

NextMessage(m) == \A k \in 1 .. m : outcome[k] = New <=> k = m

HasRoom == Cardinality(DOMAIN mem.entries) < Capacity

\* Journal::enqueue
Enqueue(m) ==
  /\ NextMessage(m)
  /\ HasRoom
  /\ AppendRecord(Enqueued(mem.next, m))
  /\ UNCHANGED <<outcome, reply>>

\* Journal::enqueue, ensure_healthy: full, or unavailable after a fatal error.
EnqueueRefused(m) ==
  /\ NextMessage(m)
  /\ pc = "poisoned" \/ (pc = "ready" /\ ~HasRoom)
  /\ outcome' = [outcome EXCEPT ![m] = Failed]
  /\ UNCHANGED <<pc, file, synced, residue, shadow, mem, reply, damage, faults>>

\* Journal::acknowledge of an entry that is there.
Acknowledge(id) ==
  /\ id \in DOMAIN mem.entries
  /\ reply' = "none"
  /\ AppendRecord(Acknowledged(id))
  /\ UNCHANGED outcome

\* Journal::acknowledge of an entry that is not: Ok(0); or after a fatal error.
AcknowledgeRefused(id) ==
  /\ pc = "poisoned" \/ (pc = "ready" /\ id \notin DOMAIN mem.entries)
  /\ reply' = "failed"
  /\ UNCHANGED <<pc, file, synced, residue, shadow, mem, outcome, damage, faults>>

\* What a record does to the memory.
Effect(record) ==
  IF record.op = "enqueue" THEN With(mem, record.id, record.message)
                           ELSE Without(mem, record.id)

\* The answer goes to whoever asked.
Answer(record, ok) ==
  IF record.op = "enqueue"
    THEN /\ outcome' = [outcome EXCEPT ![record.message] = IF ok THEN Stored(record.id) ELSE Failed]
         /\ UNCHANGED reply
    ELSE /\ reply' = IF ok THEN "ok" ELSE "failed"
         /\ UNCHANGED outcome

\* append_record, Journal::enqueue and acknowledge: sync_data has succeeded.
Appended ==
  /\ pc = "appending"
  /\ synced' = Len(file)
  /\ residue' = NoRecord
  /\ mem' = Effect(Last(file))
  /\ Answer(Last(file), TRUE)
  /\ pc' = "ready"
  /\ UNCHANGED <<file, shadow, damage, faults>>

(***************************************************************************)
(* append_record: the write or its sync has failed, and what was written   *)
(* is cut off again.  The results of the cut and of its sync are ignored:  *)
(* the cut may not reach the disk, or not happen at all.                   *)
(***************************************************************************)
AppendFails ==
  /\ Fault
  /\ pc = "appending"
  /\ \/ /\ file' = Front(file)
        /\ residue' \in {NoRecord, Last(file)}
        /\ UNCHANGED damage
     \/ /\ file' \in {file} \cup {Append(Front(file), Torn(n)) : n \in 0 .. 1}
        /\ residue' = NoRecord
        /\ damage' = IF damage = "lost" THEN damage ELSE "append"
  /\ Answer(Last(file), FALSE)
  /\ pc' = "ready"
  /\ UNCHANGED <<synced, shadow, mem>>

-----------------------------------------------------------------------------
\* Mutant of CompactedFile: the next identifier is not written.
CompactedFileNoCheckpoint(state) ==
  LET ids == SetToSortSeq(DOMAIN state.entries, <)
  IN  <<Header>> \o [i \in DOMAIN ids |-> Enqueued(ids[i], state.entries[ids[i]])]

\* Journal::compact: header, checkpoint, live entries.
CompactedFile(state) ==
  LET ids == SetToSortSeq(DOMAIN state.entries, <)
  IN  <<Header, Checkpoint(state.next)>>
        \o [i \in DOMAIN ids |-> Enqueued(ids[i], state.entries[ids[i]])]

(***************************************************************************)
(* Journal::compact: the temporary is written, synced and renamed.  If it  *)
(* cannot be opened at its new name the worker is poisoned.  Until the     *)
(* directory is synced a crash may bring back the file it replaced.  A     *)
(* failure before the rename changes nothing.                              *)
(***************************************************************************)
CompactRename ==
  /\ pc = "ready"
  /\ file # CompactedFile(mem) \/ shadow # {}
  /\ shadow' = shadow \cup {file}
  /\ file' = CompactedFile(mem)
  /\ synced' = Len(file')
  /\ residue' = NoRecord
  /\ \/ pc' = "renamed" /\ UNCHANGED faults
     \/ pc' = "poisoned" /\ Fault
  /\ UNCHANGED <<mem, outcome, reply, damage>>

\* sync_parent_directory
DirectorySynced ==
  /\ pc = "renamed"
  /\ shadow' = {}
  /\ damage' = IF damage = "append" THEN "none" ELSE damage
  /\ pc' = "ready"
  /\ UNCHANGED <<file, synced, residue, mem, outcome, reply, faults>>

\* sync_parent_directory has failed: so does compact, and the worker goes on.
DirectorySyncFails ==
  /\ Fault
  /\ pc = "renamed"
  /\ pc' = "ready"
  /\ UNCHANGED <<file, synced, residue, shadow, mem, outcome, reply, damage>>

-----------------------------------------------------------------------------
Pending == IF pc = "appending" THEN {mem, Effect(Last(file))} ELSE {mem}
Residual == IF residue = NoRecord THEN {} ELSE {Effect(residue)}

\* The file the path may name instead is one that nothing was appended after.
ReplacedIsCurrent == pc \in {"creating", "renamed", "poisoned"} /\ Cardinality(shadow) = 1

\* A kill or a loss of power; a request under way is never answered.
Crash ==
  /\ Fault
  /\ pc # "down"
  /\ \E j \in Survivors :
       /\ file' = j
       /\ synced' = Len(j)
       /\ damage' = IF damage # "none" \/ (j \in shadow /\ ~ReplacedIsCurrent)
                      THEN "lost" ELSE "none"
  /\ residue' = NoRecord
  /\ shadow' = {}
  /\ mem' = Empty
  /\ outcome' = [m \in Messages |->
                   IF pc = "appending" /\ Last(file).op = "enqueue" /\ Last(file).message = m
                     THEN Failed ELSE outcome[m]]
  /\ reply' = "none"
  /\ pc' = "down"

-----------------------------------------------------------------------------
JournalTypeOK ==
  /\ pc \in {"down", "creating", "ready", "appending", "renamed", "poisoned"}
  /\ synced \in 0 .. Len(file)
  /\ DOMAIN mem.entries \subseteq 1 .. mem.next - 1
  /\ Cardinality(DOMAIN mem.entries) <= Capacity
  /\ \A m \in Messages : outcome[m] \in {New, Failed} \cup {Stored(id) : id \in 1 .. Cardinality(Messages)}
  /\ reply \in {"none", "ok", "failed"}
  /\ damage \in Damages
  /\ faults \in 0 .. MaxFaults

(***************************************************************************)
(* Whatever a crash would leave of the journal at this moment opens again, *)
(* and holds what was answered, with or without the one request that was   *)
(* under way or was cut off.  The exceptions are the ones the code makes:  *)
(* half a header; bytes a failed rollback left; and a creation or a rename *)
(* whose directory was never synced.                                       *)
(***************************************************************************)
CrashConsistent ==
  pc # "down" /\ damage = "none" =>
    \A j \in Survivors :
      \/ ~Recover(j).corrupt /\ Recover(j).state \in Pending \cup Residual
      \/ pc = "creating" /\ j = <<Torn(0)>>
      \/ j \in shadow /\ ~ReplacedIsCurrent

(***************************************************************************)
(* The file outbox implements the port: through failed appends, torn       *)
(* tails, compactions and crashes, entries leave by acknowledgement alone  *)
(* and no identifier is given out twice, as long as no crash met a damaged *)
(* journal.                                                                *)
(***************************************************************************)
Port == INSTANCE Outbox WITH entries <- Contents.entries, next_id <- Contents.next

ImplementsPort ==
  /\ Port!Init
  /\ [][damage' # "lost" => UNCHANGED Contents \/ Port!Next]_journalVars
=============================================================================
