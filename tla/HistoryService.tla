--------------------------- MODULE HistoryService ---------------------------
(***************************************************************************)
(* How the history service carries samples from SHM to its database        *)
(* (services/history/src/scheduler.rs, routes.rs, main.rs, db_config.rs    *)
(* and the storage backends).                                              *)
(*                                                                         *)
(* The collector appends samples to a buffer in memory, the flush task     *)
(* takes the whole buffer, writes it in chunks to the backend it finds and *)
(* puts the chunks that failed back in front.  Meanwhile requests change   *)
(* the storage settings and install another backend, and the process is    *)
(* stopped or killed.  A sample is the number of its reading; which series *)
(* are due, and the rows the daily cleanup deletes, are not distinguished. *)
(***************************************************************************)
EXTENDS Naturals, Sequences, Functions

CONSTANTS
  Databases,       \* the databases that settings can name
  Embedded,        \* those of the embedded SQLite backend
  Disabled,        \* NullBackend
  Requests,        \* HTTP requests in flight
  BufferCap,       \* MAX_BUFFERED_POINTS
  BatchSizes,      \* values of batch_size, which a request can change any time
  MaxPoints,       \* bound on samples
  MaxRequests,     \* bound on storage updates and reconnections
  MaxFaults        \* bound on failing operations, dropped requests, stops and kills

ASSUME HistoryAssumption ==
  /\ Embedded \subseteq Databases /\ Disabled \notin Databases
  /\ BufferCap \in Nat \ {0} /\ BatchSizes \subseteq Nat \ {0}
  /\ MaxPoints \in Nat /\ MaxRequests \in Nat /\ MaxFaults \in Nat

VARIABLES
  process,    \* up, stopping (the token is cancelled) or down
  stored,     \* the storage settings in SQLite
  settings,   \* AppState.storage_settings
  storage,    \* AppState.storage: the installed backend
  request,    \* request[q]: a handler at one of its awaits
  collector,  \* the collector task
  flush,      \* the flush task
  buffer,     \* AppState.buffer
  next,       \* the next sample
  fate,       \* what became of samples: written, doubtful, dropped, lost
  late,       \* samples appended after the stop was asked for
  excused,    \* whether the final flush could not write something
  torn,       \* whether an update was abandoned after it may have been saved
  asked, faults

vars == <<process, stored, settings, storage, request, collector, flush, buffer,
          next, fate, late, excused, torn, asked, faults>>

Settings == [enabled : BOOLEAN, db : Databases]

Points == 1 .. MaxPoints

IdleRequest == [pc |-> "idle", want |-> Disabled]

SleepingCollector == [pc |-> "sleeping", points |-> <<>>]

SleepingFlush ==
  [pc |-> "sleeping", points |-> <<>>, failed |-> <<>>, backend |-> Disabled,
   size |-> 0, final |-> FALSE]

TypeOK ==
  /\ process \in {"up", "stopping", "down"}
  /\ stored \in Settings /\ settings \in Settings
  /\ storage \in Databases \cup {Disabled}
  /\ request \in [Requests ->
       [pc : {"idle", "saving", "saved", "connecting", "connected"},
        want : Settings \cup {Disabled}]]
  /\ collector.pc \in {"sleeping", "ticked", "collected"}
  /\ flush.pc \in {"sleeping", "taken", "writing", "done"}
  /\ flush.backend \in Databases \cup {Disabled}
  /\ flush.size \in BatchSizes \cup {0} /\ flush.final \in BOOLEAN
  /\ \A s \in {collector.points, flush.points, flush.failed, buffer} :
       Range(s) \subseteq Points
  /\ next \in 1 .. MaxPoints + 1
  /\ fate \in [{"written", "doubtful", "dropped", "lost"} -> SUBSET Points]
  /\ late \subseteq Points
  /\ excused \in BOOLEAN /\ torn \in BOOLEAN
  /\ asked \in 0 .. MaxRequests /\ faults \in 0 .. MaxFaults

(***************************************************************************)
(* A fresh installation: the embedded backend enabled and connected.       *)
(***************************************************************************)
Init ==
  /\ process = "up"
  /\ \E d \in Embedded :
       /\ stored = [enabled |-> TRUE, db |-> d]
       /\ settings = stored
       /\ storage = d
  /\ request = [q \in Requests |-> IdleRequest]
  /\ collector = SleepingCollector
  /\ flush = SleepingFlush
  /\ buffer = <<>>
  /\ next = 1
  /\ fate = [f \in {"written", "doubtful", "dropped", "lost"} |-> {}]
  /\ late = {}
  /\ excused = FALSE
  /\ torn = FALSE
  /\ asked = 0
  /\ faults = 0

Running == process # "down"

Fault == faults < MaxFaults /\ faults' = faults + 1

\* Nobody holds the write side of storage_settings.
LockFree == \A q \in Requests : request[q].pc \notin {"saving", "saved"}

(***************************************************************************)
(* storage_is_active.  The two reads are one step: a backend found after   *)
(* storage was disabled is NullBackend whatever the first read returned.   *)
(***************************************************************************)
Active == settings.enabled /\ storage # Disabled

-----------------------------------------------------------------------------
(***************************************************************************)
(* The collector.                                                          *)
(***************************************************************************)
Tick ==
  /\ process = "up"
  /\ collector.pc = "sleeping" /\ next <= MaxPoints
  /\ collector' = [collector EXCEPT !.pc = "ticked"]
  /\ UNCHANGED <<process, stored, settings, storage, request, flush, buffer, next,
                 fate, late, excused, torn, asked, faults>>

\* A batch of samples, or none: inactive, nothing due, or an SHM error.
Collect ==
  /\ Running /\ collector.pc = "ticked" /\ LockFree
  /\ \/ /\ Active
        /\ \E last \in next .. MaxPoints :
             /\ collector' = [pc |-> "collected",
                              points |-> [i \in 1 .. last - next + 1 |-> next + i - 1]]
             /\ next' = last + 1
     \/ /\ collector' = SleepingCollector
        /\ UNCHANGED next
  /\ UNCHANGED <<process, stored, settings, storage, request, flush, buffer,
                 fate, late, excused, torn, asked, faults>>

Excess(s) == IF Len(s) > BufferCap THEN Len(s) - BufferCap ELSE 0

\* enforce_buffer_cap
EnforceBufferCap(s) ==
  /\ buffer' = SubSeq(s, Excess(s) + 1, Len(s))
  /\ fate' = [fate EXCEPT !["dropped"] = @ \cup Range(SubSeq(s, 1, Excess(s)))]

\* The collected points reach the buffer.
ExtendBuffer ==
  /\ Running /\ collector.pc = "collected"
  /\ EnforceBufferCap(buffer \o collector.points)
  /\ collector' = SleepingCollector
  /\ late' = IF process = "stopping" THEN late \cup Range(collector.points) ELSE late
  /\ UNCHANGED <<process, stored, settings, storage, request, flush, next,
                 excused, torn, asked, faults>>

-----------------------------------------------------------------------------
(***************************************************************************)
(* The flush task: flush_buffer at every interval, and once more when the  *)
(* token is cancelled.                                                     *)
(***************************************************************************)
EndFlush(final) == [SleepingFlush EXCEPT !.pc = IF final THEN "done" ELSE "sleeping"]

\* Mutant: only a full buffer is worth a flush.
FlushWhenFull ==
  /\ Running /\ flush.pc = "sleeping" /\ LockFree
  /\ IF Active /\ Len(buffer) = BufferCap
       THEN /\ \E size \in BatchSizes :
                 flush' = [SleepingFlush EXCEPT !.pc = "taken", !.points = buffer,
                                                !.size = size,
                                                !.final = process = "stopping"]
            /\ buffer' = <<>>
       ELSE /\ flush' = EndFlush(process = "stopping")
            /\ UNCHANGED buffer
  /\ UNCHANGED <<process, stored, settings, storage, request, collector, next,
                 fate, late, excused, torn, asked, faults>>

\* batch_size, storage_is_active, and the whole buffer, if there is one.
Flush ==
  /\ Running /\ flush.pc = "sleeping" /\ LockFree
  /\ IF Active /\ buffer # <<>>
       THEN /\ \E size \in BatchSizes :
                 flush' = [SleepingFlush EXCEPT !.pc = "taken", !.points = buffer,
                                                !.size = size,
                                                !.final = process = "stopping"]
            /\ buffer' = <<>>
            /\ UNCHANGED excused
       ELSE /\ flush' = EndFlush(process = "stopping")
            /\ excused' = (excused \/ (process = "stopping" /\ ~Active))
            /\ UNCHANGED buffer
  /\ UNCHANGED <<process, stored, settings, storage, request, collector, next,
                 fate, late, torn, asked, faults>>

\* The backend is cloned after the buffer was taken.
TakeBackend ==
  /\ Running /\ flush.pc = "taken"
  /\ flush' = [flush EXCEPT !.pc = "writing", !.backend = storage]
  /\ UNCHANGED <<process, stored, settings, storage, request, collector, buffer, next,
                 fate, late, excused, torn, asked, faults>>

ChunkLength == IF Len(flush.points) < flush.size THEN Len(flush.points) ELSE flush.size

Chunk == SubSeq(flush.points, 1, ChunkLength)

RestOfBatch == SubSeq(flush.points, ChunkLength + 1, Len(flush.points))

\* write_batch of one chunk in one transaction; NullBackend writes nothing.
WriteBatch ==
  /\ Running /\ flush.pc = "writing" /\ flush.points # <<>>
  /\ flush.backend \in Databases
  /\ flush' = [flush EXCEPT !.points = RestOfBatch]
  /\ fate' = [fate EXCEPT !["written"] = @ \cup Range(Chunk)]
  /\ UNCHANGED <<process, stored, settings, storage, request, collector, buffer, next,
                 late, excused, torn, asked, faults>>

\* It fails, and the transaction may have been applied all the same.
WriteBatchFails ==
  /\ Running /\ flush.pc = "writing" /\ flush.points # <<>>
  /\ flush' = [flush EXCEPT !.points = RestOfBatch, !.failed = @ \o Chunk]
  /\ excused' = (excused \/ flush.final)
  /\ \/ /\ flush.backend = Disabled
        /\ UNCHANGED <<fate, faults>>
     \/ /\ flush.backend \in Databases
        /\ Fault
        /\ \/ UNCHANGED fate
           \/ fate' = [fate EXCEPT !["written"] = @ \cup Range(Chunk),
                                   !["doubtful"] = @ \cup Range(Chunk)]
  /\ UNCHANGED <<process, stored, settings, storage, request, collector, buffer, next,
                 late, torn, asked>>

\* Mutant: failed points go behind the points collected meanwhile.
PutBackBehind ==
  /\ Running /\ flush.pc = "writing" /\ flush.points = <<>>
  /\ EnforceBufferCap(buffer \o flush.failed)
  /\ flush' = EndFlush(flush.final)
  /\ UNCHANGED <<process, stored, settings, storage, request, collector, next,
                 late, excused, torn, asked, faults>>

\* Failed points go back to the front of the buffer.
PutBack ==
  /\ Running /\ flush.pc = "writing" /\ flush.points = <<>>
  /\ EnforceBufferCap(flush.failed \o buffer)
  /\ flush' = EndFlush(flush.final)
  /\ UNCHANGED <<process, stored, settings, storage, request, collector, next,
                 late, excused, torn, asked, faults>>

-----------------------------------------------------------------------------
(***************************************************************************)
(* update_storage: the lock is held while the settings are saved in SQLite *)
(* and applied; disabling installs NullBackend first.                      *)
(***************************************************************************)
UpdateStorage(q, new) ==
  /\ process = "up" /\ request[q].pc = "idle" /\ LockFree
  /\ asked < MaxRequests /\ asked' = asked + 1
  /\ request' = [request EXCEPT ![q] = [pc |-> "saving", want |-> new]]
  /\ UNCHANGED <<process, stored, settings, storage, collector, flush, buffer, next,
                 fate, late, excused, torn, faults>>

SaveStorage(q) ==
  /\ Running /\ request[q].pc = "saving"
  /\ stored' = request[q].want
  /\ request' = [request EXCEPT ![q].pc = "saved"]
  /\ UNCHANGED <<process, settings, storage, collector, flush, buffer, next,
                 fate, late, excused, torn, asked, faults>>

Apply(q) ==
  /\ Running /\ request[q].pc = "saved"
  /\ storage' = IF request[q].want.enabled THEN storage ELSE Disabled
  /\ settings' = request[q].want
  /\ torn' = FALSE
  /\ request' = [request EXCEPT ![q] = IdleRequest]
  /\ UNCHANGED <<process, stored, collector, flush, buffer, next, fate, late,
                 excused, asked, faults>>

(***************************************************************************)
(* A save that reports an error, or a request dropped at an await: the     *)
(* rows may be in SQLite and are not applied.                              *)
(***************************************************************************)
AbandonUpdate(q) ==
  /\ Running /\ request[q].pc \in {"saving", "saved"}
  /\ Fault
  /\ stored' \in {stored, request[q].want}
  /\ torn' = TRUE
  /\ request' = [request EXCEPT ![q] = IdleRequest]
  /\ UNCHANGED <<process, settings, storage, collector, flush, buffer, next, fate,
                 late, excused, asked>>

(***************************************************************************)
(* reconnect_storage: connects with the settings it read, and installs the *)
(* backend if they are still the settings.                                 *)
(***************************************************************************)
ReconnectStorage(q) ==
  /\ process = "up" /\ request[q].pc = "idle" /\ LockFree
  /\ settings.enabled
  /\ asked < MaxRequests /\ asked' = asked + 1
  /\ request' = [request EXCEPT ![q] = [pc |-> "connecting", want |-> settings]]
  /\ UNCHANGED <<process, stored, settings, storage, collector, flush, buffer, next,
                 fate, late, excused, torn, faults>>

Connect(q) ==
  /\ Running /\ request[q].pc = "connecting"
  /\ request' = [request EXCEPT ![q].pc = "connected"]
  /\ UNCHANGED <<process, stored, settings, storage, collector, flush, buffer, next,
                 fate, late, excused, torn, asked, faults>>

\* Mutant: the settings are not read again.
SnapshotTrusted(q) == TRUE

\* ~reconnect_snapshot_is_stale
SnapshotCurrent(q) == request[q].want = settings

Install(q) ==
  /\ Running /\ request[q].pc = "connected" /\ LockFree
  /\ storage' = IF SnapshotCurrent(q) THEN request[q].want.db ELSE storage
  /\ request' = [request EXCEPT ![q] = IdleRequest]
  /\ UNCHANGED <<process, stored, settings, collector, flush, buffer, next, fate,
                 late, excused, torn, asked, faults>>

\* The database cannot be reached, or the request is dropped.
ConnectFails(q) ==
  /\ Running /\ request[q].pc \in {"connecting", "connected"}
  /\ Fault
  /\ request' = [request EXCEPT ![q] = IdleRequest]
  /\ UNCHANGED <<process, stored, settings, storage, collector, flush, buffer, next,
                 fate, late, excused, torn, asked>>

-----------------------------------------------------------------------------
(***************************************************************************)
(* main: a stop cancels the token, lets the requests finish and waits for  *)
(* the final flush, but for 15 seconds at most; the other tasks are        *)
(* aborted.                                                                *)
(***************************************************************************)
Stop ==
  /\ process = "up"
  /\ Fault
  /\ process' = "stopping"
  /\ UNCHANGED <<stored, settings, storage, request, collector, flush, buffer, next,
                 fate, late, excused, torn, asked>>

Unwritten == Range(flush.failed) \cup Range(flush.points) \cup Range(buffer)

Held == Unwritten \cup Range(collector.points)

\* The memory of the process is gone.
Die ==
  /\ process' = "down"
  /\ fate' = [fate EXCEPT !["lost"] = @ \cup Held]
  /\ request' = [q \in Requests |-> IdleRequest]
  /\ collector' = SleepingCollector
  /\ flush' = SleepingFlush
  /\ buffer' = <<>>
  /\ late' = {}
  /\ excused' = FALSE

\* join_flush, with the final flush ended or not.
JoinFlush ==
  /\ process = "stopping"
  /\ \A q \in Requests : request[q].pc = "idle"
  /\ Die
  /\ \/ flush.pc = "done" /\ UNCHANGED faults
     \/ flush.pc # "done" /\ Fault
  /\ UNCHANGED <<stored, settings, storage, next, torn, asked>>

\* A kill; a transaction on its way to SQLite may still be committed.
Crash ==
  /\ Running
  /\ Fault
  /\ Die
  /\ stored' \in {stored} \cup {request[q].want : q \in {r \in Requests : request[r].pc = "saving"}}
  /\ UNCHANGED <<settings, storage, next, torn, asked>>

(***************************************************************************)
(* main restores the saved settings.  The embedded backend has to connect, *)
(* an external one that does not leaves the service running without.       *)
(***************************************************************************)
Start ==
  /\ process = "down"
  /\ process' = "up"
  /\ settings' = stored
  /\ torn' = FALSE
  /\ IF stored.enabled
       THEN \/ storage' = stored.db /\ UNCHANGED faults
            \/ stored.db \notin Embedded /\ Fault /\ storage' = Disabled
       ELSE storage' = Disabled /\ UNCHANGED faults
  /\ UNCHANGED <<stored, request, collector, flush, buffer, next, fate, late,
                 excused, asked>>

-----------------------------------------------------------------------------
RequestStep(q) ==
  \/ SaveStorage(q) \/ Apply(q) \/ AbandonUpdate(q)
  \/ Connect(q) \/ Install(q) \/ ConnectFails(q)

CollectorStep == Tick \/ Collect \/ ExtendBuffer

FlushStep == Flush \/ TakeBackend \/ WriteBatch \/ WriteBatchFails \/ PutBack

Next ==
  \/ \E q \in Requests :
       \/ \E new \in Settings : UpdateStorage(q, new)
       \/ ReconnectStorage(q)
       \/ RequestStep(q)
  \/ CollectorStep \/ FlushStep
  \/ Stop \/ JoinFlush \/ Crash \/ Start

Spec == Init /\ [][Next]_vars

(***************************************************************************)
(* Fairness.  The tasks and the handlers run on while the process does;    *)
(* the lock is queued fairly and every holder gives it up, so the flush    *)
(* gets its turn.  Nothing is assumed of requests, faults or restarts.     *)
(***************************************************************************)
Fairness ==
  /\ WF_vars(CollectorStep)
  /\ WF_vars(FlushStep)
  /\ WF_vars(\E q \in Requests : RequestStep(q))

FairSpec == Spec /\ Fairness

-----------------------------------------------------------------------------
(***************************************************************************)
(* Once storage is disabled no backend is installed: not by a reconnection *)
(* that connected before the update and installs after it.                 *)
(***************************************************************************)
DisabledStaysDisabled == Running /\ ~settings.enabled => storage = Disabled

(***************************************************************************)
(* Between updates the running settings are the saved ones, whatever two   *)
(* updates at once did, unless an update was abandoned half-way.           *)
(***************************************************************************)
SettingsAgree ==
  /\ Running /\ ~torn
  /\ \A q \in Requests : request[q].pc \notin {"saving", "saved"}
  => settings = stored

(***************************************************************************)
(* No sample disappears: it is held in memory, written, dropped by the cap *)
(* or gone with the process; and one that was written is not held to be    *)
(* written again, unless its write had reported an error.                  *)
(***************************************************************************)
Accounted ==
  /\ 1 .. next - 1 =
       Held \cup fate["written"] \cup fate["dropped"] \cup fate["lost"]
  /\ fate["written"] \cap (Held \cup fate["dropped"] \cup fate["lost"])
       \subseteq fate["doubtful"]

(***************************************************************************)
(* The samples waiting to be written are in the order they were collected, *)
(* each of them once, whichever chunks failed and came back.               *)
(***************************************************************************)
HeldInOrder ==
  LET held == flush.failed \o flush.points \o buffer \o collector.points IN
  \A i, j \in DOMAIN held : i < j => held[i] < held[j]

(***************************************************************************)
(* The buffer never exceeds its ceiling, and what the ceiling costs is the *)
(* oldest: no dropped sample is newer than one that is kept.               *)
(***************************************************************************)
KeepsNewest ==
  /\ Len(buffer) <= BufferCap
  /\ \A old \in fate["dropped"], kept \in Range(buffer) : old < kept

(***************************************************************************)
(* When the final flush ended and every write of it succeeded, a stop      *)
(* loses no sample that was in the buffer when the stop was asked for.     *)
(***************************************************************************)
StopLosesOnlyLate ==
  flush.pc = "done" /\ ~excused => Unwritten \subseteq late

(***************************************************************************)
(* While storage stays active, every sample is written in the end, or was  *)
(* dropped or lost before: failed chunks are retried.                      *)
(***************************************************************************)
WritesCatchUp ==
  <>[](process = "up" /\ Active) =>
    <>[](1 .. next - 1 \subseteq
           fate["written"] \cup fate["dropped"] \cup fate["lost"])

(***************************************************************************)
(* The running settings, the saved ones and the installed backend agree.   *)
(***************************************************************************)
SettingsInForce == TypeOK /\ DisabledStaysDisabled /\ SettingsAgree

(***************************************************************************)
(* Samples are accounted for and kept in order; what the ceiling or a stop *)
(* costs is the oldest or what came too late.                              *)
(***************************************************************************)
SamplesKept == Accounted /\ HeldInOrder /\ KeepsNewest /\ StopLosesOnlyLate
=============================================================================
