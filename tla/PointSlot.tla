----------------------------- MODULE PointSlot -----------------------------
(***************************************************************************)
(* The seqlock of one shared-memory point slot                             *)
(* (crates/aether-dataplane/src/core/slot.rs).                             *)
(*                                                                         *)
(* A slot is a 32-bit sequence counter and four data words.  `set` makes   *)
(* the counter odd, stores the words and makes it even again;              *)
(* `try_load_consistent` reads the counter, the words and the counter once *)
(* more, and answers None unless both reads agree on an even value.  The   *)
(* fences order the counter against the words but not the words among      *)
(* themselves, so the words are stored, and loaded, in any order.          *)
(*                                                                         *)
(* The payload is abstracted to the number of the `set` call that stored   *)
(* it: a read is torn when its words come from two calls.                  *)
(***************************************************************************)
EXTENDS Integers

CONSTANTS
  Writers,      \* threads that may call set() on this slot
  Readers,      \* threads that call try_load_consistent()
  Fields,       \* the data words: value, raw, timestamp, quality
  SeqModulus,   \* 2^32 in the code: seq is an AtomicU32 and wraps
  MaxWrites,    \* bound on the number of set() calls
  MaxCrashes    \* bound on the number of writers killed inside set()

ASSUME SeqModulusAssumption ==
  SeqModulus \in Nat /\ SeqModulus > 0 /\ SeqModulus % 2 = 0

ASSUME BoundsAssumption == MaxWrites \in Nat /\ MaxCrashes \in Nat

ASSUME FieldsAssumption == Fields # {}

VARIABLES
  seq,       \* the sequence counter
  field,     \* field[f]: the set() call whose store the word holds
  writer,    \* writer[w]: local state of set()
  reader,    \* reader[r]: local state and last answer of the read
  begun,     \* number of set() calls entered so far
  ended,     \* number of the last set() call that returned
  crashes    \* writers killed inside set() so far

slotVars == <<seq, field, writer, reader, begun, ended, crashes>>

IdleWriter == [pc |-> "idle", call |-> 0, pending |-> {}]
IdleReader ==
  [pc |-> "idle", seq1 |-> 0, since |-> 0, todo |-> {}, got |-> [f \in Fields |-> 0]]

WriterStates == [pc : {"idle", "store"}, call : Nat, pending : SUBSET Fields]
ReaderStates ==
  [pc : {"idle", "load", "none", "some"}, seq1 : 0 .. SeqModulus - 1,
   since : Nat, todo : SUBSET Fields, got : [Fields -> Nat]]

SlotTypeOK ==
  /\ seq \in 0 .. SeqModulus - 1
  /\ field \in [Fields -> Nat]
  /\ writer \in [Writers -> WriterStates]
  /\ reader \in [Readers -> ReaderStates]
  /\ begun \in Nat
  /\ ended \in Nat
  /\ crashes \in Nat

(***************************************************************************)
(* PointSlot::new: sequence zero, every word the unwritten sentinel        *)
(* (written by "call 0").                                                  *)
(***************************************************************************)
SlotInit ==
  /\ seq = 0
  /\ field = [f \in Fields |-> 0]
  /\ writer = [w \in Writers |-> IdleWriter]
  /\ reader = [r \in Readers |-> IdleReader]
  /\ begun = 0
  /\ ended = 0
  /\ crashes = 0

\* fetch_add(1) on an AtomicU32.
Bump(s) == (s + 1) % SeqModulus

Odd(s) == s % 2 = 1

(***************************************************************************)
(* Timing assumption: no reader is descheduled inside one read for so long *)
(* that half of the counter's range (2^31 calls) of writes passes.         *)
(***************************************************************************)
NoReaderLapped ==
  \A r \in Readers :
    reader[r].pc = "load" => 2 * (begun + 1) < 2 * reader[r].since + SeqModulus

(***************************************************************************)
(* set(): the first fetch_add.  The debug assertion is not compiled into a *)
(* release build, so an odd counter does not stop the call.                *)
(***************************************************************************)
SetBegin(w) ==
  /\ writer[w].pc = "idle"
  /\ begun < MaxWrites
  /\ NoReaderLapped
  /\ seq' = Bump(seq)
  /\ begun' = begun + 1
  /\ writer' = [writer EXCEPT ![w] =
                  [pc |-> "store", call |-> begun + 1, pending |-> Fields]]
  /\ UNCHANGED <<field, reader, ended, crashes>>

\* set(): one of the relaxed data stores between the two fences.
SetStore(w, f) ==
  /\ writer[w].pc = "store"
  /\ f \in writer[w].pending
  /\ field' = [field EXCEPT ![f] = writer[w].call]
  /\ writer' = [writer EXCEPT ![w].pending = @ \ {f}]
  /\ UNCHANGED <<seq, reader, begun, ended, crashes>>

\* Mutant of SetEnd: without the release order a store may sink below it.
SetEndUnordered(w) ==
  /\ writer[w].pc = "store"
  /\ seq' = Bump(seq)
  /\ ended' = writer[w].call
  /\ writer' = [writer EXCEPT ![w] = IdleWriter]
  /\ UNCHANGED <<field, reader, begun, crashes>>

\* Mutant of SetEnd: the closing increment is forgotten.
SetEndWithoutBump(w) ==
  /\ writer[w].pc = "store"
  /\ writer[w].pending = {}
  /\ ended' = writer[w].call
  /\ writer' = [writer EXCEPT ![w] = IdleWriter]
  /\ UNCHANGED <<seq, field, reader, begun, crashes>>

\* set(): the closing fetch_add.
SetEnd(w) ==
  /\ writer[w].pc = "store"
  /\ writer[w].pending = {}
  /\ seq' = Bump(seq)
  /\ ended' = writer[w].call
  /\ writer' = [writer EXCEPT ![w] = IdleWriter]
  /\ UNCHANGED <<field, reader, begun, crashes>>

(***************************************************************************)
(* The writing process is killed inside set().  The segment outlives it    *)
(* and a restarted process maps it again with SlotWriter::open_existing,   *)
(* which looks at the header only.                                         *)
(***************************************************************************)
Crash(w) ==
  /\ writer[w].pc = "store"
  /\ crashes < MaxCrashes
  /\ crashes' = crashes + 1
  /\ writer' = [writer EXCEPT ![w] = IdleWriter]
  /\ UNCHANGED <<seq, field, reader, begun, ended>>

\* try_load_consistent(): the first load of seq; odd answers None at once.
LoadBegin(r) ==
  /\ reader[r].pc # "load"
  /\ reader' = [reader EXCEPT ![r] =
                  IF Odd(seq)
                    THEN [IdleReader EXCEPT !.pc = "none"]
                    ELSE [IdleReader EXCEPT !.pc = "load", !.seq1 = seq,
                                            !.since = ended, !.todo = Fields]]
  /\ UNCHANGED <<seq, field, writer, begun, ended, crashes>>

\* try_load_consistent(): one of the relaxed data loads.
LoadField(r, f) ==
  /\ reader[r].pc = "load"
  /\ f \in reader[r].todo
  /\ reader' = [reader EXCEPT ![r].todo = @ \ {f}, ![r].got[f] = field[f]]
  /\ UNCHANGED <<seq, field, writer, begun, ended, crashes>>

\* Mutant of LoadEnd: the second load only asks that no write is running.
LoadEndParityOnly(r) ==
  /\ reader[r].pc = "load"
  /\ reader[r].todo = {}
  /\ reader' = [reader EXCEPT ![r].pc = IF Odd(seq) THEN "none" ELSE "some"]
  /\ UNCHANGED <<seq, field, writer, begun, ended, crashes>>

\* try_load_consistent(): the second load of seq decides the answer.
LoadEnd(r) ==
  /\ reader[r].pc = "load"
  /\ reader[r].todo = {}
  /\ reader' = [reader EXCEPT ![r].pc =
                  IF seq = reader[r].seq1 THEN "some" ELSE "none"]
  /\ UNCHANGED <<seq, field, writer, begun, ended, crashes>>

Set(w) == SetBegin(w) \/ (\E f \in Fields : SetStore(w, f)) \/ SetEnd(w)

Load(r) == LoadBegin(r) \/ (\E f \in Fields : LoadField(r, f)) \/ LoadEnd(r)

SlotNext ==
  \/ \E w \in Writers : Set(w) \/ Crash(w)
  \/ \E r \in Readers : Load(r)

SlotSpec == SlotInit /\ [][SlotNext]_slotVars

-----------------------------------------------------------------------------
(***************************************************************************)
(* What slot.rs says of the sequence counter: "guarantee consistent reads  *)
(* across all fields".  A read that answers Some returns the words of one  *)
(* single set() call.  It does not survive a writer killed inside set().   *)
(***************************************************************************)
ConsistentReads ==
  \A r \in Readers :
    reader[r].pc = "some" =>
      \A f, g \in Fields : reader[r].got[f] = reader[r].got[g]

(***************************************************************************)
(* As long as no writer was killed inside set(), try_load_consistent       *)
(* returns the words of one single set() call.                             *)
(***************************************************************************)
NoTornRead == crashes = 0 => ConsistentReads

(***************************************************************************)
(* A read that answers Some is not stale, whether or not writers were      *)
(* killed: each word is of the last set() call that had returned when the  *)
(* read began, or of a later one.                                          *)
(***************************************************************************)
FreshRead ==
  \A r \in Readers :
    reader[r].pc = "some" =>
      \A f \in Fields : reader[r].got[f] >= reader[r].since

(***************************************************************************)
(* As long as no writer was killed inside set(), the counter is odd        *)
(* exactly while a set() call is between its two increments ("odd = write  *)
(* in progress, even = idle"): a slot nobody is writing is readable.       *)
(***************************************************************************)
IdleSlotReadable ==
  crashes = 0 => (Odd(seq) <=> \E w \in Writers : writer[w].pc = "store")
=============================================================================
