------------------------ MODULE CloudLinkSpoolState -------------------------
(***************************************************************************)
(* The CloudLink spool: a bounded stream of business records that stay     *)
(* until the cloud acknowledges them with an application receipt           *)
(* (libs/aether-store-local/src/cloudlink_spool.rs, CloudLinkSpoolState).  *)
(*                                                                         *)
(* The state is one record, as in the code, and every operation is an      *)
(* operator on it: an Outcome that follows the checks in the code's order, *)
(* and the state after the outcome that changes anything.  An error        *)
(* outcome leaves the state as it was.  (The one exception is left out: a  *)
(* full MemoryCloudLinkSpool at the last u64 position evicts a record      *)
(* before it fails; the file adapter works on a copy and drops it.)        *)
(*                                                                         *)
(* A payload is abstracted to its digest; wrong stream ids behave as wrong *)
(* epochs do and are not told apart from them; malformed identifiers,      *)
(* sizes and timestamps (validate_enqueue, validate_session) are rejected  *)
(* before anything is read and are left out.                               *)
(***************************************************************************)
EXTENDS Integers, FiniteSets

CONSTANTS
  Inputs,        \* what producers enqueue: [batch : ..., digest : ...]
  Sessions,      \* CloudLinkSessionBinding
  Receipts,      \* receipt ids of the cloud
  Capacities,    \* capacities the process may be configured with
  MaxPosition,   \* u64::MAX for stream positions
  MaxEpoch,      \* u64::MAX for stream epochs
  NoSession,     \* Option::None of offered_session
  NoAck,         \* Option::None of last_ack
  NoLoss         \* Option::None of data_loss

ASSUME CapacityAssumption == Capacities \subseteq Nat \ {0}
ASSUME LimitAssumption == MaxPosition \in Nat \ {0} /\ MaxEpoch \in Nat \ {0}
ASSUME SessionAssumption == NoSession \notin Sessions

Batches == {in.batch : in \in Inputs}
Digests == {in.digest : in \in Inputs}
Positions == 1 .. MaxPosition
Epochs == 1 .. MaxEpoch

DurableAcks ==
  [session : Sessions, epoch : Epochs, position : Positions,
   batch : Batches, digest : Digests, receipt : Receipts]

Identities == [epoch : Epochs, position : Positions]

SpoolRecords ==
  [batch : Batches, digest : Digests,
   state : {"queued", "offered", "published"}, session : Sessions \cup {NoSession}]

LossEvidence ==
  [epoch : Epochs, first : Positions, last : Positions, earliest : Positions]

ASSUME OptionAssumption == NoAck \notin DurableAcks /\ NoLoss \notin LossEvidence

-----------------------------------------------------------------------------
\* CloudLinkSpoolState::new
NewSpool(capacity) ==
  [epoch |-> 1, next |-> 1, capacity |-> capacity,
   records |-> [p \in {} |-> 0], ack |-> NoAck, acked |-> 0, loss |-> NoLoss]

Retained(s) == DOMAIN s.records

\* BTreeMap::keys().next(), or next_position when nothing is retained.
Earliest(s) ==
  IF Retained(s) = {} THEN s.next
  ELSE CHOOSE p \in Retained(s) : \A q \in Retained(s) : p <= q

\* CloudLinkSpoolState::validate_open
CanOpen(s, capacity) == capacity >= Cardinality(Retained(s))

WithCapacity(s, capacity) == [s EXCEPT !.capacity = capacity]

-----------------------------------------------------------------------------
(***************************************************************************)
(* enqueue: an extant batch answers the record it already has, or a        *)
(* conflict; a full spool evicts its oldest record and keeps evidence.     *)
(***************************************************************************)
SameBatch(s, in) == {p \in Retained(s) : s.records[p].batch = in.batch}

EnqueueOutcome(s, in) ==
  CASE \E p \in SameBatch(s, in) : s.records[p].digest = in.digest -> "existing"
    [] \E p \in SameBatch(s, in) : s.records[p].digest # in.digest -> "conflict"
    [] SameBatch(s, in) = {} /\ s.next = MaxPosition -> "exhausted"
    [] OTHER -> "queued"

Full(s) == Cardinality(Retained(s)) = s.capacity

QueuedRecord(in) ==
  [batch |-> in.batch, digest |-> in.digest, state |-> "queued", session |-> NoSession]

\* Mutant of LossAfterEviction: only the last eviction is remembered.
LossForgotten(s, earliest) ==
  [epoch |-> s.epoch, first |-> Earliest(s), last |-> Earliest(s), earliest |-> earliest]

\* Mutant of LossAfterEviction: the evidence includes the first retained position.
LossOffByOne(s, earliest) ==
  [epoch |-> s.epoch, first |-> Earliest(s), last |-> Earliest(s) + 1, earliest |-> earliest]

\* extend_overflow when the lost position continues the evidence, else new evidence.
LossAfterEviction(s, earliest) ==
  LET lost == Earliest(s)
  IN  IF s.loss # NoLoss /\ s.loss.epoch = s.epoch /\ s.loss.last + 1 = lost
        THEN [epoch |-> s.epoch, first |-> s.loss.first, last |-> lost, earliest |-> earliest]
        ELSE [epoch |-> s.epoch, first |-> lost, last |-> lost, earliest |-> earliest]

\* Mutant of AfterEnqueue: the eviction leaves no evidence.
AfterEnqueueSilent(s, in) ==
  LET kept == IF Full(s) THEN Retained(s) \ {Earliest(s)} ELSE Retained(s)
  IN  [s EXCEPT !.next = s.next + 1,
                !.records = [p \in kept \cup {s.next} |->
                               IF p = s.next THEN QueuedRecord(in) ELSE s.records[p]]]

AfterEnqueue(s, in) ==
  LET kept == IF Full(s) THEN Retained(s) \ {Earliest(s)} ELSE Retained(s)
      records == [p \in kept \cup {s.next} |->
                    IF p = s.next THEN QueuedRecord(in) ELSE s.records[p]]
      grown == [s EXCEPT !.records = records, !.next = s.next + 1]
  IN  IF Full(s) THEN [grown EXCEPT !.loss = LossAfterEviction(s, Earliest(grown))]
                 ELSE grown

-----------------------------------------------------------------------------
(***************************************************************************)
(* replay_from: the retained records from a position on, or the evidence   *)
(* that covers the position, or a gap.                                     *)
(***************************************************************************)
ReplayOutcome(s, position) ==
  CASE position > s.next -> "gap"
    [] position <= s.next /\ position >= Earliest(s) -> "records"
    [] position < Earliest(s) /\ position <= s.next ->
         IF s.loss # NoLoss /\ s.loss.first <= position /\ position <= s.loss.last
           THEN "loss" ELSE "gap"

\* record_mut
Holds(s, id) == id.epoch = s.epoch /\ id.position \in Retained(s)

WithDelivery(s, position, state, session) ==
  [s EXCEPT !.records[position].state = state, !.records[position].session = session]

\* mark_offered
OfferOutcome(s, id, session) == IF Holds(s, id) THEN "offered" ELSE "gap"

AfterOffer(s, id, session) == WithDelivery(s, id.position, "offered", session)

\* mark_transport_published
PublishOutcome(s, id, session) ==
  CASE ~Holds(s, id) -> "gap"
    [] Holds(s, id) /\ s.records[id.position].session # session -> "stale_session"
    [] OTHER -> "published"

AfterPublish(s, id, session) == WithDelivery(s, id.position, "published", session)

-----------------------------------------------------------------------------
(***************************************************************************)
(* acknowledge: a receipt counts only for the terminal record it names, on *)
(* the session that record was last offered on, and then removes every     *)
(* record up to it.                                                        *)
(***************************************************************************)
AckOutcome(s, ack) ==
  CASE s.ack = ack -> "duplicate"
    [] s.ack # ack /\ ack.epoch # s.epoch -> "wrong_stream"
    [] s.ack # ack /\ ack.epoch = s.epoch /\ ack.position <= s.acked -> "conflict"
    [] s.ack # ack /\ ack.epoch = s.epoch /\ ack.position > s.acked
         /\ ack.position \notin Retained(s) -> "gap"
    [] OTHER ->
         LET record == s.records[ack.position]
         IN  IF record.session # ack.session THEN "stale_session"
             ELSE IF record.batch # ack.batch \/ record.digest # ack.digest
               THEN "conflict" ELSE "applied"

AfterAck(s, ack) ==
  [s EXCEPT !.records = [p \in {q \in Retained(s) : q > ack.position} |-> s.records[p]],
            !.acked = ack.position, !.ack = ack]

-----------------------------------------------------------------------------
\* rotate_stream_epoch
RotateOutcome(s) ==
  CASE Retained(s) # {} -> "pending"
    [] Retained(s) = {} /\ s.epoch = MaxEpoch -> "exhausted"
    [] OTHER -> "rotated"

AfterRotate(s) ==
  [s EXCEPT !.epoch = s.epoch + 1, !.next = 1, !.ack = NoAck, !.acked = 0, !.loss = NoLoss]

-----------------------------------------------------------------------------
(***************************************************************************)
(* validate_recovered_state: what opening a journal demands of the state   *)
(* it rebuilt, before anything else may use it.                            *)
(***************************************************************************)
ValidRecovered(s) ==
  /\ s.epoch > 0 /\ s.next > 0 /\ s.capacity > 0
  /\ Cardinality(Retained(s)) <= s.capacity
  /\ s.acked < s.next
  /\ IF s.ack = NoAck THEN s.acked = 0
     ELSE s.ack.epoch = s.epoch /\ s.ack.position = s.acked
  /\ \A p \in Retained(s) : s.acked < p /\ p < s.next
  /\ s.loss # NoLoss =>
       /\ s.loss.epoch = s.epoch
       /\ 0 < s.loss.first /\ s.loss.first <= s.loss.last
       /\ s.loss.last < s.loss.earliest
=============================================================================
