------------------------------- MODULE Outbox -------------------------------
(***************************************************************************)
(* What a durable outbox promises its callers: the DurableOutbox port of   *)
(* crates/aether-ports, as MemoryOutbox of                                 *)
(* libs/aether-store-local/src/outbox.rs keeps it.  Entries leave only by  *)
(* acknowledgement, in any order, and an identifier is given out once.     *)
(***************************************************************************)
EXTENDS Naturals, FiniteSets, Functions

CONSTANTS
  Messages,   \* what may be enqueued
  Capacity    \* entries the outbox holds at most

VARIABLES
  entries,    \* the pending messages, by identifier
  next_id     \* the identifier of the next one

NoEntries == [id \in {} |-> id]

Init == entries = NoEntries /\ next_id = 1

Enqueue(m) ==
  /\ Cardinality(DOMAIN entries) < Capacity
  /\ entries' = [id \in DOMAIN entries \cup {next_id} |->
                   IF id = next_id THEN m ELSE entries[id]]
  /\ next_id' = next_id + 1

Acknowledge(ids) ==
  /\ ids \cap DOMAIN entries # {}
  /\ entries' = Restrict(entries, DOMAIN entries \ ids)
  /\ UNCHANGED next_id

Next ==
  \/ \E m \in Messages : Enqueue(m)
  \/ \E ids \in SUBSET DOMAIN entries : Acknowledge(ids)

Spec == Init /\ [][Next]_<<entries, next_id>>
=============================================================================
