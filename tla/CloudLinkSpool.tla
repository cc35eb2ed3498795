--------------------------- MODULE CloudLinkSpool ---------------------------
(***************************************************************************)
(* What a CloudLink spool promises (trait aether_ports::CloudLinkSpool):   *)
(* every call takes effect at once, and one that fails changes nothing.    *)
(* FileCloudLinkSpool is shown to implement this module through crashes,   *)
(* failed writes and compactions.                                          *)
(***************************************************************************)
EXTENDS CloudLinkSpoolState

VARIABLE spool

SpoolTypeOK ==
  /\ Retained(spool) \subseteq Positions
  /\ spool \in
       [epoch : Epochs, next : Positions, capacity : Capacities,
        records : [Retained(spool) -> SpoolRecords],
        ack : DurableAcks \cup {NoAck}, acked : 0 .. MaxPosition,
        loss : LossEvidence \cup {NoLoss}]

SpoolInit == \E capacity \in Capacities : spool = NewSpool(capacity)

Enqueue(in) ==
  /\ EnqueueOutcome(spool, in) = "queued"
  /\ spool' = AfterEnqueue(spool, in)

MarkOffered(id, session) ==
  /\ OfferOutcome(spool, id, session) = "offered"
  /\ spool' = AfterOffer(spool, id, session)

MarkTransportPublished(id, session) ==
  /\ PublishOutcome(spool, id, session) = "published"
  /\ spool' = AfterPublish(spool, id, session)

Acknowledge(ack) ==
  /\ AckOutcome(spool, ack) = "applied"
  /\ spool' = AfterAck(spool, ack)

RotateStreamEpoch ==
  /\ RotateOutcome(spool) = "rotated"
  /\ spool' = AfterRotate(spool)

\* The process restarts, possibly configured with another capacity.
Reopen(capacity) ==
  /\ CanOpen(spool, capacity)
  /\ spool' = WithCapacity(spool, capacity)

SpoolNext ==
  \/ \E in \in Inputs : Enqueue(in)
  \/ \E id \in Identities, session \in Sessions :
       MarkOffered(id, session) \/ MarkTransportPublished(id, session)
  \/ \E ack \in DurableAcks : Acknowledge(ack)
  \/ RotateStreamEpoch
  \/ \E capacity \in Capacities : Reopen(capacity)

SpoolSpec == SpoolInit /\ [][SpoolNext]_spool

-----------------------------------------------------------------------------
(***************************************************************************)
(* The cloud resumes at the position after the last one it acknowledged.   *)
(* replay_from then answers records or loss evidence, never a gap: nothing *)
(* is skipped silently, whatever was evicted and acknowledged before.      *)
(***************************************************************************)
ResumeNeverGaps == ReplayOutcome(spool, spool.acked + 1) # "gap"

(***************************************************************************)
(* Every state the operations reach passes validate_recovered_state, so a  *)
(* journal of legal operations is never refused when it is opened again.   *)
(***************************************************************************)
StateStaysRecoverable == ValidRecovered(spool)

(***************************************************************************)
(* The evidence tells the truth: no position it calls lost is retained,    *)
(* and what it calls earliest retained was not acknowledged away behind it.*)
(***************************************************************************)
EvidenceTruthful ==
  spool.loss # NoLoss =>
    /\ spool.loss.last < Earliest(spool)
    /\ spool.loss.earliest <= Earliest(spool)

(***************************************************************************)
(* enqueue is idempotent: two retained records never carry one batch id.   *)
(***************************************************************************)
BatchRetainedOnce ==
  \A p, q \in Retained(spool) :
    spool.records[p].batch = spool.records[q].batch => p = q

(***************************************************************************)
(* A retained record leaves the spool only under a durable receipt that    *)
(* covers it or into the loss evidence, and its content never changes      *)
(* ("Only a durable application ACK permits removal").                     *)
(***************************************************************************)
RemovedOnlyWithProof ==
  [][\A p \in Retained(spool) :
       IF p \in Retained(spool')
         THEN /\ spool'.records[p].batch = spool.records[p].batch
              /\ spool'.records[p].digest = spool.records[p].digest
         ELSE \/ p <= spool'.acked
              \/ /\ spool'.loss # NoLoss
                 /\ spool'.loss.first <= p /\ p <= spool'.loss.last]_spool

(***************************************************************************)
(* A stream identity (epoch, position) is handed out at most once, and the *)
(* acknowledged position of an epoch never moves back.                     *)
(***************************************************************************)
IdentityNeverReused ==
  [][\/ spool'.epoch > spool.epoch
     \/ /\ spool'.epoch = spool.epoch
        /\ spool'.next >= spool.next
        /\ spool'.acked >= spool.acked]_spool

(***************************************************************************)
(* Every state the operations reach is sound: recoverable, truthful about  *)
(* losses, with one record per batch.                                      *)
(***************************************************************************)
SpoolSound ==
  SpoolTypeOK /\ StateStaysRecoverable /\ EvidenceTruthful /\ BatchRetainedOnce

(***************************************************************************)
(* No operation makes a record vanish or an identity return.               *)
(***************************************************************************)
HistoryKept == RemovedOnlyWithProof /\ IdentityNeverReused
=============================================================================
