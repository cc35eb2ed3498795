-------------------------- MODULE TelemetryProofs --------------------------
(***************************************************************************)
(* Proofs about the two places where data that leaves the live plane is    *)
(* kept: the spool of CloudLink (CloudLinkSpool) and the buffer and        *)
(* backend of the history service (HistoryService).                        *)
(*                                                                         *)
(* The spool.  Its safety for every capacity, every number of batches,     *)
(* sessions and receipts, and every position and epoch limit.              *)
(*                                                                         *)
(* The history service.  For every ceiling of the buffer, every batch      *)
(* size, number of samples, of requests and of faults, the running         *)
(* settings, the saved ones and the backend agree, and no sample           *)
(* disappears.  What the ceiling drops is the oldest only because a batch  *)
(* that comes back after the buffer has overflowed finds no room at all    *)
(* (CapInv).  That a stop loses only what came late needs that everything  *)
(* in the buffer during the final flush was appended after the stop        *)
(* (StopInv).                                                              *)
(***************************************************************************)
EXTENDS CloudLinkSpool, HistoryService, FiniteSetTheorems, TLAPS

-----------------------------------------------------------------------------
(* The spool *)

(***************************************************************************)
(* The inductive invariant.  Records are appended at the end and removed   *)
(* from the front only, so what is retained is one interval that starts at *)
(* lo; if anything between the acknowledged position and lo is missing,    *)
(* the evidence reaches from there to lo - 1.                              *)
(***************************************************************************)
EvidenceInv(s, lo) ==
  /\ s.acked + 1 < lo =>
       s.loss # NoLoss /\ s.loss.first <= s.acked + 1 /\ s.loss.last = lo - 1
  /\ s.loss # NoLoss =>
       /\ s.loss.epoch = s.epoch
       /\ s.loss.first <= s.loss.last
       /\ s.loss.last < s.loss.earliest
       /\ s.loss.earliest <= lo

AckInv(s) ==
  IF s.ack = NoAck THEN s.acked = 0
  ELSE s.ack.epoch = s.epoch /\ s.ack.position = s.acked

Interval(s, lo) ==
  /\ Retained(s) = lo .. s.next - 1
  /\ s.acked < lo
  /\ s.next - lo <= s.capacity

SpoolInv ==
  /\ SpoolTypeOK
  /\ AckInv(spool)
  /\ \E lo \in 1 .. spool.next : Interval(spool, lo) /\ EvidenceInv(spool, lo)

-----------------------------------------------------------------------------
\* What is retained in an interval starts at its lower end, which may be next.
LEMMA EarliestOfInterval ==
  ASSUME NEW s, s.next \in Nat, NEW lo \in 1 .. s.next, Retained(s) = lo .. s.next - 1
  PROVE  /\ Earliest(s) = lo
         /\ Cardinality(Retained(s)) = s.next - lo
         /\ IsFiniteSet(Retained(s))
<1>1. CASE lo = s.next
  <2>1. Retained(s) = {}
    BY <1>1
  <2> QED
    BY <1>1, <2>1, FS_EmptySet DEF Earliest
<1>2. CASE lo < s.next
  <2>1. lo \in Retained(s) /\ \A q \in Retained(s) : lo <= q
    BY <1>2
  <2>2. \A p \in Retained(s) : (\A q \in Retained(s) : p <= q) => p = lo
    BY <1>2, <2>1
  <2>3. (CHOOSE p \in Retained(s) : \A q \in Retained(s) : p <= q) = lo
    BY <2>1, <2>2, ZenonT(30)
  <2>4. Earliest(s) = lo
    BY <2>1, <2>3, ZenonT(30) DEF Earliest
  <2>5. Cardinality(lo .. s.next - 1) = s.next - lo /\ IsFiniteSet(lo .. s.next - 1)
    BY <1>2, FS_Interval, SMTT(60)
  <2> QED
    BY <2>4, <2>5, ZenonT(30)
<1> QED
  BY <1>1, <1>2

\* The fields of the state, one by one.
LEMMA Fields ==
  ASSUME SpoolTypeOK
  PROVE  /\ spool.epoch \in Nat /\ spool.next \in Nat \ {0} /\ spool.acked \in Nat
         /\ spool.capacity \in Nat \ {0}
         /\ spool.next <= MaxPosition
         /\ spool.records \in [Retained(spool) -> SpoolRecords]
         /\ spool.ack \in DurableAcks \cup {NoAck}
         /\ spool.loss \in LossEvidence \cup {NoLoss}
<1>1. /\ spool.epoch \in Epochs /\ spool.next \in Positions /\ spool.capacity \in Capacities
      /\ spool.acked \in 0 .. MaxPosition
      /\ spool.ack \in DurableAcks \cup {NoAck} /\ spool.loss \in LossEvidence \cup {NoLoss}
  BY ZenonT(30) DEF SpoolTypeOK
<1>2. spool.records \in [Retained(spool) -> SpoolRecords]
  BY ZenonT(30) DEF SpoolTypeOK
<1>3. /\ spool.epoch \in Nat /\ spool.next \in Nat \ {0} /\ spool.acked \in Nat
      /\ spool.next <= MaxPosition
  BY <1>1, LimitAssumption DEF Epochs, Positions
<1>4. spool.capacity \in Nat \ {0}
  BY <1>1, CapacityAssumption, Zenon
<1> QED
  BY <1>1, <1>2, <1>3, <1>4, ZenonT(30)

\* A new spool is empty, of any of the capacities.
LEMMA InitSpoolInv ==
  ASSUME SpoolInit
  PROVE  SpoolInv
<1>1. PICK c \in Capacities : spool = NewSpool(c)
  BY ZenonT(30) DEF SpoolInit
<1>2. /\ spool.epoch = 1 /\ spool.next = 1 /\ spool.capacity = c
      /\ spool.records = [p \in {} |-> 0] /\ Retained(spool) = {}
      /\ spool.ack = NoAck /\ spool.acked = 0 /\ spool.loss = NoLoss
  BY <1>1, ZenonT(30) DEF NewSpool, Retained
<1>3. SpoolTypeOK
  <2>1. spool.records \in [Retained(spool) -> SpoolRecords]
    BY <1>2, ZenonT(30)
  <2> QED
    BY <1>1, <1>2, <2>1, LimitAssumption DEF SpoolTypeOK, NewSpool, Epochs, Positions
<1>4. Interval(spool, 1) /\ EvidenceInv(spool, 1) /\ AckInv(spool)
  BY <1>2, CapacityAssumption DEF Interval, EvidenceInv, AckInv
<1> QED
  BY <1>2, <1>3, <1>4 DEF SpoolInv

\* Enqueueing keeps the interval; an eviction at its lower end is recorded.
LEMMA EnqueueSpoolInv ==
  ASSUME SpoolInv, NEW in \in Inputs, Enqueue(in)
  PROVE  /\ SpoolInv'
         /\ Retained(spool') \subseteq Retained(spool) \cup {spool.next}
         /\ \A p \in Retained(spool') :
              spool'.records[p] = IF p = spool.next THEN QueuedRecord(in) ELSE spool.records[p]
         /\ \A p \in Retained(spool) \ Retained(spool') :
              /\ spool'.loss # NoLoss
              /\ spool'.loss.first <= p /\ p <= spool'.loss.last
<1>0. PICK lo \in 1 .. spool.next : Interval(spool, lo) /\ EvidenceInv(spool, lo)
  BY ZenonT(30) DEF SpoolInv
<1>1. SpoolTypeOK /\ AckInv(spool)
  BY ZenonT(30) DEF SpoolInv
<1>2. /\ spool.epoch \in Nat /\ spool.next \in Nat \ {0} /\ spool.acked \in Nat
      /\ spool.capacity \in Nat \ {0}
      /\ spool.records \in [Retained(spool) -> SpoolRecords]
      /\ spool.loss \in LossEvidence \cup {NoLoss}
  BY <1>1, Fields, ZenonT(30)
<1>3. Earliest(spool) = lo /\ Cardinality(Retained(spool)) = spool.next - lo
  BY <1>0, <1>2, EarliestOfInterval, ZenonT(30) DEF Interval
<1>4. Full(spool) <=> spool.next - lo = spool.capacity
  BY <1>3, ZenonT(30) DEF Full
<1>5. spool.next < MaxPosition
  BY <1>1, Fields, LimitAssumption DEF Enqueue, EnqueueOutcome
<1> DEFINE kept == IF Full(spool) THEN Retained(spool) \ {lo} ELSE Retained(spool)
           records == [p \in kept \cup {spool.next} |->
                         IF p = spool.next THEN QueuedRecord(in) ELSE spool.records[p]]
           lo2 == IF Full(spool) THEN lo + 1 ELSE lo
           grown == [spool EXCEPT !.records = records, !.next = spool.next + 1]
<1>6. kept \cup {spool.next} = lo2 .. spool.next
  BY <1>0, <1>2, <1>4, SMTT(60) DEF Interval
<1>7. QueuedRecord(in) \in SpoolRecords
  BY ZenonT(30) DEF QueuedRecord, SpoolRecords, Batches, Digests
<1>8. records \in [lo2 .. spool.next -> SpoolRecords]
  BY <1>2, <1>6, <1>7, ZenonT(30)
<1>15. \A p \in lo2 .. spool.next :
         records[p] = IF p = spool.next THEN QueuedRecord(in) ELSE spool.records[p]
  BY <1>6, ZenonT(30)
<1>16. lo2 .. spool.next \subseteq Retained(spool) \cup {spool.next}
  BY <1>6, ZenonT(30)
<1>9. lo2 \in 1 .. spool.next /\ spool.next + 1 - lo2 <= spool.capacity
  BY <1>0, <1>2, <1>4, SMTT(60) DEF Interval
<1> HIDE DEF kept, records, lo2
<1>10. /\ grown.next = spool.next + 1 /\ grown.records = records
       /\ grown.epoch = spool.epoch /\ grown.capacity = spool.capacity
       /\ grown.ack = spool.ack /\ grown.acked = spool.acked /\ grown.loss = spool.loss
  BY <1>1, ZenonT(30) DEF SpoolTypeOK
<1>11. Retained(grown) = lo2 .. spool.next
  BY <1>8, <1>10, ZenonT(30) DEF Retained
<1>12. Earliest(grown) = lo2
  <2>1. lo2 \in 1 .. grown.next /\ Retained(grown) = lo2 .. grown.next - 1 /\ grown.next \in Nat
    BY <1>2, <1>9, <1>10, <1>11, SMTT(60)
  <2> HIDE DEF grown
  <2> QED
    BY <2>1, EarliestOfInterval, ZenonT(30)
<1>13. CASE Full(spool)
  <2> DEFINE loss == LossAfterEviction(spool, lo2)
  <2>1. spool' = [grown EXCEPT !.loss = loss]
    BY <1>3, <1>12, <1>13, Zenon DEF Enqueue, AfterEnqueue, kept, records
  <2>2. lo2 = lo + 1 /\ lo < spool.next
    BY <1>2, <1>4, <1>13 DEF lo2
  <2>3. loss = IF spool.loss # NoLoss /\ spool.loss.epoch = spool.epoch /\ spool.loss.last + 1 = lo
               THEN [epoch |-> spool.epoch, first |-> spool.loss.first, last |-> lo, earliest |-> lo2]
               ELSE [epoch |-> spool.epoch, first |-> lo, last |-> lo, earliest |-> lo2]
    BY <1>3, ZenonT(30) DEF LossAfterEviction
  <2>4. lo \in Positions /\ lo2 \in Positions /\ spool.epoch \in Epochs
    BY <1>0, <1>1, <1>2, <1>5, <2>2, LimitAssumption, SMTT(60) DEF Positions, SpoolTypeOK
  <2>5. loss \in LossEvidence
    BY <1>2, <2>3, <2>4 DEF LossEvidence
  <2>6. /\ loss.epoch = spool.epoch /\ loss.last = lo /\ loss.earliest = lo2
        /\ loss.first = IF spool.loss # NoLoss /\ spool.loss.epoch = spool.epoch /\ spool.loss.last + 1 = lo
                        THEN spool.loss.first ELSE lo
    BY <2>3
  <2> HIDE DEF loss
  <2>7. /\ spool'.next = spool.next + 1 /\ spool'.records = records
        /\ spool'.epoch = spool.epoch /\ spool'.capacity = spool.capacity
        /\ spool'.ack = spool.ack /\ spool'.acked = spool.acked /\ spool'.loss = loss
    BY <1>1, <2>1, ZenonT(30) DEF SpoolTypeOK
  <2>8. Retained(spool') = lo2 .. spool.next
    BY <1>8, <2>7 DEF Retained
  <2>9. SpoolTypeOK'
    <3>1. lo2 .. spool.next \subseteq Positions
      BY <1>5, <1>9, <1>2, LimitAssumption DEF Positions
    <3>2. spool.next + 1 \in Positions
      BY <1>5, <1>2, LimitAssumption DEF Positions
    <3> QED
      BY <1>1, <1>8, <2>1, <2>5, <2>7, <2>8, <3>1, <3>2, Zenon DEF SpoolTypeOK
  <2>10. AckInv(spool')
    BY <1>1, <2>7, ZenonT(30) DEF AckInv
  <2>11. Interval(spool', lo2)
    BY <1>0, <1>2, <1>9, <2>2, <2>7, <2>8, SMTT(60) DEF Interval
  <2>12. EvidenceInv(spool', lo2)
    <3>1. spool.acked + 1 < lo => loss.first <= spool.acked + 1
      BY <1>0, <1>2, <2>6 DEF EvidenceInv, LossEvidence, Positions
    <3>2. spool.acked + 1 = lo => loss.first <= spool.acked + 1
      BY <1>0, <1>2, <2>6 DEF EvidenceInv, LossEvidence, Positions
    <3>3. spool.acked + 1 <= lo
      BY <1>0, <1>2 DEF Interval
    <3>4. loss.first <= loss.last
      BY <1>0, <1>2, <2>6 DEF EvidenceInv, LossEvidence, Positions
    <3>5. loss # NoLoss
      BY <2>5, OptionAssumption, ZenonT(30)
    <3> QED
      BY <1>2, <2>2, <2>6, <2>7, <3>1, <3>2, <3>3, <3>4, <3>5 DEF EvidenceInv
  <2>13. lo2 \in 1 .. spool'.next
    BY <1>9, <1>2, <2>7
  <2>14. SpoolInv'
    BY <2>9, <2>10, <2>11, <2>12, <2>13, ZenonT(30) DEF SpoolInv
  <2>15. \A p \in Retained(spool) \ Retained(spool') :
           spool'.loss # NoLoss /\ spool'.loss.first <= p /\ p <= spool'.loss.last
    <3>1. \A p \in Retained(spool) \ Retained(spool') : p = lo
      BY <1>0, <1>2, <2>2, <2>8, SMTT(60) DEF Interval
    <3>2. loss # NoLoss /\ loss.first <= lo /\ lo <= loss.last
      BY <1>0, <1>2, <2>5, <2>6, OptionAssumption, SMTT(60) DEF EvidenceInv, LossEvidence, Positions
    <3> QED
      BY <2>7, <3>1, <3>2, ZenonT(30)
  <2> QED
    BY <1>15, <1>16, <2>7, <2>8, <2>14, <2>15
<1>14. CASE ~Full(spool)
  <2>1. spool' = grown
    BY <1>3, <1>14, ZenonT(30) DEF Enqueue, AfterEnqueue, kept, records
  <2>2. lo2 = lo
    BY <1>14 DEF lo2
  <2>3. Retained(spool') = lo2 .. spool.next
    BY <1>11, <2>1
  <2>4. SpoolTypeOK'
    <3>1. lo2 .. spool.next \subseteq Positions
      BY <1>5, <1>9, <1>2, LimitAssumption DEF Positions
    <3>2. spool.next + 1 \in Positions
      BY <1>5, <1>2, LimitAssumption DEF Positions
    <3> QED
      BY <1>1, <1>8, <1>10, <2>1, <2>3, <3>1, <3>2, ZenonT(60) DEF SpoolTypeOK
  <2> HIDE DEF grown
  <2>5. Interval(spool', lo2)
    BY <1>0, <1>2, <1>9, <1>10, <2>1, <2>2, <2>3, SMTT(60) DEF Interval
  <2>7. AckInv(spool')
    BY <1>1, <1>10, <2>1, ZenonT(30) DEF AckInv
  <2>8. EvidenceInv(spool', lo2)
    BY <1>0, <1>10, <2>1, <2>2, ZenonT(30) DEF EvidenceInv
  <2>6. lo2 \in 1 .. spool'.next
    BY <1>9, <1>2, <1>10, <2>1
  <2>9. SpoolInv'
    BY <2>4, <2>5, <2>6, <2>7, <2>8, ZenonT(30) DEF SpoolInv
  <2>10. Retained(spool) \subseteq Retained(spool')
    BY <1>0, <1>2, <2>2, <2>3, SMTT(60) DEF Interval
  <2> QED
    BY <1>10, <1>15, <1>16, <2>1, <2>3, <2>9, <2>10, ZenonT(30)
<1> QED
  BY <1>13, <1>14, ZenonT(30)

\* Marking a delivery changes neither what is retained nor what it holds.
LEMMA DeliverySpoolInv ==
  ASSUME SpoolInv, NEW pos \in Retained(spool),
         NEW state \in {"offered", "published"}, NEW session \in Sessions,
         spool' = WithDelivery(spool, pos, state, session)
  PROVE  /\ SpoolInv'
         /\ Retained(spool') = Retained(spool)
         /\ \A p \in Retained(spool) : /\ spool'.records[p].batch = spool.records[p].batch
                                       /\ spool'.records[p].digest = spool.records[p].digest
         /\ spool'.epoch = spool.epoch /\ spool'.next = spool.next
         /\ spool'.acked = spool.acked
<1>1. SpoolTypeOK /\ AckInv(spool)
  BY ZenonT(30) DEF SpoolInv
<1>2. spool.records \in [Retained(spool) -> SpoolRecords]
  BY <1>1, Fields
<1> DEFINE record == [spool.records[pos] EXCEPT !.state = state, !.session = session]
           records == [spool.records EXCEPT ![pos] = record]
<1>3. /\ record \in SpoolRecords
      /\ record.batch = spool.records[pos].batch /\ record.digest = spool.records[pos].digest
  <2>1. spool.records[pos] \in SpoolRecords
    BY <1>2, ZenonT(30)
  <2> QED
    BY <2>1, Zenon DEF SpoolRecords
<1> HIDE DEF record
<1>4. /\ records \in [Retained(spool) -> SpoolRecords]
      /\ \A p \in Retained(spool) : /\ records[p].batch = spool.records[p].batch
                                    /\ records[p].digest = spool.records[p].digest
  BY <1>2, <1>3, ZenonT(30)
<1>5. spool' = [spool EXCEPT !.records = records]
  <2>1. spool.records[pos] \in SpoolRecords
    BY <1>2
  <2>2. WithDelivery(spool, pos, state, session) = [spool EXCEPT !.records = records]
    BY <1>1, <1>2, <2>1, Zenon DEF WithDelivery, record
  <2> QED
    BY <2>2
<1> HIDE DEF records
<1>6. /\ spool'.next = spool.next /\ spool'.records = records
      /\ spool'.epoch = spool.epoch /\ spool'.capacity = spool.capacity
      /\ spool'.ack = spool.ack /\ spool'.acked = spool.acked /\ spool'.loss = spool.loss
  BY <1>1, <1>5, ZenonT(30) DEF SpoolTypeOK
<1>7. Retained(spool') = Retained(spool)
  BY <1>4, <1>6, ZenonT(30) DEF Retained
<1>8. SpoolTypeOK'
  BY <1>1, <1>4, <1>5, <1>6, <1>7, ZenonT(30) DEF SpoolTypeOK
<1>9. AckInv(spool')
  BY <1>1, <1>6, ZenonT(30) DEF AckInv
<1>10. \E lo \in 1 .. spool'.next : Interval(spool', lo) /\ EvidenceInv(spool', lo)
  BY <1>6, <1>7, ZenonT(30) DEF SpoolInv, Interval, EvidenceInv
<1> QED
  BY <1>4, <1>6, <1>7, <1>8, <1>9, <1>10, ZenonT(30) DEF SpoolInv

\* A receipt removes the records up to its position: the interval starts after it.
LEMMA AcknowledgeSpoolInv ==
  ASSUME SpoolInv, NEW ack \in DurableAcks, Acknowledge(ack)
  PROVE  /\ SpoolInv'
         /\ Retained(spool') = {p \in Retained(spool) : p > ack.position}
         /\ \A p \in Retained(spool') : spool'.records[p] = spool.records[p]
         /\ spool'.epoch = spool.epoch /\ spool'.next = spool.next
         /\ spool'.acked = ack.position /\ spool.acked < ack.position
<1>0. PICK lo \in 1 .. spool.next : Interval(spool, lo) /\ EvidenceInv(spool, lo)
  BY ZenonT(30) DEF SpoolInv
<1>1. SpoolTypeOK /\ AckInv(spool)
  BY ZenonT(30) DEF SpoolInv
<1>2. /\ spool.epoch \in Nat /\ spool.next \in Nat \ {0} /\ spool.acked \in Nat
      /\ spool.capacity \in Nat \ {0}
      /\ spool.records \in [Retained(spool) -> SpoolRecords]
      /\ spool.loss \in LossEvidence \cup {NoLoss}
  BY <1>1, Fields, ZenonT(30)
<1>3. ack.position \in Positions /\ ack.position \in Nat /\ ack # NoAck
  BY OptionAssumption DEF DurableAcks, Positions
<1>4. ack.epoch = spool.epoch /\ ack.position > spool.acked /\ ack.position \in Retained(spool)
  BY <1>2, <1>3 DEF Acknowledge, AckOutcome
<1> DEFINE kept == {q \in Retained(spool) : q > ack.position}
           records == [p \in kept |-> spool.records[p]]
<1>5. records \in [kept -> SpoolRecords] /\ \A p \in kept : records[p] = spool.records[p]
  BY <1>2, ZenonT(30)
<1>6. kept = ack.position + 1 .. spool.next - 1
  BY <1>0, <1>2, <1>3, <1>4, SMTT(60) DEF Interval
<1>7. spool' = [spool EXCEPT !.records = records, !.acked = ack.position, !.ack = ack]
  BY ZenonT(30) DEF Acknowledge, AfterAck
<1> HIDE DEF kept, records
<1>8. /\ spool'.next = spool.next /\ spool'.records = records
      /\ spool'.epoch = spool.epoch /\ spool'.capacity = spool.capacity
      /\ spool'.ack = ack /\ spool'.acked = ack.position /\ spool'.loss = spool.loss
  BY <1>1, <1>7, ZenonT(30) DEF SpoolTypeOK
<1>9. Retained(spool') = kept
  BY <1>5, <1>8 DEF Retained
<1>10. SpoolTypeOK'
  <2>1. kept \subseteq Positions
    BY <1>1, ZenonT(30) DEF kept, SpoolTypeOK
  <2>2. ack.position \in 0 .. MaxPosition
    BY <1>3 DEF Positions
  <2> QED
    BY <1>1, <1>5, <1>7, <1>8, <1>9, <2>1, <2>2, Zenon DEF SpoolTypeOK
<1>11. AckInv(spool')
  BY <1>3, <1>4, <1>8, ZenonT(30) DEF AckInv
<1>12. ack.position + 1 \in 1 .. spool'.next
  BY <1>0, <1>2, <1>3, <1>4, <1>8, SMTT(60) DEF Interval
<1>13. Interval(spool', ack.position + 1)
  BY <1>0, <1>2, <1>3, <1>4, <1>6, <1>8, <1>9, SMTT(60) DEF Interval
<1>14. EvidenceInv(spool', ack.position + 1)
  <2>1. lo <= ack.position
    BY <1>0, <1>2, <1>4 DEF Interval
  <2>2. spool.loss # NoLoss => spool.loss.earliest \in Nat
    BY <1>2 DEF LossEvidence, Positions
  <2> QED
    BY <1>0, <1>2, <1>3, <1>8, <2>1, <2>2, SMTT(60) DEF EvidenceInv
<1> QED
  BY <1>4, <1>5, <1>8, <1>9, <1>10, <1>11, <1>12, <1>13, <1>14, SMTT(60) DEF SpoolInv, kept

\* A rotation starts an empty epoch.
LEMMA RotateSpoolInv ==
  ASSUME SpoolInv, RotateStreamEpoch
  PROVE  SpoolInv' /\ Retained(spool) = {} /\ spool'.epoch = spool.epoch + 1
<1>1. SpoolTypeOK
  BY ZenonT(30) DEF SpoolInv
<1>2. /\ spool.epoch \in Epochs /\ spool.capacity \in Nat \ {0}
      /\ spool.records \in [Retained(spool) -> SpoolRecords]
  BY <1>1, Fields DEF SpoolTypeOK
<1>3. Retained(spool) = {} /\ spool.epoch # MaxEpoch
  BY DEF RotateStreamEpoch, RotateOutcome
<1>4. /\ spool'.epoch = spool.epoch + 1 /\ spool'.next = 1 /\ spool'.ack = NoAck
      /\ spool'.acked = 0 /\ spool'.loss = NoLoss
      /\ spool'.capacity = spool.capacity /\ spool'.records = spool.records
  BY <1>1, ZenonT(30) DEF RotateStreamEpoch, AfterRotate, SpoolTypeOK
<1>5. Retained(spool') = {}
  BY <1>3, <1>4, ZenonT(30) DEF Retained
<1>6. spool.epoch + 1 \in Epochs /\ 1 \in Positions /\ 0 \in 0 .. MaxPosition
  BY <1>2, <1>3, LimitAssumption DEF Epochs, Positions
<1>7. SpoolTypeOK'
  BY <1>1, <1>3, <1>4, <1>5, <1>6, Zenon DEF SpoolTypeOK, RotateStreamEpoch, AfterRotate
<1>8. AckInv(spool') /\ Interval(spool', 1) /\ EvidenceInv(spool', 1)
  BY <1>2, <1>4, <1>5 DEF AckInv, Interval, EvidenceInv
<1>9. 1 \in 1 .. spool'.next
  BY <1>4
<1> QED
  BY <1>3, <1>4, <1>7, <1>8, <1>9 DEF SpoolInv

\* A restart is refused unless the configured capacity holds what is retained.
LEMMA ReopenSpoolInv ==
  ASSUME SpoolInv, NEW capacity \in Capacities, Reopen(capacity)
  PROVE  /\ SpoolInv' /\ spool'.records = spool.records
         /\ spool'.epoch = spool.epoch /\ spool'.next = spool.next
         /\ spool'.acked = spool.acked
<1>0. PICK lo \in 1 .. spool.next : Interval(spool, lo) /\ EvidenceInv(spool, lo)
  BY DEF SpoolInv
<1>1. SpoolTypeOK /\ AckInv(spool)
  BY DEF SpoolInv
<1>2. spool.next \in Nat \ {0} /\ capacity \in Nat
  BY <1>1, Fields, CapacityAssumption, ZenonT(30)
<1>3. spool.next - lo <= capacity
  BY <1>0, <1>2, EarliestOfInterval DEF Interval, Reopen, CanOpen
<1>4. /\ spool'.next = spool.next /\ spool'.records = spool.records
      /\ spool'.epoch = spool.epoch /\ spool'.capacity = capacity
      /\ spool'.ack = spool.ack /\ spool'.acked = spool.acked /\ spool'.loss = spool.loss
  BY <1>1, ZenonT(30) DEF SpoolTypeOK, Reopen, WithCapacity
<1>5. Retained(spool') = Retained(spool)
  BY <1>4, ZenonT(30) DEF Retained
<1>6. SpoolTypeOK'
  BY <1>1, <1>4, <1>5, ZenonT(30) DEF SpoolTypeOK, Reopen, WithCapacity
<1>7. AckInv(spool')
  BY <1>1, <1>4, ZenonT(30) DEF AckInv
<1>8. Interval(spool', lo)
  BY <1>0, <1>3, <1>4, <1>5, ZenonT(30) DEF Interval
<1>9. EvidenceInv(spool', lo)
  BY <1>0, <1>4, ZenonT(30) DEF EvidenceInv
<1> QED
  BY <1>4, <1>6, <1>7, <1>8, <1>9, ZenonT(30) DEF SpoolInv

-----------------------------------------------------------------------------
\* Every operation of the spool keeps the invariant.
LEMMA NextSpoolInv ==
  ASSUME SpoolInv, [SpoolNext]_spool
  PROVE  SpoolInv'
<1>1. ASSUME NEW in \in Inputs, Enqueue(in) PROVE SpoolInv'
  BY <1>1, EnqueueSpoolInv, ZenonT(30)
<1>2. ASSUME NEW id \in Identities, NEW session \in Sessions, MarkOffered(id, session)
      PROVE  SpoolInv'
  BY <1>2, DeliverySpoolInv, ZenonT(30) DEF MarkOffered, OfferOutcome, Holds, AfterOffer
<1>3. ASSUME NEW id \in Identities, NEW session \in Sessions, MarkTransportPublished(id, session)
      PROVE  SpoolInv'
  BY <1>3, DeliverySpoolInv, ZenonT(30) DEF MarkTransportPublished, PublishOutcome, Holds, AfterPublish
<1>4. ASSUME NEW ack \in DurableAcks, Acknowledge(ack) PROVE SpoolInv'
  BY <1>4, AcknowledgeSpoolInv
<1>5. CASE RotateStreamEpoch
  BY <1>5, RotateSpoolInv, ZenonT(30)
<1>6. ASSUME NEW capacity \in Capacities, Reopen(capacity) PROVE SpoolInv'
  BY <1>6, ReopenSpoolInv, ZenonT(30)
<1>7. CASE UNCHANGED spool
  <2>1. SpoolTypeOK'
    BY <1>7, ZenonT(30) DEF SpoolInv, SpoolTypeOK, Retained
  <2>2. AckInv(spool')
    BY <1>7, ZenonT(30) DEF SpoolInv, AckInv
  <2>3. \E lo \in 1 .. spool'.next : Interval(spool', lo) /\ EvidenceInv(spool', lo)
    BY <1>7 DEF SpoolInv
  <2> QED
    BY <2>1, <2>2, <2>3, ZenonT(30) DEF SpoolInv
<1> QED
  BY <1>1, <1>2, <1>3, <1>4, <1>5, <1>6, <1>7, ZenonT(30) DEF SpoolNext

(***************************************************************************)
(* The inductive invariant holds of every behaviour of the spool: the      *)
(* records that enqueue, acknowledge and rotate_stream_epoch leave are one *)
(* interval, and every missing record is acknowledged or in the evidence.  *)
(***************************************************************************)
THEOREM SpoolInvariant == SpoolSpec => []SpoolInv
<1>1. SpoolInit => SpoolInv
  BY InitSpoolInv
<1>2. SpoolInv /\ [SpoolNext]_spool => SpoolInv'
  BY NextSpoolInv
<1> QED
  BY <1>1, <1>2, PTL DEF SpoolSpec

(***************************************************************************)
(* replay_from never answers a gap to the cloud that resumes where it      *)
(* acknowledged last, for every capacity and every history.                *)
(***************************************************************************)
THEOREM SpoolResumeNeverGaps == SpoolSpec => []ResumeNeverGaps
<1>1. SpoolInv => ResumeNeverGaps
  <2> SUFFICES ASSUME SpoolInv PROVE ResumeNeverGaps
    BY ZenonT(30)
  <2>0. PICK lo \in 1 .. spool.next : Interval(spool, lo) /\ EvidenceInv(spool, lo)
    BY ZenonT(30) DEF SpoolInv
  <2>1. spool.next \in Nat \ {0} /\ spool.acked \in Nat /\ spool.loss \in LossEvidence \cup {NoLoss}
    BY Fields, ZenonT(30) DEF SpoolInv
  <2>2. Earliest(spool) = lo
    BY <2>0, <2>1, EarliestOfInterval, ZenonT(30) DEF Interval
  <2>3. spool.acked < lo /\ lo <= spool.next
    BY <2>0, <2>1 DEF Interval
  <2>4. CASE spool.acked + 1 = lo
    BY <2>1, <2>2, <2>3, <2>4 DEF ResumeNeverGaps, ReplayOutcome
  <2>5. CASE spool.acked + 1 < lo
    <3>1. /\ spool.loss # NoLoss /\ spool.loss.first <= spool.acked + 1
          /\ spool.acked + 1 <= spool.loss.last
      BY <2>0, <2>1, <2>5, SMTT(60) DEF EvidenceInv
    <3> QED
      BY <2>1, <2>2, <2>3, <2>5, <3>1, SMTT(60) DEF ResumeNeverGaps, ReplayOutcome
  <2> QED
    BY <2>1, <2>3, <2>4, <2>5
<1> QED
  BY <1>1, SpoolInvariant, PTL

(***************************************************************************)
(* validate_recovered_state accepts every state the operations reach, so   *)
(* opening never refuses the journal of a correct history.                 *)
(***************************************************************************)
THEOREM SpoolStaysRecoverable == SpoolSpec => []StateStaysRecoverable
<1>1. SpoolInv => StateStaysRecoverable
  <2> SUFFICES ASSUME SpoolInv PROVE StateStaysRecoverable
    OBVIOUS
  <2>0. PICK lo \in 1 .. spool.next : Interval(spool, lo) /\ EvidenceInv(spool, lo)
    BY DEF SpoolInv
  <2>1. /\ spool.epoch \in Nat \ {0} /\ spool.next \in Nat \ {0} /\ spool.acked \in Nat
        /\ spool.capacity \in Nat \ {0} /\ spool.loss \in LossEvidence \cup {NoLoss}
    BY Fields DEF SpoolInv, SpoolTypeOK, Epochs
  <2>2. Cardinality(Retained(spool)) <= spool.capacity
    BY <2>0, <2>1, EarliestOfInterval, ZenonT(30) DEF Interval
  <2>3. spool.acked < spool.next /\ \A p \in Retained(spool) : spool.acked < p /\ p < spool.next
    BY <2>0, <2>1 DEF Interval
  <2>4. spool.loss # NoLoss =>
          /\ spool.loss.epoch = spool.epoch
          /\ 0 < spool.loss.first /\ spool.loss.first <= spool.loss.last
          /\ spool.loss.last < spool.loss.earliest
    BY <2>0, <2>1 DEF EvidenceInv, LossEvidence, Positions
  <2>5. AckInv(spool)
    BY DEF SpoolInv
  <2> QED
    BY <2>1, <2>2, <2>3, <2>4, <2>5, SMTT(60) DEF StateStaysRecoverable, ValidRecovered, AckInv
<1> QED
  BY <1>1, SpoolInvariant, PTL

(***************************************************************************)
(* A stream identity is never handed out twice and an acknowledged         *)
(* position never moves back, across rotations and restarts.               *)
(***************************************************************************)
THEOREM SpoolIdentityNeverReused == SpoolSpec => IdentityNeverReused
<1> DEFINE Kept == \/ spool'.epoch > spool.epoch
                   \/ /\ spool'.epoch = spool.epoch
                      /\ spool'.next >= spool.next
                      /\ spool'.acked >= spool.acked
<1>1. SpoolInv /\ [SpoolNext]_spool => [Kept]_spool
  <2> SUFFICES ASSUME SpoolInv, SpoolNext PROVE Kept
    BY ZenonT(30)
  <2>0. spool.epoch \in Nat /\ spool.next \in Nat /\ spool.acked \in Nat
    BY Fields, ZenonT(30) DEF SpoolInv
  <2>1. ASSUME NEW in \in Inputs, Enqueue(in) PROVE Kept
    <3>1. spool'.epoch = spool.epoch /\ spool'.next = spool.next + 1 /\ spool'.acked = spool.acked
      BY <2>1, ZenonT(30) DEF SpoolInv, SpoolTypeOK, Enqueue, AfterEnqueue
    <3> QED
      BY <2>0, <3>1
  <2>2. ASSUME NEW id \in Identities, NEW session \in Sessions,
               MarkOffered(id, session) \/ MarkTransportPublished(id, session)
        PROVE  Kept
    BY <2>0, <2>2, DeliverySpoolInv
       DEF MarkOffered, OfferOutcome, Holds, AfterOffer,
           MarkTransportPublished, PublishOutcome, AfterPublish
  <2>3. ASSUME NEW ack \in DurableAcks, Acknowledge(ack) PROVE Kept
    <3>1. ack.position \in Nat
      BY DEF DurableAcks, Positions
    <3> QED
      BY <2>0, <2>3, <3>1, AcknowledgeSpoolInv
  <2>4. CASE RotateStreamEpoch
    BY <2>0, <2>4, RotateSpoolInv
  <2>5. ASSUME NEW capacity \in Capacities, Reopen(capacity) PROVE Kept
    BY <2>0, <2>5, ReopenSpoolInv
  <2> QED
    BY <2>1, <2>2, <2>3, <2>4, <2>5, ZenonT(30) DEF SpoolNext
<1> QED
  BY <1>1, SpoolInvariant, PTL DEF SpoolSpec, IdentityNeverReused

(***************************************************************************)
(* No operation takes a record out of the spool but a receipt that covers  *)
(* it or an eviction that writes it into the evidence; a record that stays *)
(* keeps its batch and its payload.                                        *)
(***************************************************************************)
THEOREM SpoolRemovesOnlyWithProof == SpoolSpec => RemovedOnlyWithProof
<1> DEFINE Proven ==
      \A p \in Retained(spool) :
        IF p \in Retained(spool')
          THEN /\ spool'.records[p].batch = spool.records[p].batch
               /\ spool'.records[p].digest = spool.records[p].digest
          ELSE \/ p <= spool'.acked
               \/ /\ spool'.loss # NoLoss
                  /\ spool'.loss.first <= p /\ p <= spool'.loss.last
<1>1. SpoolInv /\ [SpoolNext]_spool => [Proven]_spool
  <2> SUFFICES ASSUME SpoolInv, SpoolNext PROVE Proven
    BY ZenonT(30)
  <2>1. ASSUME NEW in \in Inputs, Enqueue(in) PROVE Proven
    <3>1. spool.next \notin Retained(spool)
      BY Fields DEF SpoolInv, Interval
    <3> QED
      BY <2>1, <3>1, EnqueueSpoolInv, ZenonT(30)
  <2>2. ASSUME NEW id \in Identities, NEW session \in Sessions,
               MarkOffered(id, session) \/ MarkTransportPublished(id, session)
        PROVE  Proven
    BY <2>2, DeliverySpoolInv, ZenonT(30)
       DEF MarkOffered, OfferOutcome, Holds, AfterOffer,
           MarkTransportPublished, PublishOutcome, AfterPublish
  <2>3. ASSUME NEW ack \in DurableAcks, Acknowledge(ack) PROVE Proven
    <3>1. ack.position \in Nat /\ Retained(spool) \subseteq Nat
      BY DEF DurableAcks, Positions, SpoolInv, SpoolTypeOK
    <3> QED
      BY <2>3, <3>1, AcknowledgeSpoolInv
  <2>4. CASE RotateStreamEpoch
    BY <2>4, RotateSpoolInv, ZenonT(30)
  <2>5. ASSUME NEW capacity \in Capacities, Reopen(capacity) PROVE Proven
    BY <2>5, ReopenSpoolInv DEF Retained
  <2> QED
    BY <2>1, <2>2, <2>3, <2>4, <2>5, ZenonT(30) DEF SpoolNext
<1> QED
  BY <1>1, SpoolInvariant, PTL DEF SpoolSpec, RemovedOnlyWithProof

(***************************************************************************)
(* enqueue answers a batch it holds instead of storing it again, so no     *)
(* history retains one batch under two positions.                          *)
(***************************************************************************)
THEOREM SpoolBatchRetainedOnce == SpoolSpec => []BatchRetainedOnce
<1>1. SpoolInit => BatchRetainedOnce
  BY DEF SpoolInit, NewSpool, Retained, BatchRetainedOnce
<1>2. SpoolInv /\ BatchRetainedOnce /\ [SpoolNext]_spool => BatchRetainedOnce'
  <2> SUFFICES ASSUME SpoolInv, BatchRetainedOnce, [SpoolNext]_spool PROVE BatchRetainedOnce'
    BY ZenonT(30)
  <2>1. ASSUME NEW in \in Inputs, Enqueue(in) PROVE BatchRetainedOnce'
    <3>1. \A p \in Retained(spool) : spool.records[p].batch # in.batch
      BY <2>1, ZenonT(30) DEF Enqueue, EnqueueOutcome, SameBatch
    <3>2. QueuedRecord(in).batch = in.batch
      BY ZenonT(30) DEF QueuedRecord
    <3> QED
      BY <2>1, <3>1, <3>2, EnqueueSpoolInv DEF BatchRetainedOnce
  <2>2. ASSUME NEW id \in Identities, NEW session \in Sessions,
               MarkOffered(id, session) \/ MarkTransportPublished(id, session)
        PROVE  BatchRetainedOnce'
    <3>1. /\ Retained(spool') = Retained(spool)
          /\ \A p \in Retained(spool) : spool'.records[p].batch = spool.records[p].batch
      BY <2>2, DeliverySpoolInv, ZenonT(30)
         DEF MarkOffered, OfferOutcome, Holds, AfterOffer,
             MarkTransportPublished, PublishOutcome, AfterPublish
    <3> QED
      BY <3>1, ZenonT(30) DEF BatchRetainedOnce
  <2>3. ASSUME NEW ack \in DurableAcks, Acknowledge(ack) PROVE BatchRetainedOnce'
    BY <2>3, AcknowledgeSpoolInv, ZenonT(30) DEF BatchRetainedOnce
  <2>4. ASSUME spool'.records = spool.records PROVE BatchRetainedOnce'
    BY <2>4, ZenonT(30) DEF BatchRetainedOnce, Retained
  <2>5. CASE RotateStreamEpoch
    <3>1. spool'.records = spool.records
      BY <2>5, ZenonT(30) DEF RotateStreamEpoch, AfterRotate, SpoolInv, SpoolTypeOK
    <3> QED
      BY <2>4, <3>1, ZenonT(30)
  <2>6. ASSUME NEW capacity \in Capacities, Reopen(capacity) PROVE BatchRetainedOnce'
    BY <2>4, <2>6, ReopenSpoolInv, ZenonT(30)
  <2>7. CASE UNCHANGED spool
    BY <2>4, <2>7, ZenonT(30)
  <2> QED
    BY <2>1, <2>2, <2>3, <2>5, <2>6, <2>7, ZenonT(30) DEF SpoolNext
<1> QED
  BY <1>1, <1>2, SpoolInvariant, PTL DEF SpoolSpec

(***************************************************************************)
(* The evidence that evictions build and receipts outlive tells the truth: *)
(* nothing it calls lost is retained, and nothing before what it calls the *)
(* earliest retained position is.                                          *)
(***************************************************************************)
THEOREM SpoolEvidenceTruthful == SpoolSpec => []EvidenceTruthful
<1>1. SpoolInv => EvidenceTruthful
  <2> SUFFICES ASSUME SpoolInv, spool.loss # NoLoss
               PROVE  spool.loss.last < Earliest(spool) /\ spool.loss.earliest <= Earliest(spool)
    BY ZenonT(30) DEF EvidenceTruthful
  <2>0. PICK lo \in 1 .. spool.next : Interval(spool, lo) /\ EvidenceInv(spool, lo)
    BY ZenonT(30) DEF SpoolInv
  <2>1. spool.next \in Nat \ {0} /\ spool.loss \in LossEvidence
    BY Fields, ZenonT(30) DEF SpoolInv
  <2>2. Earliest(spool) = lo
    BY <2>0, <2>1, EarliestOfInterval, ZenonT(30) DEF Interval
  <2>3. spool.loss.last < spool.loss.earliest /\ spool.loss.earliest <= lo
    BY <2>0, ZenonT(30) DEF EvidenceInv
  <2>4. spool.loss.last \in Nat /\ spool.loss.earliest \in Nat
    BY <2>1 DEF LossEvidence, Positions
  <2> QED
    BY <2>2, <2>3, <2>4
<1> QED
  BY <1>1, SpoolInvariant, PTL

(***************************************************************************)
(* Every state the operations of cloudlink_spool.rs reach is well typed,   *)
(* recoverable, truthful about losses and holds a batch once.              *)
(***************************************************************************)
THEOREM SpoolAlwaysSound == SpoolSpec => []SpoolSound
<1>1. SpoolInv => SpoolTypeOK
  BY DEF SpoolInv
<1>2. SpoolTypeOK /\ StateStaysRecoverable /\ EvidenceTruthful /\ BatchRetainedOnce => SpoolSound
  BY DEF SpoolSound
<1> QED
  BY <1>1, <1>2, SpoolInvariant, SpoolStaysRecoverable, SpoolEvidenceTruthful,
     SpoolBatchRetainedOnce, PTL

(***************************************************************************)
(* No operation makes a record vanish without a receipt or evidence, and   *)
(* none brings an identity back.                                           *)
(***************************************************************************)
THEOREM SpoolHistoryKept == SpoolSpec => HistoryKept
  BY SpoolRemovesOnlyWithProof, SpoolIdentityNeverReused, ZenonT(30) DEF HistoryKept

-----------------------------------------------------------------------------
(* The history service *)

Ordered(s) == \A i, j \in DOMAIN s : i < j => s[i] < s[j]
Before(S, T) == \A a \in S, b \in T : a < b

Locks == {"saving", "saved"}

RequestStates ==
  [pc : {"idle", "saving", "saved", "connecting", "connected"}, want : Settings \cup {Disabled}]

StorageInv ==
  /\ process \in {"up", "stopping", "down"}
  /\ stored \in Settings /\ settings \in Settings
  /\ storage \in Databases \cup {Disabled}
  /\ request \in [Requests -> RequestStates]
  /\ torn \in BOOLEAN /\ asked \in 0 .. MaxRequests /\ faults \in 0 .. MaxFaults

RequestInv ==
  /\ \A q \in Requests :
       /\ request[q].pc # "idle" => request[q].want \in Settings /\ process # "down"
       /\ request[q].pc = "saved" => stored = request[q].want
       /\ request[q].pc \in {"connecting", "connected"} => request[q].want.enabled
  /\ \A q, r \in Requests : request[q].pc \in Locks /\ request[r].pc \in Locks => q = r
  /\ DisabledStaysDisabled /\ SettingsAgree

CollectorStates == [pc : {"sleeping", "ticked", "collected"}, points : Seq(Points)]
FlushStates ==
  [pc : {"sleeping", "taken", "writing", "done"}, points : Seq(Points), failed : Seq(Points),
   backend : Databases \cup {Disabled}, size : BatchSizes \cup {0}, final : BOOLEAN]

QueueInv ==
  /\ collector \in CollectorStates
  /\ flush \in FlushStates
  /\ buffer \in Seq(Points) /\ next \in 1 .. MaxPoints + 1
  /\ fate \in [{"written", "doubtful", "dropped", "lost"} -> SUBSET Points]
  /\ late \subseteq Points /\ excused \in BOOLEAN
  /\ collector.pc # "collected" => collector.points = <<>>
  /\ flush.pc \in {"sleeping", "done"} => flush.points = <<>>
  /\ flush.pc # "writing" => flush.failed = <<>>

OrderInv ==
  /\ Ordered(flush.failed) /\ Ordered(flush.points) /\ Ordered(buffer)
  /\ Ordered(collector.points)
  /\ Before(Range(flush.failed), Range(flush.points))
  /\ Before(Range(flush.failed) \cup Range(flush.points), Range(buffer))
  /\ Before(Unwritten, Range(collector.points))

CapInv ==
  /\ Len(buffer) <= BufferCap
  /\ Before(fate["dropped"], Range(buffer) \cup Range(collector.points))
  /\ Len(buffer) < BufferCap =>
       Before(fate["dropped"], Range(flush.failed) \cup Range(flush.points))

AccountInv ==
  /\ Accounted
  /\ Held \cap (fate["dropped"] \cup fate["lost"]) = {}

StopInv ==
  /\ flush.final \/ flush.pc = "done" => process = "stopping"
  /\ flush.final => Range(buffer) \subseteq late /\ (~excused => flush.failed = <<>>)
  /\ flush.pc = "done" /\ ~excused => Range(buffer) \subseteq late

IInv == StorageInv /\ RequestInv /\ QueueInv /\ OrderInv /\ CapInv /\ AccountInv /\ StopInv

-----------------------------------------------------------------------------
(* Sequences *)

\* The empty batch.
LEMMA RangeOfEmpty == Range(<<>>) = {} /\ Ordered(<<>>)
BY DEF Range, Ordered

\* The members of a batch.
LEMMA RangeIn ==
  ASSUME NEW S, NEW s \in Seq(S)
  PROVE  Range(s) \subseteq S
BY DEF Range

\* Appending one batch to another.
LEMMA Concatenation ==
  ASSUME NEW S \in SUBSET Nat, NEW s \in Seq(S), NEW t \in Seq(S)
  PROVE  /\ s \o t \in Seq(S) /\ Len(s \o t) = Len(s) + Len(t)
         /\ Range(s \o t) = Range(s) \cup Range(t)
         /\ Ordered(s) /\ Ordered(t) /\ Before(Range(s), Range(t)) => Ordered(s \o t)
<1> DEFINE u == s \o t
<1>1. u \in Seq(S) /\ Len(u) = Len(s) + Len(t)
  OBVIOUS
<1>2. /\ \A i \in 1 .. Len(s) : u[i] = s[i]
      /\ \A i \in 1 .. Len(t) : u[Len(s) + i] = t[i]
  OBVIOUS
<1>3. \A i \in 1 .. Len(u) : i \in 1 .. Len(s) \/ (i - Len(s) \in 1 .. Len(t) /\ u[i] = t[i - Len(s)])
  BY <1>1
<1>4. DOMAIN s = 1 .. Len(s) /\ DOMAIN t = 1 .. Len(t) /\ DOMAIN u = 1 .. Len(u)
  BY <1>1
<1> HIDE DEF u
<1>5. Range(u) = Range(s) \cup Range(t)
  <2>1. Range(u) \subseteq Range(s) \cup Range(t)
    BY <1>4, <1>2, <1>3, ZenonT(30) DEF Range
  <2>2. Range(s) \subseteq Range(u)
    <3>1. \A i \in 1 .. Len(s) : i \in 1 .. Len(u)
      BY <1>1
    <3>2. QED
      BY <1>4, <1>2, <3>1, Zenon DEF Range
  <2>3. Range(t) \subseteq Range(u)
    <3>1. \A i \in 1 .. Len(t) : Len(s) + i \in 1 .. Len(u)
      BY <1>1
    <3>2. QED
      BY <1>4, <1>2, <3>1, Zenon DEF Range
  <2>4. QED
    BY <2>1, <2>2, <2>3
<1>6. ASSUME Ordered(s), Ordered(t), Before(Range(s), Range(t))
      PROVE  Ordered(u)
  <2> SUFFICES ASSUME NEW i \in 1 .. Len(u), NEW j \in 1 .. Len(u), i < j
               PROVE  u[i] < u[j]
    BY <1>1 DEF Ordered
  <2>1. CASE j \in 1 .. Len(s)
    BY <1>2, <1>6, <2>1 DEF Ordered
  <2>2. CASE i \notin 1 .. Len(s)
    <3>1. i - Len(s) \in 1 .. Len(t) /\ u[i] = t[i - Len(s)] /\ j - Len(s) \in 1 .. Len(t) /\ u[j] = t[j - Len(s)]
      BY <1>3, <2>2
    <3>2. i - Len(s) < j - Len(s)
      OBVIOUS
    <3>3. QED
      BY <1>4, <1>6, <3>1, <3>2, Zenon DEF Ordered
  <2>3. CASE i \in 1 .. Len(s) /\ j \notin 1 .. Len(s)
    <3>1. u[i] \in Range(s) /\ u[j] \in Range(t)
      BY <1>4, <1>2, <1>3, <2>3, Zenon DEF Range
    <3>2. QED
      BY <1>6, <3>1, Zenon DEF Before
  <2>4. QED
    BY <2>1, <2>2, <2>3, ZenonT(30)
<1>7. QED
  BY <1>1, <1>5, <1>6, ZenonT(30) DEF u

\* What is behind the first of two batches.
LEMMA BackOfTwo ==
  ASSUME NEW S, NEW s \in Seq(S), NEW t \in Seq(S)
  PROVE  SubSeq(s \o t, Len(s) + 1, Len(s) + Len(t)) = t
<1> DEFINE u == s \o t
           b == SubSeq(u, Len(s) + 1, Len(s) + Len(t))
<1>1. u \in Seq(S) /\ Len(u) = Len(s) + Len(t) /\ \A i \in 1 .. Len(t) : u[Len(s) + i] = t[i]
  OBVIOUS
<1> HIDE DEF u
<1>2. b \in Seq(S) /\ Len(b) = Len(t) /\ \A i \in 1 .. Len(t) : b[i] = u[Len(s) + i]
  BY <1>1
<1> HIDE DEF b
<1>3. b = t
  <2>1. b = [i \in 1 .. Len(t) |-> b[i]] /\ t = [i \in 1 .. Len(t) |-> t[i]]
    BY <1>2
  <2>2. \A i \in 1 .. Len(t) : b[i] = t[i]
    BY <1>1, <1>2, ZenonT(30)
  <2>3. QED
    BY <2>1, <2>2, Zenon
<1>4. QED
  BY <1>3, ZenonT(30) DEF b, u

\* Cutting a batch in two.
LEMMA Cut ==
  ASSUME NEW S \in SUBSET Nat, NEW s \in Seq(S), NEW n \in 0 .. Len(s)
  PROVE  LET a == SubSeq(s, 1, n)
             b == SubSeq(s, n + 1, Len(s))
         IN  /\ a \in Seq(S) /\ b \in Seq(S) /\ Len(a) = n /\ Len(b) = Len(s) - n
             /\ Range(s) = Range(a) \cup Range(b)
             /\ Ordered(s) => Ordered(a) /\ Ordered(b) /\ Before(Range(a), Range(b))
<1> DEFINE a == SubSeq(s, 1, n)
           b == SubSeq(s, n + 1, Len(s))
<1>1. a \in Seq(S) /\ Len(a) = n /\ \A i \in 1 .. n : a[i] = s[i]
  OBVIOUS
<1>2. b \in Seq(S) /\ Len(b) = Len(s) - n /\ \A i \in 1 .. Len(s) - n : b[i] = s[n + i]
  OBVIOUS
<1>3. DOMAIN s = 1 .. Len(s) /\ DOMAIN a = 1 .. n /\ DOMAIN b = 1 .. Len(s) - n
  BY <1>1, <1>2
<1> HIDE DEF a, b
<1>4. \A i \in 1 .. Len(s) : i \in 1 .. n \/ (i - n \in 1 .. Len(s) - n /\ b[i - n] = s[i])
  BY <1>2
<1>5. Range(s) = Range(a) \cup Range(b)
  <2>1. Range(s) \subseteq Range(a) \cup Range(b)
    BY <1>3, <1>1, <1>4, Zenon DEF Range
  <2>2. Range(a) \subseteq Range(s)
    <3>1. \A i \in 1 .. n : i \in 1 .. Len(s)
      OBVIOUS
    <3>2. QED
      BY <1>3, <1>1, <3>1, Zenon DEF Range
  <2>3. Range(b) \subseteq Range(s)
    <3>1. \A i \in 1 .. Len(s) - n : n + i \in 1 .. Len(s)
      OBVIOUS
    <3>2. QED
      BY <1>3, <1>2, <3>1, Zenon DEF Range
  <2>4. QED
    BY <2>1, <2>2, <2>3, ZenonT(30)
<1>6. ASSUME Ordered(s)
      PROVE  Ordered(a) /\ Ordered(b) /\ Before(Range(a), Range(b))
  <2>1. Ordered(a)
    BY <1>1, <1>6 DEF Ordered
  <2>2. Ordered(b)
    <3> SUFFICES ASSUME NEW i \in 1 .. Len(s) - n, NEW j \in 1 .. Len(s) - n, i < j
                 PROVE  b[i] < b[j]
      BY <1>2 DEF Ordered
    <3>1. n + i \in 1 .. Len(s) /\ n + j \in 1 .. Len(s) /\ n + i < n + j
      OBVIOUS
    <3>2. QED
      BY <1>3, <1>2, <1>6, <3>1, Zenon DEF Ordered
  <2>3. ASSUME NEW i \in 1 .. n, NEW j \in 1 .. Len(s) - n
        PROVE  a[i] < b[j]
    <3>1. i \in 1 .. Len(s) /\ n + j \in 1 .. Len(s) /\ i < n + j
      OBVIOUS
    <3>2. QED
      BY <1>3, <1>1, <1>2, <1>6, <3>1, Zenon DEF Ordered
  <2>4. Before(Range(a), Range(b))
    BY <1>1, <1>2, <2>3 DEF Before, Range
  <2>5. QED
    BY <2>1, <2>2, <2>4
<1>7. QED
  BY <1>1, <1>2, <1>5, <1>6, ZenonT(30) DEF a, b

-----------------------------------------------------------------------------
(* Settings and the backend *)

\* A request moves on: what has to hold of it, and that the lock stays with one.
LEMMA OneRequest ==
  ASSUME StorageInv, RequestInv, NEW q \in Requests, NEW n \in RequestStates,
         request' = [request EXCEPT ![q] = n],
         process' = process, process # "down",
         n.pc # "idle" => n.want \in Settings,
         n.pc = "saved" => stored' = n.want,
         n.pc \in {"connecting", "connected"} => n.want.enabled,
         n.pc \in Locks => request[q].pc \in Locks \/ LockFree,
         request[q].pc \notin Locks => stored' = stored,
         DisabledStaysDisabled', SettingsAgree'
  PROVE  request' \in [Requests -> RequestStates] /\ RequestInv'
<1>1. request \in [Requests -> RequestStates]
  BY DEF StorageInv, RequestStates
<1>2. request' \in [Requests -> RequestStates]
  BY <1>1, ZenonT(30)
<1>3. request'[q] = n /\ \A r \in Requests \ {q} : request'[r] = request[r]
  BY <1>1, ZenonT(30)
<1>4. ASSUME NEW r \in Requests
      PROVE  /\ request'[r].pc # "idle" => request'[r].want \in Settings /\ process' # "down"
             /\ request'[r].pc = "saved" => stored' = request'[r].want
             /\ request'[r].pc \in {"connecting", "connected"} => request'[r].want.enabled
  <2>1. CASE r = q
    BY <1>3, <2>1, Zenon
  <2>2. CASE r # q /\ request[q].pc \notin Locks
    BY <1>3, <2>2, Zenon DEF RequestInv
  <2>3. CASE r # q /\ request[q].pc \in Locks
    <3>1. request[r].pc # "saved"
      BY <2>3, ZenonT(30) DEF RequestInv, Locks
    <3>2. QED
      BY <1>3, <2>3, <3>1, Zenon DEF RequestInv
  <2>4. QED
    BY <2>1, <2>2, <2>3, Zenon
<1>5. ASSUME NEW r \in Requests, NEW t \in Requests, request'[r].pc \in Locks, request'[t].pc \in Locks
      PROVE  r = t
  BY <1>3, <1>5, SMTT(30) DEF RequestInv, LockFree, Locks
<1>6. QED
  BY <1>2, <1>4, <1>5, Zenon DEF RequestInv

\* Everything but the counters and the requests is typed after a step of one.
LEMMA StorageTyped ==
  ASSUME StorageInv, request' \in [Requests -> RequestStates], UNCHANGED process,
         stored' \in Settings, settings' \in Settings, storage' \in Databases \cup {Disabled},
         torn' \in BOOLEAN, asked' = asked \/ (asked < MaxRequests /\ asked' = asked + 1),
         faults' = faults \/ Fault
  PROVE  StorageInv'
<1>1. asked' \in 0 .. MaxRequests /\ faults' \in 0 .. MaxFaults
  BY HistoryAssumption DEF StorageInv, Fault
<1>2. QED
  BY <1>1, Zenon DEF StorageInv, RequestStates

\* update_storage takes the lock.
LEMMA UpdateKeeps ==
  ASSUME StorageInv, RequestInv, NEW q \in Requests, NEW new \in Settings, UpdateStorage(q, new)
  PROVE  StorageInv' /\ RequestInv'
<1> DEFINE n == [pc |-> "saving", want |-> new]
<1>1. n \in RequestStates /\ n.pc = "saving" /\ n.want = new
  BY ZenonT(30) DEF RequestStates
<1>2. /\ request' = [request EXCEPT ![q] = n] /\ process = "up" /\ LockFree
      /\ UNCHANGED <<process, stored, settings, storage, torn, faults>>
      /\ asked < MaxRequests /\ asked' = asked + 1
  BY DEF UpdateStorage
<1> HIDE DEF n
<1>3. DisabledStaysDisabled' /\ SettingsAgree'
  BY <1>2, ZenonT(30) DEF RequestInv, DisabledStaysDisabled, SettingsAgree, LockFree, Running
<1>4. request' \in [Requests -> RequestStates] /\ RequestInv'
  BY <1>1, <1>2, <1>3, OneRequest, ZenonT(30)
<1>5. QED
  BY <1>2, <1>4, StorageTyped, ZenonT(30) DEF StorageInv

\* reconnect_storage reads the settings.
LEMMA ReconnectKeeps ==
  ASSUME StorageInv, RequestInv, NEW q \in Requests, ReconnectStorage(q)
  PROVE  StorageInv' /\ RequestInv'
<1> DEFINE n == [pc |-> "connecting", want |-> settings]
<1>1. n \in RequestStates /\ n.pc = "connecting" /\ n.want = settings /\ settings \in Settings
  BY ZenonT(30) DEF RequestStates, StorageInv
<1>2. /\ request' = [request EXCEPT ![q] = n] /\ process = "up" /\ LockFree /\ settings.enabled
      /\ UNCHANGED <<process, stored, settings, storage, torn, faults>>
      /\ asked < MaxRequests /\ asked' = asked + 1
  BY ZenonT(30) DEF ReconnectStorage
<1> HIDE DEF n
<1>3. DisabledStaysDisabled' /\ SettingsAgree'
  BY <1>2, ZenonT(30) DEF RequestInv, DisabledStaysDisabled, SettingsAgree, LockFree, Running
<1>4. request' \in [Requests -> RequestStates] /\ RequestInv'
  BY <1>1, <1>2, <1>3, OneRequest, ZenonT(30) DEF Locks
<1>5. QED
  BY <1>2, <1>4, StorageTyped, ZenonT(30) DEF StorageInv

\* The holder of the lock saves what it wants.
LEMMA SaveKeeps ==
  ASSUME StorageInv, RequestInv, NEW q \in Requests, SaveStorage(q)
  PROVE  StorageInv' /\ RequestInv'
<1> DEFINE n == [request[q] EXCEPT !.pc = "saved"]
<1>1. request[q] \in RequestStates /\ request[q].pc = "saving" /\ request[q].want \in Settings
  BY ZenonT(30) DEF SaveStorage, StorageInv, RequestInv, RequestStates
<1>2. n \in RequestStates /\ n.pc = "saved" /\ n.want = request[q].want
  BY <1>1, ZenonT(30) DEF RequestStates
<1>3. /\ request' = [request EXCEPT ![q] = n] /\ process # "down" /\ stored' = request[q].want
      /\ UNCHANGED <<process, settings, storage, torn, faults, asked>>
  BY ZenonT(30) DEF SaveStorage, Running
<1>4. \A r \in Requests : r # q => request[r].pc \notin Locks
  BY <1>1, ZenonT(30) DEF RequestInv, Locks
<1>5. request'[q].pc = "saved"
  BY <1>2, <1>3, ZenonT(30) DEF StorageInv
<1> HIDE DEF n
<1>6. DisabledStaysDisabled' /\ SettingsAgree'
  BY <1>3, <1>5, ZenonT(30) DEF RequestInv, DisabledStaysDisabled, SettingsAgree, Running
<1>7. request' \in [Requests -> RequestStates] /\ RequestInv'
  BY <1>1, <1>2, <1>3, <1>6, OneRequest, ZenonT(30) DEF Locks
<1>8. QED
  BY <1>1, <1>3, <1>7, StorageTyped DEF StorageInv

\* A request that ends gives the lock up.
LEMMA Ends ==
  ASSUME StorageInv, RequestInv, NEW q \in Requests, request' = [request EXCEPT ![q] = IdleRequest],
         process' = process, process # "down",
         request[q].pc \notin Locks => stored' = stored,
         DisabledStaysDisabled', SettingsAgree'
  PROVE  request' \in [Requests -> RequestStates] /\ RequestInv'
<1>1. IdleRequest \in RequestStates /\ IdleRequest.pc = "idle"
  BY DEF IdleRequest, RequestStates
<1>2. QED
  BY <1>1, OneRequest, ZenonT(30) DEF Locks

\* What was saved is applied, the backend first.
LEMMA ApplyKeeps ==
  ASSUME StorageInv, RequestInv, NEW q \in Requests, Apply(q)
  PROVE  StorageInv' /\ RequestInv'
<1>1. request[q].pc = "saved" /\ request[q].want \in Settings /\ request[q].want = stored /\ process # "down"
  BY ZenonT(30) DEF Apply, RequestInv
<1>2. /\ request' = [request EXCEPT ![q] = IdleRequest] /\ settings' = stored /\ torn' = FALSE
      /\ storage' = IF settings'.enabled THEN storage ELSE Disabled
      /\ UNCHANGED <<process, stored, faults, asked>>
  BY <1>1 DEF Apply
<1>3. DisabledStaysDisabled' /\ SettingsAgree'
  BY <1>2, ZenonT(30) DEF DisabledStaysDisabled, SettingsAgree
<1>4. request' \in [Requests -> RequestStates] /\ RequestInv'
  BY <1>1, <1>2, <1>3, Ends, ZenonT(30)
<1>5. storage' \in Databases \cup {Disabled} /\ settings' \in Settings /\ stored' \in Settings /\ torn' \in BOOLEAN
  BY <1>1, <1>2, ZenonT(30) DEF StorageInv
<1>6. QED
  BY <1>2, <1>4, <1>5, StorageTyped, ZenonT(30)

\* An update abandoned half-way leaves the settings torn.
LEMMA AbandonKeeps ==
  ASSUME StorageInv, RequestInv, NEW q \in Requests, AbandonUpdate(q)
  PROVE  StorageInv' /\ RequestInv'
<1>1. request[q].pc \in Locks /\ request[q].want \in Settings /\ process # "down"
  BY ZenonT(30) DEF AbandonUpdate, RequestInv, Locks
<1>2. /\ request' = [request EXCEPT ![q] = IdleRequest] /\ stored' \in {stored, request[q].want} /\ torn' = TRUE
      /\ UNCHANGED <<process, settings, storage, asked>> /\ Fault
  BY DEF AbandonUpdate
<1>3. DisabledStaysDisabled' /\ SettingsAgree'
  BY <1>2, ZenonT(30) DEF RequestInv, DisabledStaysDisabled, SettingsAgree, Running
<1>4. request' \in [Requests -> RequestStates] /\ RequestInv'
  BY <1>1, <1>2, <1>3, Ends, ZenonT(30)
<1>5. stored' \in Settings /\ torn' \in BOOLEAN
  BY <1>1, <1>2, ZenonT(30) DEF StorageInv
<1>6. QED
  BY <1>2, <1>4, <1>5, StorageTyped DEF StorageInv

\* A connection is made.
LEMMA ConnectKeeps ==
  ASSUME StorageInv, RequestInv, NEW q \in Requests, Connect(q)
  PROVE  StorageInv' /\ RequestInv'
<1> DEFINE n == [request[q] EXCEPT !.pc = "connected"]
<1>1. /\ request[q] \in RequestStates /\ request[q].pc = "connecting" /\ request[q].want \in Settings
      /\ request[q].want.enabled
  BY DEF Connect, StorageInv, RequestInv, RequestStates
<1>2. n \in RequestStates /\ n.pc = "connected" /\ n.want = request[q].want
  BY <1>1, ZenonT(30) DEF RequestStates
<1>3. /\ request' = [request EXCEPT ![q] = n] /\ process # "down"
      /\ UNCHANGED <<process, stored, settings, storage, torn, faults, asked>>
  BY ZenonT(30) DEF Connect, Running
<1>4. \A r \in Requests : request'[r].pc \in Locks <=> request[r].pc \in Locks
  BY <1>1, <1>2, <1>3, ZenonT(30) DEF StorageInv, Locks
<1> HIDE DEF n
<1>5. DisabledStaysDisabled' /\ SettingsAgree'
  BY <1>3, <1>4, ZenonT(30) DEF RequestInv, DisabledStaysDisabled, SettingsAgree, Running, Locks
<1>6. request' \in [Requests -> RequestStates] /\ RequestInv'
  BY <1>1, <1>2, <1>3, <1>5, OneRequest, ZenonT(30) DEF Locks
<1>7. QED
  BY <1>3, <1>6, StorageTyped, ZenonT(30) DEF StorageInv

\* Only a snapshot that is still current installs a backend; a request that failed does not.
LEMMA InstallKeeps ==
  ASSUME StorageInv, RequestInv, NEW q \in Requests, Install(q) \/ ConnectFails(q)
  PROVE  StorageInv' /\ RequestInv'
<1>1. /\ request[q].pc \in {"connecting", "connected"} /\ request[q].want \in Settings
      /\ request[q].want.enabled /\ process # "down"
  BY ZenonT(30) DEF Install, ConnectFails, RequestInv
<1>2. /\ request' = [request EXCEPT ![q] = IdleRequest]
      /\ UNCHANGED <<process, stored, settings, torn, asked>> /\ (faults' = faults \/ Fault)
  BY DEF Install, ConnectFails
<1>3. storage' = storage \/ (storage' = request[q].want.db /\ settings = request[q].want)
  BY ZenonT(30) DEF Install, ConnectFails, SnapshotCurrent
<1>4. \A r \in Requests : request'[r].pc \in Locks <=> request[r].pc \in Locks
  BY <1>1, <1>2, ZenonT(30) DEF StorageInv, Locks, IdleRequest
<1>5. DisabledStaysDisabled' /\ SettingsAgree'
  BY <1>1, <1>2, <1>3, <1>4, ZenonT(30) DEF RequestInv, DisabledStaysDisabled, SettingsAgree, Running, Locks
<1>6. request' \in [Requests -> RequestStates] /\ RequestInv'
  BY <1>1, <1>2, <1>5, Ends, ZenonT(30)
<1>7. storage' \in Databases \cup {Disabled}
  BY <1>1, <1>3, ZenonT(30) DEF StorageInv, Settings
<1>8. QED
  BY <1>2, <1>6, <1>7, StorageTyped, ZenonT(30) DEF StorageInv

\* Nobody's settings change.
LEMMA SettingsStay ==
  ASSUME StorageInv, RequestInv, UNCHANGED <<stored, settings, storage, request, torn, asked>>,
         process' = process \/ (process = "up" /\ process' = "stopping"),
         faults' = faults \/ Fault
  PROVE  StorageInv' /\ RequestInv'
<1>1. process' \in {"up", "stopping", "down"} /\ (process' = "down" <=> process = "down")
  BY ZenonT(30) DEF StorageInv
<1>2. faults' \in 0 .. MaxFaults
  BY HistoryAssumption DEF StorageInv, Fault
<1>3. DisabledStaysDisabled' /\ SettingsAgree'
  BY <1>1, ZenonT(30) DEF RequestInv, DisabledStaysDisabled, SettingsAgree, Running
<1>4. RequestInv'
  BY <1>1, <1>3, ZenonT(30) DEF RequestInv
<1>5. QED
  BY <1>1, <1>2, <1>4, ZenonT(30) DEF StorageInv

\* The requests go with the process, whatever was saved.
LEMMA DeathKeeps ==
  ASSUME StorageInv, RequestInv, JoinFlush \/ Crash
  PROVE  StorageInv' /\ RequestInv'
<1>1. /\ process' = "down" /\ request' = [q \in Requests |-> IdleRequest]
      /\ UNCHANGED <<settings, storage, torn, asked>> /\ (faults' = faults \/ Fault)
  BY DEF JoinFlush, Crash, Die
<1>2. stored' \in Settings
  BY ZenonT(30) DEF JoinFlush, Crash, StorageInv, RequestInv
<1>3. faults' \in 0 .. MaxFaults
  BY <1>1, HistoryAssumption DEF StorageInv, Fault
<1>4. request' \in [Requests -> RequestStates] /\ \A q \in Requests : request'[q].pc = "idle"
  BY <1>1, ZenonT(30) DEF IdleRequest, RequestStates
<1>5. StorageInv'
  BY <1>1, <1>2, <1>3, <1>4, ZenonT(30) DEF StorageInv, RequestStates
<1>6. RequestInv'
  BY <1>1, <1>4, ZenonT(30) DEF RequestInv, DisabledStaysDisabled, SettingsAgree, Running, Locks
<1>7. QED
  BY <1>5, <1>6, ZenonT(30)

\* main restores what was saved.
LEMMA StartKeeps ==
  ASSUME StorageInv, RequestInv, Start
  PROVE  StorageInv' /\ RequestInv'
<1>1. /\ process = "down" /\ process' = "up" /\ settings' = stored /\ torn' = FALSE
      /\ UNCHANGED <<stored, request, asked>> /\ (faults' = faults \/ Fault)
      /\ storage' = Disabled \/ (stored.enabled /\ storage' = stored.db)
  BY ZenonT(30) DEF Start
<1>2. \A q \in Requests : request[q].pc = "idle"
  BY <1>1, Zenon DEF RequestInv
<1>3. faults' \in 0 .. MaxFaults
  BY <1>1, HistoryAssumption DEF StorageInv, Fault
<1>4. storage' \in Databases \cup {Disabled}
  BY <1>1, ZenonT(30) DEF StorageInv, Settings
<1>5. StorageInv'
  BY <1>1, <1>3, <1>4, ZenonT(30) DEF StorageInv
<1>6. RequestInv'
  BY <1>1, <1>2 DEF RequestInv, DisabledStaysDisabled, SettingsAgree, Running, Locks
<1>7. QED
  BY <1>5, <1>6, ZenonT(30)

\* No step sets the settings, the saved ones and the backend at odds.
LEMMA SettingsHold ==
  ASSUME StorageInv, RequestInv, [Next]_vars
  PROVE  StorageInv' /\ RequestInv'
<1>1. CASE UNCHANGED vars
  BY <1>1, SettingsStay, Zenon DEF vars
<1>2. ASSUME NEW q \in Requests, RequestStep(q) PROVE StorageInv' /\ RequestInv'
  BY <1>2, SaveKeeps, ApplyKeeps, AbandonKeeps, ConnectKeeps, InstallKeeps, Zenon DEF RequestStep
<1>3. CASE CollectorStep \/ FlushStep \/ Stop
  <2>1. UNCHANGED <<stored, settings, storage, request, torn, asked>>
    BY <1>3, ZenonT(30) DEF CollectorStep, FlushStep, Tick, Collect, ExtendBuffer, Flush, TakeBackend, WriteBatch,
                WriteBatchFails, PutBack, Stop
  <2>2. process' = process \/ (process = "up" /\ process' = "stopping")
    BY <1>3, ZenonT(30) DEF CollectorStep, FlushStep, Tick, Collect, ExtendBuffer, Flush, TakeBackend, WriteBatch,
                WriteBatchFails, PutBack, Stop
  <2>3. faults' = faults \/ Fault
    BY <1>3, ZenonT(30) DEF CollectorStep, FlushStep, Tick, Collect, ExtendBuffer, Flush, TakeBackend, WriteBatch,
                WriteBatchFails, PutBack, Stop
  <2>4. QED
    BY <2>1, <2>2, <2>3, SettingsStay, ZenonT(30)
<1>4. QED
  BY <1>1, <1>2, <1>3, UpdateKeeps, ReconnectKeeps, DeathKeeps, StartKeeps, Zenon DEF Next

-----------------------------------------------------------------------------
(* Samples *)

SampleInv == QueueInv /\ OrderInv /\ CapInv /\ AccountInv /\ StopInv

Fates == {"written", "doubtful", "dropped", "lost"}

\* What memory holds are samples that were collected.
LEMMA HeldAreSamples ==
  ASSUME QueueInv
  PROVE  /\ Points \subseteq Nat /\ next \in Nat
         /\ Range(flush.failed) \subseteq Points /\ Range(flush.points) \subseteq Points
         /\ Range(buffer) \subseteq Points /\ Range(collector.points) \subseteq Points
         /\ flush.failed \in Seq(Points) /\ flush.points \in Seq(Points)
         /\ buffer \in Seq(Points) /\ collector.points \in Seq(Points)
<1>1. Points \subseteq Nat /\ next \in Nat
  BY HistoryAssumption DEF QueueInv, Points
<1>2. /\ flush.failed \in Seq(Points) /\ flush.points \in Seq(Points)
      /\ buffer \in Seq(Points) /\ collector.points \in Seq(Points)
  BY DEF QueueInv, CollectorStates, FlushStates
<1>3. QED
  BY <1>1, <1>2, RangeIn, Zenon

\* Steps that move no sample.
LEMMA SamplesStay ==
  ASSUME SampleInv, QueueInv', StopInv', UNCHANGED <<buffer, next, fate>>,
         collector'.points = collector.points, flush'.points = flush.points, flush'.failed = flush.failed
  PROVE  SampleInv'
<1>1. Unwritten' = Unwritten /\ Held' = Held
  BY Zenon DEF Unwritten, Held
<1>2. OrderInv'
  BY <1>1, Zenon DEF SampleInv, OrderInv
<1>3. CapInv'
  BY Zenon DEF SampleInv, CapInv
<1>4. AccountInv'
  BY <1>1, Zenon DEF SampleInv, AccountInv, Accounted
<1>5. QED
  BY <1>2, <1>3, <1>4, Zenon DEF SampleInv

\* The ceiling drops the oldest, and nothing unless the buffer stays full.
LEMMA CapEnforced ==
  ASSUME NEW s \in Seq(Points), Points \subseteq Nat, Ordered(s), EnforceBufferCap(s)
  PROVE  LET A == Range(SubSeq(s, 1, Excess(s)))
         IN  /\ buffer' \in Seq(Points) /\ Ordered(buffer') /\ Len(buffer') <= BufferCap
             /\ Range(s) = A \cup Range(buffer') /\ Before(A, Range(buffer'))
             /\ fate' = [fate EXCEPT !["dropped"] = @ \cup A]
             /\ Len(buffer') < BufferCap => Len(buffer') = Len(s) /\ A = {}
<1> DEFINE k == Excess(s)
           a == SubSeq(s, 1, k)
<1>1. Len(s) \in Nat /\ BufferCap \in Nat
  BY HistoryAssumption
<1>2. k \in 0 .. Len(s) /\ Len(s) - k <= BufferCap /\ (Len(s) - k < BufferCap => k = 0)
  BY <1>1 DEF Excess
<1>3. buffer' = SubSeq(s, k + 1, Len(s)) /\ fate' = [fate EXCEPT !["dropped"] = @ \cup Range(a)]
  BY ZenonT(30) DEF EnforceBufferCap
<1> HIDE DEF k
<1>4. /\ a \in Seq(Points) /\ buffer' \in Seq(Points) /\ Len(buffer') = Len(s) - k /\ Len(a) = k
      /\ Range(s) = Range(a) \cup Range(buffer')
      /\ Ordered(buffer') /\ Before(Range(a), Range(buffer'))
  BY <1>2, <1>3, Cut
<1>5. k = 0 => Range(a) = {}
  BY <1>4 DEF Range
<1>6. Len(buffer') < BufferCap => Len(buffer') = Len(s) /\ Range(a) = {}
  BY <1>1, <1>2, <1>4, <1>5
<1>7. Len(buffer') <= BufferCap
  BY <1>2, <1>4
<1> HIDE DEF a
<1>8. QED
  BY <1>3, <1>4, <1>6, <1>7, ZenonT(30) DEF a, k

\* Everything held or dropped was collected.
LEMMA Collected ==
  ASSUME SampleInv
  PROVE  Before(Held \cup fate["dropped"] \cup fate["lost"] \cup fate["written"], {x \in Nat : x >= next})
<1>1. next \in Nat
  BY HeldAreSamples, Zenon DEF SampleInv
<1>2. 1 .. next - 1 = Held \cup fate["written"] \cup fate["dropped"] \cup fate["lost"]
  BY Zenon DEF SampleInv, AccountInv, Accounted
<1>3. \A x \in 1 .. next - 1, y \in {z \in Nat : z >= next} : x < y
  BY <1>1
<1>4. QED
  BY <1>2, <1>3, Zenon DEF Before

\* New samples are newer than everything.
LEMMA CollectKeeps ==
  ASSUME SampleInv, Collect
  PROVE  SampleInv'
<1>1. /\ collector.pc = "ticked" /\ collector.points = <<>>
      /\ UNCHANGED <<process, flush, buffer, fate, late, excused>>
  BY ZenonT(30) DEF SampleInv, QueueInv, Collect
<1>2. StopInv'
  BY <1>1, Zenon DEF SampleInv, StopInv
<1>3. CASE collector' = SleepingCollector /\ next' = next
  <2>1. collector' \in CollectorStates /\ collector'.points = <<>>
    BY <1>3 DEF SleepingCollector, CollectorStates
  <2>2. QueueInv'
    BY <1>1, <1>3, <2>1, Zenon DEF SampleInv, QueueInv
  <2>3. QED
    BY <1>1, <1>2, <1>3, <2>1, <2>2, SamplesStay, ZenonT(30)
<1>4. CASE collector' # SleepingCollector \/ next' # next
  <2>1. PICK last \in next .. MaxPoints :
          /\ collector' = [pc |-> "collected", points |-> [i \in 1 .. last - next + 1 |-> next + i - 1]]
          /\ next' = last + 1
    BY <1>4, ZenonT(30) DEF Collect
  <2> DEFINE new == [i \in 1 .. last - next + 1 |-> next + i - 1]
  <2>2. next \in 1 .. MaxPoints + 1 /\ MaxPoints \in Nat
    BY HistoryAssumption, ZenonT(30) DEF SampleInv, QueueInv
  <2>3. new \in Seq(Points) /\ Ordered(new) /\ DOMAIN new = 1 .. last - next + 1
    BY <2>2 DEF Points, Ordered
  <2>4. Range(new) = next .. last
    <3>1. \A x \in next .. last : x - next + 1 \in 1 .. last - next + 1 /\ new[x - next + 1] = x
      BY <2>2
    <3>2. \A i \in 1 .. last - next + 1 : new[i] \in next .. last
      BY <2>2
    <3> HIDE DEF new
    <3>3. QED
      BY <2>3, <3>1, <3>2, Zenon DEF Range
  <2>5. collector'.pc = "collected" /\ collector'.points = new
    BY <2>1, ZenonT(30)
  <2>6. collector' \in CollectorStates /\ next' \in 1 .. MaxPoints + 1
    BY <2>1, <2>2, <2>3 DEF CollectorStates
  <2> HIDE DEF new
  <2>7. QueueInv'
    BY <1>1, <2>5, <2>6, Zenon DEF SampleInv, QueueInv
  <2>8. /\ Unwritten' = Unwritten /\ Held = Unwritten
        /\ Held' = Held \cup (next .. last)
    BY <1>1, <2>4, <2>5, RangeOfEmpty, ZenonT(30) DEF Unwritten, Held
  <2>9. \A x \in next .. last : x \in {y \in Nat : y >= next}
    BY <2>2
  <2>10. Before(Held \cup fate["dropped"] \cup fate["lost"] \cup fate["written"], next .. last)
    BY <2>9, Collected, Zenon DEF Before
  <2>11. OrderInv'
    <3>1. Before(Unwritten', Range(collector'.points))
      BY <2>4, <2>5, <2>8, <2>10, Zenon DEF Before
    <3>2. QED
      BY <1>1, <2>3, <2>5, <3>1, ZenonT(30) DEF SampleInv, OrderInv
  <2>12. CapInv'
    <3>1. Before(fate["dropped"], next .. last)
      BY <2>10, Zenon DEF Before
    <3>2. Before(fate["dropped"], Range(buffer))
      BY Zenon DEF SampleInv, CapInv, Before
    <3>3. Before(fate'["dropped"], Range(buffer') \cup Range(collector'.points))
      BY <1>1, <2>4, <2>5, <3>1, <3>2, Zenon DEF Before
    <3>4. QED
      BY <1>1, <3>3, Zenon DEF SampleInv, CapInv
  <2>13. AccountInv'
    <3>1. 1 .. next' - 1 = (1 .. next - 1) \cup (next .. last)
      BY <2>1, <2>2
    <3>2. \A x \in next .. last : x \notin fate["dropped"] \cup fate["lost"] \cup fate["written"]
      <4>1. \A x \in next .. last : ~(x < x)
        BY <2>2
      <4>2. QED
        BY <2>10, <4>1, Zenon DEF Before
    <3>3. /\ 1 .. next - 1 = Held \cup fate["written"] \cup fate["dropped"] \cup fate["lost"]
          /\ fate["written"] \cap (Held \cup fate["dropped"] \cup fate["lost"]) \subseteq fate["doubtful"]
          /\ Held \cap (fate["dropped"] \cup fate["lost"]) = {}
      BY Zenon DEF SampleInv, AccountInv, Accounted
    <3>4. 1 .. next' - 1 = Held' \cup fate'["written"] \cup fate'["dropped"] \cup fate'["lost"]
      BY <1>1, <2>8, <3>1, <3>3, ZenonT(30)
    <3>5. fate'["written"] \cap (Held' \cup fate'["dropped"] \cup fate'["lost"]) \subseteq fate'["doubtful"]
      BY <1>1, <2>8, <3>2, <3>3, ZenonT(30)
    <3>6. Held' \cap (fate'["dropped"] \cup fate'["lost"]) = {}
      BY <1>1, <2>8, <3>2, <3>3, ZenonT(30)
    <3>7. QED
      BY <3>4, <3>5, <3>6, Zenon DEF AccountInv, Accounted
  <2>14. QED
    BY <1>2, <2>7, <2>11, <2>12, <2>13, Zenon DEF SampleInv
<1>5. QED
  BY <1>3, <1>4, Zenon

\* What is accounted for, set by set.
LEMMA Accounts ==
  ASSUME SampleInv
  PROVE  /\ 1 .. next - 1 = Held \cup fate["written"] \cup fate["dropped"] \cup fate["lost"]
         /\ fate["written"] \cap (Held \cup fate["dropped"] \cup fate["lost"]) \subseteq fate["doubtful"]
         /\ Held \cap (fate["dropped"] \cup fate["lost"]) = {}
         /\ Held = Range(flush.failed) \cup Range(flush.points) \cup Range(buffer) \cup Range(collector.points)
BY Zenon DEF SampleInv, AccountInv, Accounted, Held, Unwritten

\* The ceiling moves samples from memory to the dropped ones.
LEMMA DroppedAccounted ==
  ASSUME SampleInv, NEW A \in SUBSET Points, fate' = [fate EXCEPT !["dropped"] = @ \cup A], next' = next,
         Held = A \cup Held', A \cap Held' = {}
  PROVE  AccountInv' /\ fate' \in [Fates -> SUBSET Points] /\ fate'["dropped"] = fate["dropped"] \cup A
<1>1. fate \in [Fates -> SUBSET Points]
  BY Zenon DEF SampleInv, QueueInv, Fates
<1>2. /\ fate'["dropped"] = fate["dropped"] \cup A /\ fate'["written"] = fate["written"]
      /\ fate'["doubtful"] = fate["doubtful"] /\ fate'["lost"] = fate["lost"]
      /\ fate' \in [Fates -> SUBSET Points]
  BY <1>1, ZenonT(30) DEF Fates
<1>3. 1 .. next' - 1 = Held' \cup fate'["written"] \cup fate'["dropped"] \cup fate'["lost"]
  BY <1>2, Accounts, ZenonT(30)
<1>4. fate'["written"] \cap (Held' \cup fate'["dropped"] \cup fate'["lost"]) \subseteq fate'["doubtful"]
  BY <1>2, Accounts, ZenonT(30)
<1>5. Held' \cap (fate'["dropped"] \cup fate'["lost"]) = {}
  BY <1>2, Accounts, ZenonT(30)
<1>6. QED
  BY <1>2, <1>3, <1>4, <1>5, Zenon DEF AccountInv, Accounted

\* Sets of which one is before the other share nothing.
LEMMA BeforeDisjoint ==
  ASSUME NEW S \in SUBSET Nat, NEW T \in SUBSET Nat, Before(S, T)
  PROVE  S \cap T = {}
BY DEF Before

\* Collected samples go behind the buffered ones.
LEMMA ExtendKeeps ==
  ASSUME SampleInv, ExtendBuffer
  PROVE  SampleInv'
<1> DEFINE s == buffer \o collector.points
           A == Range(SubSeq(s, 1, Excess(s)))
<1>1. /\ QueueInv /\ EnforceBufferCap(s) /\ collector' = SleepingCollector
      /\ late' = IF process = "stopping" THEN late \cup Range(collector.points) ELSE late
      /\ UNCHANGED <<process, flush, next, excused>>
  BY ZenonT(30) DEF SampleInv, ExtendBuffer
<1>2. /\ Ordered(buffer) /\ Ordered(collector.points) /\ Before(Range(buffer), Range(collector.points))
      /\ Before(Range(flush.failed) \cup Range(flush.points), Range(buffer) \cup Range(collector.points))
  BY Zenon DEF SampleInv, OrderInv, Unwritten, Before
<1>3. /\ s \in Seq(Points) /\ Range(s) = Range(buffer) \cup Range(collector.points) /\ Ordered(s)
      /\ Len(s) = Len(buffer) + Len(collector.points)
  <2>1. Points \in SUBSET Nat /\ buffer \in Seq(Points) /\ collector.points \in Seq(Points)
    BY <1>1, HeldAreSamples, Zenon
  <2>2. QED
    BY <1>2, <2>1, Concatenation, ZenonT(30)
<1>4. /\ buffer' \in Seq(Points) /\ Ordered(buffer') /\ Len(buffer') <= BufferCap
      /\ Range(s) = A \cup Range(buffer') /\ Before(A, Range(buffer'))
      /\ fate' = [fate EXCEPT !["dropped"] = @ \cup A]
      /\ Len(buffer') < BufferCap => Len(buffer') = Len(s) /\ A = {}
  <2> HIDE DEF s
  <2>1. QED
    BY <1>1, <1>3, HeldAreSamples, CapEnforced, ZenonT(30)
<1> HIDE DEF s, A
<1>5. collector' \in CollectorStates /\ collector'.points = <<>>
  BY <1>1 DEF SleepingCollector, CollectorStates
<1>6. A \subseteq Points /\ Range(buffer') \subseteq Points /\ Points \subseteq Nat
  BY <1>1, <1>3, <1>4, HeldAreSamples, RangeIn, Zenon
<1>7. /\ Held' = Range(flush.failed) \cup Range(flush.points) \cup Range(buffer')
      /\ Unwritten' = Held'
  BY <1>1, <1>5, RangeOfEmpty, ZenonT(30) DEF Held, Unwritten
<1>8. A \cap Held' = {}
  <2>1. A \cap Range(buffer') = {}
    BY <1>4, <1>6, BeforeDisjoint, ZenonT(30)
  <2>2. (Range(flush.failed) \cup Range(flush.points)) \cap (Range(buffer) \cup Range(collector.points)) = {}
    <3>1. /\ Range(flush.failed) \cup Range(flush.points) \in SUBSET Nat
          /\ Range(buffer) \cup Range(collector.points) \in SUBSET Nat
      BY <1>1, HeldAreSamples, Zenon
    <3> DEFINE S == Range(flush.failed) \cup Range(flush.points)
               T == Range(buffer) \cup Range(collector.points)
    <3>2. S \in SUBSET Nat /\ T \in SUBSET Nat /\ Before(S, T)
      BY <1>2, <3>1, Zenon
    <3> HIDE DEF S, T
    <3>3. S \cap T = {}
      BY <3>2, BeforeDisjoint, ZenonT(30)
    <3>4. QED
      BY <3>3, ZenonT(30) DEF S, T
  <2>3. QED
    BY <1>3, <1>4, <1>7, <2>1, <2>2, ZenonT(30)
<1>9. Held = A \cup Held'
  BY <1>3, <1>4, <1>7, Accounts
<1>10. AccountInv' /\ fate' \in [Fates -> SUBSET Points] /\ fate'["dropped"] = fate["dropped"] \cup A
  BY <1>1, <1>4, <1>6, <1>8, <1>9, DroppedAccounted, Zenon
<1>11. late' \subseteq Points
  BY <1>1, HeldAreSamples, Zenon DEF QueueInv
<1>12. QueueInv'
  BY <1>1, <1>4, <1>5, <1>10, <1>11, Zenon DEF QueueInv, Fates
<1>13. OrderInv'
  <2>1. Before(Range(flush.failed) \cup Range(flush.points), Range(buffer'))
    BY <1>2, <1>3, <1>4, Zenon DEF Before
  <2>2. Before(Unwritten', Range(collector'.points))
    BY <1>5, RangeOfEmpty, Zenon DEF Before
  <2>3. QED
    BY <1>1, <1>4, <1>5, <2>1, <2>2, RangeOfEmpty, Zenon DEF SampleInv, OrderInv
<1>14. CapInv'
  <2>1. Before(fate["dropped"], Range(s))
    BY <1>3, Zenon DEF SampleInv, CapInv
  <2>2. Before(fate'["dropped"], Range(buffer') \cup Range(collector'.points))
    BY <1>4, <1>5, <1>10, <2>1, RangeOfEmpty, Zenon DEF Before
  <2>3. ASSUME Len(buffer') < BufferCap
        PROVE  Before(fate'["dropped"], Range(flush'.failed) \cup Range(flush'.points))
    <3>1. Len(buffer) < BufferCap /\ A = {}
      <4>1. Len(buffer) \in Nat /\ Len(collector.points) \in Nat /\ BufferCap \in Nat
        BY <1>1, HeldAreSamples, HistoryAssumption
      <4>2. Len(buffer') = Len(buffer) + Len(collector.points) /\ A = {}
        BY <1>3, <1>4, <2>3, Zenon
      <4>3. QED
        BY <2>3, <4>1, <4>2
    <3>2. QED
      BY <1>1, <1>10, <3>1, Zenon DEF SampleInv, CapInv, Before
  <2>4. QED
    BY <1>4, <2>2, <2>3, Zenon DEF CapInv
<1>15. StopInv'
  <2>1. process = "stopping" /\ Range(buffer) \subseteq late => Range(buffer') \subseteq late'
    BY <1>1, <1>3, <1>4, ZenonT(30)
  <2>2. QED
    BY <1>1, <2>1, Zenon DEF SampleInv, StopInv
<1>16. QED
  BY <1>10, <1>12, <1>13, <1>14, <1>15, Zenon DEF SampleInv

\* How a flush ends.
LEMMA EndedFlush ==
  ASSUME NEW final \in BOOLEAN
  PROVE  LET n == EndFlush(final)
         IN  /\ n \in FlushStates /\ n.pc = IF final THEN "done" ELSE "sleeping"
             /\ n.points = <<>> /\ n.failed = <<>> /\ n.final = FALSE
<1>1. SleepingFlush \in FlushStates
  BY DEF SleepingFlush, FlushStates
<1>2. PICK pc \in {"done", "sleeping"} : pc = IF final THEN "done" ELSE "sleeping"
  BY Zenon
<1>3. EndFlush(final) = [pc |-> pc, points |-> <<>>, failed |-> <<>>, backend |-> Disabled,
                         size |-> 0, final |-> FALSE]
  <2>1. EndFlush(final) = [SleepingFlush EXCEPT !.pc = pc]
    BY <1>2, Zenon DEF EndFlush
  <2>2. QED
    BY <2>1 DEF SleepingFlush
<1> DEFINE n == [pc |-> pc, points |-> <<>>, failed |-> <<>>, backend |-> Disabled, size |-> 0, final |-> FALSE]
<1>4. /\ n \in FlushStates /\ n.pc = pc
      /\ n.points = <<>> /\ n.failed = <<>> /\ n.final = FALSE
  BY DEF FlushStates
<1>5. QED
  BY <1>2, <1>3, <1>4, Zenon

\* The whole buffer becomes the batch.
LEMMA FlushKeeps ==
  ASSUME SampleInv, Flush
  PROVE  SampleInv'
<1>1. /\ QueueInv /\ flush.pc = "sleeping" /\ flush.points = <<>> /\ flush.failed = <<>>
      /\ UNCHANGED <<process, collector, next, fate, late>> /\ process # "down"
  BY ZenonT(30) DEF SampleInv, QueueInv, Flush, Running
<1>2. CASE Active /\ buffer # <<>>
  <2>1. PICK size \in BatchSizes :
          flush' = [SleepingFlush EXCEPT !.pc = "taken", !.points = buffer, !.size = size,
                                         !.final = process = "stopping"]
    BY <1>2, Zenon DEF Flush
  <2>2. buffer' = <<>> /\ excused' = excused
    BY <1>2, Zenon DEF Flush
  <2>3. PICK final \in BOOLEAN : final = (process = "stopping")
    BY Zenon
  <2>4. flush' = [pc |-> "taken", points |-> buffer, failed |-> <<>>, backend |-> Disabled,
                  size |-> size, final |-> final]
    BY <2>1, <2>3, ZenonT(30) DEF SleepingFlush
  <2>5. /\ flush' \in FlushStates
        /\ flush'.pc = "taken" /\ flush'.points = buffer /\ flush'.failed = <<>> /\ flush'.final = final
    BY <1>1, <2>4, HeldAreSamples, ZenonT(30) DEF FlushStates
  <2>6. QueueInv' /\ Len(buffer') = 0
    <3>1. buffer' \in Seq(Points) /\ Len(buffer') = 0
      BY <2>2
    <3>2. QED
      BY <1>1, <2>2, <2>5, <3>1 DEF SampleInv, QueueInv
  <2>7. /\ Range(flush.failed) = {} /\ Range(flush.points) = {} /\ Range(flush'.failed) = {}
        /\ Range(buffer') = {} /\ Range(flush'.points) = Range(buffer)
    BY <1>1, <2>2, <2>5, RangeOfEmpty, Zenon
  <2>8. Unwritten' = Unwritten /\ Held' = Held /\ Unwritten = Range(buffer)
    BY <1>1, <2>7 DEF Held, Unwritten
  <2>9. OrderInv'
    <3>1. Before(Unwritten', Range(collector'.points))
      BY <1>1, <2>8, Zenon DEF SampleInv, OrderInv
    <3>2. Ordered(flush'.failed) /\ Ordered(flush'.points) /\ Ordered(buffer') /\ Ordered(collector'.points)
      BY <1>1, <2>2, <2>5, RangeOfEmpty, Zenon DEF SampleInv, OrderInv
    <3>3. QED
      BY <2>7, <3>1, <3>2, Zenon DEF OrderInv, Before
  <2>10. CapInv'
    <3>1. Len(buffer') <= BufferCap
      BY <2>6, HistoryAssumption
    <3>2. QED
      BY <1>1, <2>7, <3>1, Zenon DEF SampleInv, CapInv, Before
  <2>11. AccountInv'
    BY <1>1, <2>8, Zenon DEF SampleInv, AccountInv, Accounted
  <2>12. StopInv'
    BY <1>1, <2>3, <2>5, <2>7 DEF StopInv
  <2>13. QED
    BY <2>6, <2>9, <2>10, <2>11, <2>12, Zenon DEF SampleInv
<1>3. CASE ~(Active /\ buffer # <<>>)
  <2>1. /\ flush' = EndFlush(process = "stopping") /\ buffer' = buffer
        /\ excused' = (excused \/ (process = "stopping" /\ ~Active))
    BY <1>3, Zenon DEF Flush
  <2>2. /\ flush' \in FlushStates
        /\ flush'.pc = IF process = "stopping" THEN "done" ELSE "sleeping"
        /\ flush'.points = <<>> /\ flush'.failed = <<>> /\ flush'.final = FALSE
    <3>1. PICK final \in BOOLEAN : final = (process = "stopping")
      BY Zenon
    <3>2. flush' = EndFlush(final)
      BY <2>1, <3>1, Zenon
    <3>3. QED
      BY <3>1, <3>2, EndedFlush, Zenon DEF FlushStates
  <2>3. excused' \in BOOLEAN /\ (excused' = FALSE => excused = FALSE /\ ~(process = "stopping" /\ ~Active))
    BY <1>1, <2>1, Zenon DEF QueueInv
  <2>4. QueueInv'
    BY <1>1, <2>1, <2>2, <2>3, ZenonT(30) DEF QueueInv
  <2>5. StopInv'
    <3>1. flush'.pc = "done" /\ ~excused' => Range(buffer') = {}
      BY <1>3, <2>1, <2>2, RangeOfEmpty, Zenon
    <3>2. QED
      BY <1>1, <2>2, <3>1, ZenonT(30) DEF StopInv
  <2>6. QED
    BY <1>1, <2>1, <2>2, <2>4, <2>5, SamplesStay, ZenonT(30)
<1>4. QED
  BY <1>2, <1>3, Zenon

\* A chunk is the front of the batch.
LEMMA ChunkCut ==
  ASSUME SampleInv
  PROVE  /\ Chunk \in Seq(Points) /\ RestOfBatch \in Seq(Points)
         /\ Range(flush.points) = Range(Chunk) \cup Range(RestOfBatch)
         /\ Ordered(Chunk) /\ Ordered(RestOfBatch) /\ Before(Range(Chunk), Range(RestOfBatch))
<1>1. flush.points \in Seq(Points) /\ Points \in SUBSET Nat /\ Ordered(flush.points)
  BY HeldAreSamples, Zenon DEF SampleInv, OrderInv
<1>2. flush.size \in Nat
  <2>1. flush \in FlushStates
    BY Zenon DEF SampleInv, QueueInv
  <2>2. flush.size \in BatchSizes \cup {0}
    BY <2>1, ZenonT(30) DEF FlushStates
  <2>3. \A x \in BatchSizes : x \in Nat
    BY HistoryAssumption, ZenonT(30)
  <2>4. 0 \in Nat
    BY ZenonT(30)
  <2>5. QED
    BY <2>2, <2>3, <2>4, Zenon
<1>3. ChunkLength \in 0 .. Len(flush.points)
  BY <1>1, <1>2 DEF ChunkLength
<1> HIDE DEF ChunkLength
<1>4. QED
  BY <1>1, <1>3, Cut DEF Chunk, RestOfBatch

\* Where the samples of a batch are while it is written.
LEMMA BatchOrder ==
  ASSUME SampleInv
  PROVE  LET T == Range(Chunk)
             R == Range(RestOfBatch)
             F == Range(flush.failed)
             B == Range(buffer)
             C == Range(collector.points)
         IN  /\ Before(F, T) /\ Before(F, R) /\ Before(F \cup R, B) /\ Before(F \cup T \cup R, B)
             /\ Before(F \cup R \cup B, C) /\ T \cap (F \cup R \cup B \cup C) = {}
             /\ Held = F \cup T \cup R \cup B \cup C /\ T \subseteq Points
<1>1. /\ Before(Range(flush.failed), Range(flush.points))
      /\ Before(Range(flush.failed) \cup Range(flush.points), Range(buffer))
      /\ Before(Range(flush.failed) \cup Range(flush.points) \cup Range(buffer), Range(collector.points))
  BY Zenon DEF SampleInv, OrderInv, Unwritten
<1>2. Held = Range(flush.failed) \cup Range(flush.points) \cup Range(buffer) \cup Range(collector.points)
  BY Accounts, Zenon
<1>3. Points \subseteq Nat /\ Held \subseteq Points
  BY <1>2, HeldAreSamples, ZenonT(30) DEF SampleInv
<1>4. Range(flush.points) = Range(Chunk) \cup Range(RestOfBatch) /\ Before(Range(Chunk), Range(RestOfBatch))
  BY ChunkCut, Zenon
<1>5. \A x \in Range(Chunk) :
        /\ x \in Points
        /\ ~(x < x)
  BY <1>2, <1>3, <1>4
<1>6. Range(Chunk) \cap (Range(flush.failed) \cup Range(RestOfBatch) \cup Range(buffer) \cup Range(collector.points)) = {}
  BY <1>1, <1>4, <1>5, ZenonT(30) DEF Before
<1>7. /\ Before(Range(flush.failed), Range(Chunk)) /\ Before(Range(flush.failed), Range(RestOfBatch))
      /\ Before(Range(flush.failed) \cup Range(RestOfBatch), Range(buffer))
      /\ Before(Range(flush.failed) \cup Range(RestOfBatch) \cup Range(buffer), Range(collector.points))
  BY <1>1, <1>4, Zenon DEF Before
<1>8. Before(Range(flush.failed) \cup Range(Chunk) \cup Range(RestOfBatch), Range(buffer))
  BY <1>1, <1>4, Zenon DEF Before
<1>9. Held = Range(flush.failed) \cup Range(Chunk) \cup Range(RestOfBatch) \cup Range(buffer) \cup Range(collector.points)
  BY <1>2, <1>4, ZenonT(30)
<1>10. QED
  BY <1>5, <1>6, <1>7, <1>8, <1>9, Zenon

\* A chunk that is written leaves memory.
LEMMA WriteKeeps ==
  ASSUME SampleInv, WriteBatch
  PROVE  SampleInv'
<1> DEFINE T == Range(Chunk)
           R == Range(RestOfBatch)
           F == Range(flush.failed)
           B == Range(buffer)
           C == Range(collector.points)
<1>1. /\ QueueInv /\ flush.pc = "writing" /\ flush \in FlushStates /\ RestOfBatch \in Seq(Points)
      /\ flush' = [flush EXCEPT !.points = RestOfBatch]
      /\ fate' = [fate EXCEPT !["written"] = @ \cup T]
      /\ UNCHANGED <<process, collector, buffer, next, late, excused>>
  BY ChunkCut, ZenonT(30) DEF SampleInv, QueueInv, WriteBatch
<1>2. /\ flush' \in FlushStates /\ flush'.pc = "writing" /\ flush'.points = RestOfBatch
      /\ flush'.failed = flush.failed /\ flush'.final = flush.final
  BY <1>1, ZenonT(30) DEF FlushStates
<1>3. /\ Before(F, R) /\ Before(F \cup R, B) /\ Before(F \cup R \cup B, C)
      /\ T \cap (F \cup R \cup B \cup C) = {} /\ Held = F \cup T \cup R \cup B \cup C /\ T \subseteq Points
      /\ Ordered(RestOfBatch) /\ R \subseteq Range(flush.points)
  BY BatchOrder, ChunkCut, Zenon
<1> HIDE DEF T, R, F, B, C
<1>4. /\ fate' \in [Fates -> SUBSET Points] /\ fate'["written"] = fate["written"] \cup T
      /\ fate'["doubtful"] = fate["doubtful"] /\ fate'["dropped"] = fate["dropped"] /\ fate'["lost"] = fate["lost"]
  BY <1>1, <1>3, ZenonT(30) DEF QueueInv, Fates
<1>5. Held' = F \cup R \cup B \cup C /\ Unwritten' = F \cup R \cup B
  BY <1>1, <1>2, Zenon DEF Held, Unwritten, F, R, B, C
<1>6. QueueInv'
  BY <1>1, <1>2, <1>4, Zenon DEF QueueInv, Fates
<1>7. OrderInv'
  BY <1>1, <1>2, <1>3, <1>5, Zenon DEF SampleInv, OrderInv, F, R, B, C
<1>8. CapInv'
  BY <1>1, <1>2, <1>3, <1>4, Zenon DEF SampleInv, CapInv, Before, R
<1>9. AccountInv'
  <2>1. 1 .. next' - 1 = Held' \cup fate'["written"] \cup fate'["dropped"] \cup fate'["lost"]
    BY <1>1, <1>3, <1>4, <1>5, Accounts, ZenonT(30)
  <2>2. fate'["written"] \cap (Held' \cup fate'["dropped"] \cup fate'["lost"]) \subseteq fate'["doubtful"]
    BY <1>3, <1>4, <1>5, Accounts
  <2>3. Held' \cap (fate'["dropped"] \cup fate'["lost"]) = {}
    BY <1>3, <1>4, <1>5, Accounts, ZenonT(30)
  <2>4. QED
    BY <2>1, <2>2, <2>3, Zenon DEF AccountInv, Accounted
<1>10. StopInv'
  BY <1>1, <1>2, Zenon DEF SampleInv, StopInv
<1>11. QED
  BY <1>6, <1>7, <1>8, <1>9, <1>10, Zenon DEF SampleInv

\* A chunk that failed joins the failed ones, in order.
\* A failed write drops the stream it may have left inside a frame.
LEMMA WriteFailsKeeps ==
  ASSUME SampleInv, WriteBatchFails
  PROVE  SampleInv'
<1> DEFINE T == Range(Chunk)
           R == Range(RestOfBatch)
           F == Range(flush.failed)
           B == Range(buffer)
           C == Range(collector.points)
           W == fate'["written"]
<1>1. /\ QueueInv /\ flush.pc = "writing" /\ flush \in FlushStates
      /\ Chunk \in Seq(Points) /\ RestOfBatch \in Seq(Points) /\ flush.failed \in Seq(Points)
      /\ Points \in SUBSET Nat
      /\ flush' = [flush EXCEPT !.points = RestOfBatch, !.failed = @ \o Chunk]
      /\ UNCHANGED <<process, collector, buffer, next, late>>
  BY ChunkCut, HeldAreSamples, ZenonT(30) DEF SampleInv, QueueInv, WriteBatchFails
<1>2. excused' = (excused \/ flush.final)
  BY Zenon DEF WriteBatchFails
<1>3. /\ Before(F, T) /\ Before(F, R) /\ Before(T, R) /\ Before(F \cup T \cup R, B)
      /\ Before(F \cup R \cup B, C)
      /\ Held = F \cup T \cup R \cup B \cup C /\ T \subseteq Points
      /\ Ordered(RestOfBatch) /\ Ordered(Chunk) /\ Range(flush.points) = T \cup R
  BY BatchOrder, ChunkCut, Zenon
<1>4. Before(T, C)
  BY <1>3, Zenon DEF SampleInv, OrderInv, Unwritten, Before
<1>5. Ordered(flush.failed)
  BY Zenon DEF SampleInv, OrderInv
<1>6. /\ flush.failed \o Chunk \in Seq(Points) /\ Range(flush.failed \o Chunk) = F \cup T
      /\ Ordered(flush.failed \o Chunk)
  BY <1>1, <1>3, <1>5, Concatenation, Zenon
<1>7. /\ flush' \in FlushStates /\ flush'.pc = "writing" /\ flush'.points = RestOfBatch
      /\ flush'.failed = flush.failed \o Chunk /\ flush'.final = flush.final
  BY <1>1, <1>6 DEF FlushStates
<1>8. Range(flush'.failed) = F \cup T /\ Range(flush'.points) = R
  BY <1>6, <1>7, Zenon
<1> HIDE DEF T, R, F, B, C
<1>9. /\ fate' \in [Fates -> SUBSET Points]
      /\ fate'["dropped"] = fate["dropped"] /\ fate'["lost"] = fate["lost"]
      /\ \/ fate'["written"] = fate["written"] /\ fate'["doubtful"] = fate["doubtful"]
         \/ fate'["written"] = fate["written"] \cup T /\ fate'["doubtful"] = fate["doubtful"] \cup T
  <2>1. fate' = fate \/ fate' = [fate EXCEPT !["written"] = @ \cup T, !["doubtful"] = @ \cup T]
    BY Zenon DEF WriteBatchFails, T
  <2>2. CASE fate' = fate
    BY <1>1, <2>2, Zenon DEF QueueInv, Fates
  <2>3. CASE fate' = [fate EXCEPT !["written"] = @ \cup T, !["doubtful"] = @ \cup T]
    BY <1>1, <1>3, <2>3, ZenonT(30) DEF QueueInv, Fates
  <2>4. QED
    BY <2>1, <2>2, <2>3, Zenon
<1>10. Unwritten' = F \cup T \cup R \cup B
  BY <1>1, <1>8, ZenonT(30) DEF Unwritten, B
<1>11. Held' = Held
  BY <1>1, <1>3, <1>10, Zenon DEF Held, C
<1>12. QueueInv'
  BY <1>1, <1>2, <1>7, <1>9, Zenon DEF QueueInv, Fates
<1>13. OrderInv'
  <2>1. Before(F \cup T, R) /\ Before(F \cup T \cup R \cup B, C)
    BY <1>3, <1>4, Zenon DEF Before
  <2>2. QED
    BY <1>1, <1>3, <1>6, <1>7, <1>8, <1>10, <2>1, Zenon DEF SampleInv, OrderInv, B, C
<1>14. CapInv'
  BY <1>1, <1>3, <1>8, <1>9, Zenon DEF SampleInv, CapInv, Before, F
<1>15. AccountInv'
  <2>1. 1 .. next' - 1 = Held' \cup fate'["written"] \cup fate'["dropped"] \cup fate'["lost"]
    BY <1>1, <1>3, <1>9, <1>11, Accounts, ZenonT(30)
  <2>2. fate'["written"] \cap (Held' \cup fate'["dropped"] \cup fate'["lost"]) \subseteq fate'["doubtful"]
    BY <1>9, <1>11, Accounts, ZenonT(30)
  <2>3. Held' \cap (fate'["dropped"] \cup fate'["lost"]) = {}
    BY <1>9, <1>11, Accounts, ZenonT(30)
  <2>4. QED
    BY <2>1, <2>2, <2>3, Zenon DEF AccountInv, Accounted
<1>16. StopInv'
  BY <1>1, <1>2, <1>7, Zenon DEF SampleInv, StopInv
<1>17. QED
  BY <1>12, <1>13, <1>14, <1>15, <1>16, Zenon DEF SampleInv

\* Failed samples return in front, and the ceiling takes them first.
LEMMA PutBackKeeps ==
  ASSUME SampleInv, PutBack
  PROVE  SampleInv'
<1> DEFINE s == flush.failed \o buffer
           A == Range(SubSeq(s, 1, Excess(s)))
           F == Range(flush.failed)
           B == Range(buffer)
           C == Range(collector.points)
<1>1. /\ QueueInv /\ flush.pc = "writing" /\ flush.points = <<>> /\ flush.final \in BOOLEAN
      /\ EnforceBufferCap(s) /\ flush' = EndFlush(flush.final)
      /\ UNCHANGED <<process, collector, next, late, excused>>
  BY ZenonT(30) DEF SampleInv, QueueInv, FlushStates, PutBack
<1>2. /\ flush' \in FlushStates /\ flush'.pc = IF flush.final THEN "done" ELSE "sleeping"
      /\ flush'.points = <<>> /\ flush'.failed = <<>> /\ flush'.final = FALSE
  BY <1>1, EndedFlush, Zenon
<1>3. /\ Ordered(flush.failed) /\ Ordered(buffer) /\ Before(F, B) /\ Before(F \cup B, C)
      /\ Ordered(collector.points)
  BY Zenon DEF SampleInv, OrderInv, Unwritten, Before
<1>4. /\ Points \in SUBSET Nat /\ flush.failed \in Seq(Points) /\ buffer \in Seq(Points)
      /\ F \subseteq Points /\ B \subseteq Points /\ C \subseteq Points
  BY <1>1, HeldAreSamples, Zenon
<1>5. s \in Seq(Points) /\ Range(s) = F \cup B /\ Ordered(s) /\ Len(s) = Len(flush.failed) + Len(buffer)
  BY <1>3, <1>4, Concatenation, ZenonT(30)
<1>6. /\ buffer' \in Seq(Points) /\ Ordered(buffer') /\ Len(buffer') <= BufferCap
      /\ Range(s) = A \cup Range(buffer') /\ Before(A, Range(buffer'))
      /\ fate' = [fate EXCEPT !["dropped"] = @ \cup A]
      /\ Len(buffer') < BufferCap => Len(buffer') = Len(s) /\ A = {}
  <2> HIDE DEF s
  <2>1. QED
    BY <1>1, <1>4, <1>5, CapEnforced, ZenonT(30)
\* A buffer that overflowed meanwhile has no room for what comes back.
<1>7. Len(buffer) < BufferCap \/ Range(buffer') = B
  <2>1. Len(buffer) \in Nat /\ BufferCap \in Nat /\ Len(flush.failed) \in Nat
    BY <1>4, HistoryAssumption
  <2>2. CASE Len(buffer) = BufferCap
    <3>1. Excess(s) = Len(flush.failed)
      BY <1>5, <2>1, <2>2 DEF Excess
    <3>2. buffer' = SubSeq(s, Len(flush.failed) + 1, Len(s))
      BY <1>1, <3>1, ZenonT(30) DEF EnforceBufferCap
    <3>3. buffer' = buffer
      BY <1>4, <1>5, <3>2, BackOfTwo, ZenonT(30)
    <3>4. QED
      BY <3>3, Zenon
  <2>3. QED
    BY <2>1, <2>2 DEF SampleInv, CapInv
<1> HIDE DEF s, A, F, B, C
<1>8. A \subseteq F \cup B /\ Range(buffer') \subseteq F \cup B /\ A \cup Range(buffer') = F \cup B
  BY <1>5, <1>6, Zenon
<1>9. Unwritten' = Range(buffer') /\ Held' = Range(buffer') \cup C /\ Held = F \cup B \cup C
  BY <1>1, <1>2, RangeOfEmpty, ZenonT(30) DEF Unwritten, Held, C, F, B
<1>10. A \cap Held' = {}
  <2>1. A \cap Range(buffer') = {}
    BY <1>4, <1>6, <1>8, BeforeDisjoint
  <2>2. Before(A, C) /\ A \in SUBSET Nat /\ C \in SUBSET Nat
    BY <1>3, <1>4, <1>8, Zenon DEF Before
  <2>3. A \cap C = {}
    BY <2>2, BeforeDisjoint, ZenonT(30)
  <2>4. QED
    BY <1>9, <2>1, <2>3, ZenonT(30)
<1>11. Held = A \cup Held' /\ A \in SUBSET Points
  BY <1>4, <1>8, <1>9, ZenonT(30)
<1>12. AccountInv' /\ fate' \in [Fates -> SUBSET Points] /\ fate'["dropped"] = fate["dropped"] \cup A
  BY <1>1, <1>6, <1>10, <1>11, DroppedAccounted, Zenon
<1>13. QueueInv'
  BY <1>1, <1>2, <1>6, <1>12, Zenon DEF QueueInv, Fates
<1>14. OrderInv'
  <2>1. Before(Range(flush'.failed) \cup Range(flush'.points), Range(buffer'))
    BY <1>2, RangeOfEmpty, Zenon DEF Before
  <2>2. Before(Unwritten', Range(collector'.points))
    BY <1>1, <1>3, <1>8, <1>9, Zenon DEF Before, C
  <2>3. Before(Range(flush'.failed), Range(flush'.points))
    BY <1>2, RangeOfEmpty, Zenon DEF Before
  <2>4. QED
    BY <1>1, <1>2, <1>3, <1>6, <2>1, <2>2, <2>3, RangeOfEmpty, Zenon DEF OrderInv
<1>15. CapInv'
  <2>1. Before(fate["dropped"], B) /\ Before(fate["dropped"], C)
        /\ (Len(buffer) < BufferCap => Before(fate["dropped"], F))
    BY <1>1, Zenon DEF SampleInv, CapInv, Before, F, B, C
  <2>2. Before(fate["dropped"], Range(buffer'))
    BY <1>7, <1>8, <2>1, Zenon DEF Before
  <2>3. Before(A, C)
    BY <1>3, <1>8, Zenon DEF Before
  <2>4. Before(fate'["dropped"], Range(buffer') \cup Range(collector'.points))
    BY <1>1, <1>6, <1>12, <2>1, <2>2, <2>3, Zenon DEF Before, C
  <2>5. Before(fate'["dropped"], Range(flush'.failed) \cup Range(flush'.points))
    BY <1>2, RangeOfEmpty, Zenon DEF Before
  <2>6. QED
    BY <1>6, <2>4, <2>5, Zenon DEF CapInv
<1>16. StopInv'
  <2>1. flush.final /\ ~excused => F = {}
    BY RangeOfEmpty, Zenon DEF SampleInv, StopInv, F
  <2>2. flush.final => B \subseteq late
    BY Zenon DEF SampleInv, StopInv, B
  <2>3. flush.final /\ ~excused => Range(buffer') \subseteq late
    BY <1>8, <2>1, <2>2, ZenonT(30)
  <2>4. flush.final => process = "stopping"
    BY Zenon DEF SampleInv, StopInv
  <2>5. flush'.pc = "done" => flush.final
    BY <1>1, <1>2, Zenon
  <2>6. QED
    BY <1>1, <1>2, <2>3, <2>4, <2>5, Zenon DEF StopInv
<1>17. QED
  BY <1>12, <1>13, <1>14, <1>15, <1>16, Zenon DEF SampleInv

\* A stop that is over, or a kill: what memory held is lost.
LEMMA DeathLoses ==
  ASSUME SampleInv, Die, next' = next
  PROVE  SampleInv'
<1>1. /\ collector' = SleepingCollector /\ flush' = SleepingFlush /\ buffer' = <<>> /\ late' = {}
      /\ excused' = FALSE /\ fate' = [fate EXCEPT !["lost"] = @ \cup Held]
  BY ZenonT(30) DEF Die
<1>2. /\ collector' \in CollectorStates /\ collector'.points = <<>>
      /\ flush' \in FlushStates /\ flush'.points = <<>> /\ flush'.failed = <<>>
      /\ flush'.final = FALSE /\ flush'.pc = "sleeping" /\ buffer' \in Seq(Points) /\ Len(buffer') = 0
  BY <1>1 DEF SleepingCollector, SleepingFlush, CollectorStates, FlushStates
<1>3. Held' = {} /\ Unwritten' = {}
  BY <1>1, <1>2, RangeOfEmpty, ZenonT(30) DEF Held, Unwritten
<1>4. fate \in [Fates -> SUBSET Points] /\ Held \subseteq Points
  BY HeldAreSamples, Zenon DEF SampleInv, QueueInv, Fates, Held, Unwritten
<1>5. /\ fate' \in [Fates -> SUBSET Points] /\ fate'["written"] = fate["written"]
      /\ fate'["doubtful"] = fate["doubtful"] /\ fate'["dropped"] = fate["dropped"]
      /\ fate'["lost"] = fate["lost"] \cup Held
  BY <1>1, <1>4, ZenonT(30) DEF Fates
<1>6. QueueInv'
  BY <1>1, <1>2, <1>5, Zenon DEF SampleInv, QueueInv, Fates
<1>7. OrderInv'
  BY <1>1, <1>2, <1>3, RangeOfEmpty, Zenon DEF OrderInv, Before
<1>8. CapInv'
  <2>1. Len(buffer') <= BufferCap
    BY <1>2, HistoryAssumption
  <2>2. QED
    BY <1>1, <1>2, <2>1, RangeOfEmpty, Zenon DEF CapInv, Before
<1>9. AccountInv'
  <2>1. 1 .. next' - 1 = Held' \cup fate'["written"] \cup fate'["dropped"] \cup fate'["lost"]
    BY <1>3, <1>5, Accounts, ZenonT(30)
  <2>2. fate'["written"] \cap (Held' \cup fate'["dropped"] \cup fate'["lost"]) \subseteq fate'["doubtful"]
    BY <1>3, <1>5, Accounts, ZenonT(30)
  <2>3. Held' \cap (fate'["dropped"] \cup fate'["lost"]) = {}
    BY <1>3, ZenonT(30)
  <2>4. QED
    BY <2>1, <2>2, <2>3, Zenon DEF AccountInv, Accounted
<1>10. StopInv'
  BY <1>2, Zenon DEF StopInv
<1>11. QED
  BY <1>6, <1>7, <1>8, <1>9, <1>10, Zenon DEF SampleInv

\* No step loses track of a sample.
LEMMA SamplesHold ==
  ASSUME StorageInv, SampleInv, [Next]_vars
  PROVE  SampleInv'
<1>1. CASE UNCHANGED <<process, collector, flush, buffer, next, fate, late, excused>>
  <2>1. QueueInv' /\ StopInv'
    BY <1>1, Zenon DEF SampleInv, QueueInv, StopInv
  <2>2. QED
    BY <1>1, <2>1, SamplesStay, Zenon
<1>2. CASE Tick
  <2>1. /\ collector \in CollectorStates /\ collector.pc = "sleeping"
        /\ collector' = [collector EXCEPT !.pc = "ticked"]
        /\ UNCHANGED <<process, flush, buffer, next, fate, late, excused>>
    BY <1>2, Zenon DEF SampleInv, QueueInv, Tick
  <2>2. collector' \in CollectorStates /\ collector'.pc = "ticked" /\ collector'.points = collector.points
    BY <2>1, ZenonT(30) DEF CollectorStates
  <2>3. QueueInv'
    BY <2>1, <2>2, Zenon DEF SampleInv, QueueInv
  <2>4. StopInv'
    BY <2>1, Zenon DEF SampleInv, StopInv
  <2>5. QED
    BY <2>1, <2>2, <2>3, <2>4, SamplesStay, Zenon
<1>3. CASE TakeBackend
  <2>1. /\ flush \in FlushStates /\ flush.pc = "taken" /\ storage \in Databases \cup {Disabled}
        /\ flush' = [flush EXCEPT !.pc = "writing", !.backend = storage]
        /\ UNCHANGED <<process, collector, buffer, next, fate, late, excused>>
    BY <1>3, Zenon DEF StorageInv, SampleInv, QueueInv, TakeBackend
  <2>2. /\ flush' \in FlushStates /\ flush'.pc = "writing" /\ flush'.points = flush.points
        /\ flush'.failed = flush.failed /\ flush'.final = flush.final
    BY <2>1, ZenonT(30) DEF FlushStates
  <2>3. QueueInv'
    BY <2>1, <2>2, Zenon DEF SampleInv, QueueInv
  <2>4. StopInv'
    BY <2>1, <2>2, Zenon DEF SampleInv, StopInv
  <2>5. QED
    BY <2>1, <2>2, <2>3, <2>4, SamplesStay, Zenon
<1>4. CASE Stop
  <2>1. /\ process' = "stopping" /\ UNCHANGED <<collector, flush, buffer, next, fate, late, excused>>
    BY <1>4, Zenon DEF Stop
  <2>2. QueueInv' /\ StopInv'
    BY <2>1, Zenon DEF SampleInv, QueueInv, StopInv
  <2>3. QED
    BY <2>1, <2>2, SamplesStay, Zenon
<1>5. CASE Start
  <2>1. /\ process = "down" /\ UNCHANGED <<collector, flush, buffer, next, fate, late, excused>>
    BY <1>5, Zenon DEF Start
  <2>2. QueueInv' /\ StopInv'
    BY <2>1, Zenon DEF SampleInv, QueueInv, StopInv
  <2>3. QED
    BY <2>1, <2>2, SamplesStay, Zenon
<1>6. CASE JoinFlush \/ Crash
  BY <1>6, DeathLoses, Zenon DEF JoinFlush, Crash
<1>7. ASSUME NEW q \in Requests,
             (\E new \in Settings : UpdateStorage(q, new)) \/ ReconnectStorage(q) \/ RequestStep(q)
      PROVE  UNCHANGED <<process, collector, flush, buffer, next, fate, late, excused>>
  BY <1>7, ZenonT(30) DEF UpdateStorage, ReconnectStorage, RequestStep, SaveStorage, Apply, AbandonUpdate, Connect,
                          Install, ConnectFails
<1>8. UNCHANGED vars => UNCHANGED <<process, collector, flush, buffer, next, fate, late, excused>>
  BY Zenon DEF vars
<1>9. QED
  BY <1>1, <1>2, <1>3, <1>4, <1>5, <1>6, <1>7, <1>8, CollectKeeps, ExtendKeeps, FlushKeeps, WriteKeeps, WriteFailsKeeps,
     PutBackKeeps, Zenon DEF Next, CollectorStep, FlushStep

-----------------------------------------------------------------------------
(* The theorems *)

\* A fresh installation.
LEMMA InitHolds == Init => IInv
<1> SUFFICES ASSUME Init PROVE IInv
  OBVIOUS
<1>1. PICK d \in Embedded : stored = [enabled |-> TRUE, db |-> d] /\ settings = stored /\ storage = d
  BY ZenonT(30) DEF Init
<1>2. /\ process = "up" /\ request = [q \in Requests |-> IdleRequest] /\ collector = SleepingCollector
      /\ flush = SleepingFlush /\ buffer = <<>> /\ next = 1 /\ fate = [f \in Fates |-> {}] /\ late = {}
      /\ excused = FALSE /\ torn = FALSE /\ asked = 0 /\ faults = 0
  BY Zenon DEF Init, Fates
<1>3. stored \in Settings /\ stored.enabled /\ storage \in Databases
  BY <1>1, HistoryAssumption, ZenonT(30) DEF Settings
<1>4. IdleRequest \in RequestStates /\ IdleRequest.pc = "idle"
  BY ZenonT(30) DEF IdleRequest, RequestStates
<1>5. \A q \in Requests : request[q].pc = "idle"
  BY <1>2, <1>4, ZenonT(30)
<1>6. StorageInv
  <2>1. request \in [Requests -> RequestStates]
    BY <1>2, <1>4, ZenonT(30)
  <2>2. asked \in 0 .. MaxRequests /\ faults \in 0 .. MaxFaults
    BY <1>2, HistoryAssumption
  <2>3. QED
    BY <1>1, <1>2, <1>3, <2>1, <2>2, Zenon DEF StorageInv
<1>7. RequestInv
  BY <1>1, <1>3, <1>5 DEF RequestInv, Locks, DisabledStaysDisabled, SettingsAgree
<1>8. /\ collector \in CollectorStates /\ collector.points = <<>> /\ flush \in FlushStates
      /\ flush.points = <<>> /\ flush.failed = <<>> /\ flush.pc = "sleeping" /\ flush.final = FALSE
      /\ buffer \in Seq(Points) /\ Len(buffer) = 0
  BY <1>2 DEF SleepingCollector, SleepingFlush, CollectorStates, FlushStates
<1>9. Held = {} /\ Unwritten = {}
  BY <1>2, <1>8, RangeOfEmpty, ZenonT(30) DEF Held, Unwritten
<1>10. QueueInv
  <2>1. next \in 1 .. MaxPoints + 1
    BY <1>2, HistoryAssumption
  <2>2. fate \in [Fates -> SUBSET Points]
    BY <1>2, ZenonT(30)
  <2>3. QED
    BY <1>2, <1>8, <2>1, <2>2, Zenon DEF QueueInv, Fates
<1>11. OrderInv
  BY <1>2, <1>8, <1>9, RangeOfEmpty, Zenon DEF OrderInv, Before
<1>12. CapInv
  <2>1. Len(buffer) <= BufferCap
    BY <1>8, HistoryAssumption
  <2>2. QED
    BY <1>2, <1>8, <2>1, RangeOfEmpty, Zenon DEF CapInv, Before
<1>13. AccountInv
  BY <1>2, <1>9 DEF AccountInv, Accounted, Fates
<1>14. StopInv
  BY <1>8, Zenon DEF StopInv
<1>15. QED
  BY <1>6, <1>7, <1>10, <1>11, <1>12, <1>13, <1>14, Zenon DEF IInv

\* The inductive invariant.
LEMMA AlwaysHolds == Spec => []IInv
<1>1. ASSUME IInv, [Next]_vars
      PROVE  IInv'
  BY <1>1, SettingsHold, SamplesHold, Zenon DEF IInv, SampleInv
<1>2. QED
  BY <1>1, InitHolds, PTL DEF Spec

(***************************************************************************)
(* The running settings, the saved ones and the installed backend agree,   *)
(* with any number of update_storage and reconnect_storage requests at     *)
(* once, failing, abandoned or cut off by a stop.                          *)
(***************************************************************************)
THEOREM SettingsAlwaysInForce == Spec => []SettingsInForce
<1>1. ASSUME IInv
      PROVE  SettingsInForce
  <2>1. StorageInv /\ RequestInv /\ QueueInv
    BY <1>1, Zenon DEF IInv
  <2>2. /\ collector.pc \in {"sleeping", "ticked", "collected"}
        /\ flush.pc \in {"sleeping", "taken", "writing", "done"}
        /\ flush.backend \in Databases \cup {Disabled}
        /\ flush.size \in BatchSizes \cup {0} /\ flush.final \in BOOLEAN
    BY <2>1, ZenonT(30) DEF QueueInv, CollectorStates, FlushStates
  <2>3. \A s \in {collector.points, flush.points, flush.failed, buffer} : Range(s) \subseteq Points
    BY <2>1, HeldAreSamples, Zenon
  <2>4. TypeOK
    BY <2>1, <2>2, <2>3, Zenon DEF TypeOK, StorageInv, QueueInv, RequestStates
  <2>5. QED
    BY <2>1, <2>4, Zenon DEF SettingsInForce, RequestInv
<1>2. QED
  BY <1>1, AlwaysHolds, PTL

(***************************************************************************)
(* No sample disappears between the collector, flush_buffer and the        *)
(* backend: every one is accounted for, kept in order, and what            *)
(* enforce_buffer_cap or a stop costs is the oldest or came too late.      *)
(***************************************************************************)
THEOREM SamplesAlwaysKept == Spec => []SamplesKept
<1>1. ASSUME IInv
      PROVE  SamplesKept
  <2> DEFINE a == flush.failed \o flush.points
             b == a \o buffer
             c == b \o collector.points
  <2>1. SampleInv /\ QueueInv /\ OrderInv
    BY <1>1, Zenon DEF IInv, SampleInv
  <2>2. /\ Points \in SUBSET Nat /\ flush.failed \in Seq(Points) /\ flush.points \in Seq(Points)
        /\ buffer \in Seq(Points) /\ collector.points \in Seq(Points)
    BY <2>1, HeldAreSamples, Zenon
  <2>3. /\ Ordered(flush.failed) /\ Ordered(flush.points) /\ Ordered(buffer) /\ Ordered(collector.points)
        /\ Before(Range(flush.failed), Range(flush.points))
        /\ Before(Range(flush.failed) \cup Range(flush.points), Range(buffer))
        /\ Before(Range(flush.failed) \cup Range(flush.points) \cup Range(buffer), Range(collector.points))
    BY <2>1, Zenon DEF OrderInv, Unwritten
  <2>4. a \in Seq(Points) /\ Range(a) = Range(flush.failed) \cup Range(flush.points) /\ Ordered(a)
    BY <2>2, <2>3, Concatenation, ZenonT(30)
  <2>5. b \in Seq(Points) /\ Range(b) = Range(a) \cup Range(buffer) /\ Ordered(b)
    <3> HIDE DEF a
    <3>1. QED
      BY <2>2, <2>3, <2>4, Concatenation, Zenon
  <2>6. Ordered(c)
    <3>1. Before(Range(b), Range(collector.points))
      BY <2>3, <2>4, <2>5, Zenon
    <3> HIDE DEF a, b
    <3>2. QED
      BY <2>2, <2>3, <2>5, <3>1, Concatenation, Zenon
  <2>7. HeldInOrder
    BY <2>6, Zenon DEF HeldInOrder, Ordered
  <2>8. Accounted /\ KeepsNewest
    BY <2>1, Zenon DEF SampleInv, AccountInv, CapInv, KeepsNewest, Before
  <2>9. StopLosesOnlyLate
    <3>1. flush.pc = "done" => flush.points = <<>> /\ flush.failed = <<>>
      BY <2>1, Zenon DEF QueueInv
    <3>2. flush.pc = "done" => Unwritten = Range(buffer)
      BY <3>1, RangeOfEmpty, ZenonT(30) DEF Unwritten
    <3>3. QED
      BY <2>1, <3>2, Zenon DEF StopLosesOnlyLate, SampleInv, StopInv
  <2>10. QED
    BY <2>7, <2>8, <2>9, Zenon DEF SamplesKept
<1>2. QED
  BY <1>1, AlwaysHolds, PTL
=============================================================================
