--------------------------- MODULE IoPlaneProofs ---------------------------
(***************************************************************************)
(* Proofs about how io fills the data plane: the slot its task writes and  *)
(* everybody reads (PointSlot), and the task itself (ChannelTask).         *)
(*                                                                         *)
(* The slot.  The seqlock's guarantee for every counter width, every       *)
(* number of words, readers and writes, given the single writer the        *)
(* architecture mandates: reads are fresh always, and untorn until a       *)
(* writer is killed in set().                                              *)
(*                                                                         *)
(* The task.  For every reconnection policy, every capacity of the queues  *)
(* and every number of faults and requests, a channel's task bounds its    *)
(* effort and reports its failure and its connection truthfully.  The      *)
(* bound on the attempts needs what was spent in earlier rounds            *)
(* (EffortInv); the honest report needs that nobody reports a failure      *)
(* while an attempt is under way, from its backoff to its end (HelperInv); *)
(* and prev_online can only agree with the health plane because a new task *)
(* starts without one (HealthInv).                                         *)
(***************************************************************************)
EXTENDS PointSlot, ChannelTask, TLAPS

(***************************************************************************)
(* Arithmetic of counters that wrap (the u32 sequence of a point slot):    *)
(* what their value says of the number of increments behind it.            *)
(***************************************************************************)
\* Quotient and remainder of a natural number.
LEMMA DivMod ==
  ASSUME NEW m \in Nat, m > 0, NEW a \in Nat
  PROVE  /\ a \div m \in Nat
         /\ a % m \in 0 .. m - 1
         /\ a = m * (a \div m) + (a % m)
  OBVIOUS

\* The only multiple of m in 0 .. m - 1 is zero.
LEMMA MultipleBelow ==
  ASSUME NEW m \in Nat, m > 0, NEW k \in Int, 0 <= m * k, m * k < m
  PROVE  k = 0
<1>1. CASE k >= 1
  <2>1. m * k >= m BY <1>1, SMTT(30)
  <2> QED BY <2>1
<1>2. CASE k <= -1
  <2>1. m * k <= -m BY <1>2, SMTT(30)
  <2> QED BY <2>1
<1> QED BY <1>1, <1>2

\* The remainder is the only one that fits.
LEMMA ModUnique ==
  ASSUME NEW m \in Nat, m > 0, NEW x \in Nat, NEW q \in Nat,
         NEW r \in 0 .. m - 1, x = m * q + r
  PROVE  x % m = r
  OBVIOUS

\* Two counts less than one lap apart with the same counter value are equal.
LEMMA CounterUnique ==
  ASSUME NEW m \in Nat, m > 0, NEW a \in Nat, NEW b \in Nat,
         a <= b, b < a + m, a % m = b % m
  PROVE  a = b
<1> DEFINE qa == a \div m
           qb == b \div m
<1>1. qa \in Nat /\ qb \in Nat BY DivMod
<1>2. a = m * qa + (a % m) /\ b = m * qb + (b % m) BY DivMod
<1>3. (a % m) \in Nat BY DivMod
<1> HIDE DEF qa, qb
<1>4. m * (qb - qa) = m * qb - m * qa BY <1>1, SMTT(30)
<1>5. b - a = m * (qb - qa) BY <1>1, <1>2, <1>3, <1>4
<1>6. qb - qa = 0 BY <1>1, <1>5, MultipleBelow
<1> QED BY <1>5, <1>6

\* A wrapping increment counts: fetch_add on the stored value.
LEMMA BumpMod ==
  ASSUME NEW m \in Nat, m > 0, NEW x \in Nat
  PROVE  ((x % m) + 1) % m = (x + 1) % m
<1> DEFINE q == x \div m
           r == x % m
<1>1. q \in Nat /\ r \in 0 .. m - 1 /\ x = m * q + r BY DivMod
<1> HIDE DEF q, r
<1>2. CASE r + 1 < m
  <2>1. r + 1 \in 0 .. m - 1 /\ x + 1 = m * q + (r + 1) BY <1>1, <1>2
  <2>2. (x + 1) % m = r + 1 BY <2>1, <1>1, ModUnique
  <2>3. (r + 1) % m = r + 1 BY <2>1, <1>1, ModUnique
  <2> QED BY <2>2, <2>3 DEF r
<1>3. CASE r + 1 = m
  <2>1. m * (q + 1) = m * q + m BY <1>1, SMTT(30)
  <2>2. x + 1 = m * (q + 1) + 0 BY <1>1, <1>3, <2>1
  <2>3. (x + 1) % m = 0 BY <2>2, <1>1, ModUnique
  <2>4. r + 1 = m * 1 + 0 BY <1>1, <1>3
  <2>5. (r + 1) % m = 0 BY <2>4, <1>1, ModUnique
  <2> QED BY <2>3, <2>5 DEF r
<1> QED BY <1>1, <1>2, <1>3

\* A counter of even width keeps the parity of the count.
LEMMA Parity ==
  ASSUME NEW m \in Nat, m > 0, m % 2 = 0, NEW x \in Nat
  PROVE  (x % m) % 2 = x % 2
<1> DEFINE q == x \div m
           r == x % m
           h == m \div 2
<1>1. q \in Nat /\ r \in 0 .. m - 1 /\ x = m * q + r BY DivMod
<1>2. h \in Nat /\ m = 2 * h OBVIOUS
<1> HIDE DEF q, r, h
<1>3. m * q = 2 * (h * q) /\ h * q \in Nat BY <1>1, <1>2, SMTT(30)
<1> DEFINE k == h * q
<1>4. k \in Nat /\ x = 2 * k + r BY <1>1, <1>3
<1> HIDE DEF k
<1>5. x % 2 = r % 2 BY <1>1, <1>4
<1> QED BY <1>5 DEF r
-----------------------------------------------------------------------------
\* The architecture gives every slot one writing process.
SingleWriter == \E w : Writers = {w}

(***************************************************************************)
(* The invariant while no writer was killed.  With one writer the counter is a function of  *)
(* the calls begun and ended; a word not yet stored by the running call    *)
(* holds the previous one; and a read under way only has words of calls    *)
(* between the last one that had ended when it began and the running one.  *)
(***************************************************************************)
WriterInv ==
  \A w \in Writers :
    /\ writer[w].pc = "idle" =>
         begun = ended /\ \A f \in Fields : field[f] = ended
    /\ writer[w].pc = "store" =>
         /\ begun = ended + 1
         /\ writer[w].call = begun
         /\ \A f \in Fields :
              field[f] = IF f \in writer[w].pending THEN ended ELSE begun

ReaderInv ==
  \A r \in Readers :
    /\ reader[r].pc = "load" =>
         /\ reader[r].seq1 = (2 * reader[r].since) % SeqModulus
         /\ reader[r].since <= ended
         /\ 2 * begun < 2 * reader[r].since + SeqModulus
         /\ \A f \in Fields \ reader[r].todo :
              reader[r].since <= reader[r].got[f] /\ reader[r].got[f] <= begun
    /\ reader[r].pc = "some" =>
         \A f \in Fields : reader[r].got[f] = reader[r].since

(***************************************************************************)
(* What a killed writer leaves true: no word is older than the last call   *)
(* that returned, and the running call is the newest.                      *)
(***************************************************************************)
FreshInv ==
  /\ ended <= begun
  /\ \A f \in Fields : ended <= field[f]
  /\ \A w \in Writers :
       writer[w].pc = "store" =>
         /\ writer[w].call = begun
         /\ \A f \in Fields \ writer[w].pending : begun <= field[f]
  /\ \A r \in Readers :
       /\ reader[r].pc = "load" => reader[r].since <= ended
       /\ reader[r].pc \in {"load", "some"} =>
            \A f \in Fields \ reader[r].todo : reader[r].since <= reader[r].got[f]
       /\ reader[r].pc = "some" => reader[r].todo = {}

SlotInv ==
  /\ SlotTypeOK
  /\ crashes = 0
  /\ seq = (begun + ended) % SeqModulus
  /\ WriterInv
  /\ ReaderInv

-----------------------------------------------------------------------------
LEMMA InitSlotInv ==
  ASSUME SlotInit
  PROVE  SlotInv
<1> USE SeqModulusAssumption
<1>1. 0 % SeqModulus = 0
  BY ModUnique
<1>2. SlotTypeOK
  BY <1>1 DEF SlotInit, SlotTypeOK, IdleWriter, IdleReader, WriterStates, ReaderStates
<1> QED
  BY <1>1, <1>2 DEF SlotInit, SlotInv, WriterInv, ReaderInv, IdleWriter, IdleReader

\* Every bump of the counter keeps it equal to the calls begun and ended.
LEMMA BumpCounts ==
  ASSUME SlotTypeOK, seq = (begun + ended) % SeqModulus
  PROVE  /\ Bump(seq) = (begun + ended + 1) % SeqModulus
         /\ Bump(seq) \in 0 .. SeqModulus - 1
<1>1. begun + ended \in Nat
  BY DEF SlotTypeOK
<1>2. Bump(seq) = (begun + ended + 1) % SeqModulus
  BY <1>1, SeqModulusAssumption, BumpMod, Zenon DEF Bump
<1> QED
  BY <1>1, <1>2, SeqModulusAssumption, DivMod

LEMMA StepSlotInv ==
  ASSUME SingleWriter, SlotInv, [SlotNext]_slotVars, crashes' = 0
  PROVE  SlotInv'
<1> USE SeqModulusAssumption, BoundsAssumption
<1> USE DEF SlotInv
<1>0. PICK w0 : Writers = {w0}
  BY Zenon DEF SingleWriter
<1>1. ASSUME NEW w \in Writers, SetBegin(w)
      PROVE  SlotInv'
  <2>1. /\ Bump(seq) = (begun + ended + 1) % SeqModulus
        /\ Bump(seq) \in 0 .. SeqModulus - 1
    BY BumpCounts
  <2>2. SlotTypeOK'
    BY <1>1, <2>1 DEF SetBegin, SlotTypeOK, WriterStates, NoReaderLapped
  <2>3. WriterInv'
    BY <1>0, <1>1 DEF SetBegin, WriterInv, SlotTypeOK, WriterStates
  <2>4. ReaderInv'
    BY <1>1 DEF SetBegin, ReaderInv, NoReaderLapped, SlotTypeOK, ReaderStates
  <2>5. seq' = (begun' + ended') % SeqModulus
    BY <1>1, <2>1 DEF SetBegin, SlotTypeOK
  <2> QED
    BY <1>1, <2>2, <2>3, <2>4, <2>5 DEF SetBegin
<1>2. ASSUME NEW w \in Writers, NEW f \in Fields, SetStore(w, f)
      PROVE  SlotInv'
  <2>1. SlotTypeOK'
    BY <1>2 DEF SetStore, SlotTypeOK, WriterStates
  <2>2. WriterInv'
    BY <1>0, <1>2 DEF SetStore, WriterInv, SlotTypeOK, WriterStates
  <2>3. ReaderInv'
    BY <1>2 DEF SetStore, ReaderInv
  <2> QED
    BY <1>2, <2>1, <2>2, <2>3 DEF SetStore
<1>3. ASSUME NEW w \in Writers, SetEnd(w)
      PROVE  SlotInv'
  <2>1. /\ Bump(seq) = (begun + ended + 1) % SeqModulus
        /\ Bump(seq) \in 0 .. SeqModulus - 1
    BY BumpCounts
  <2>2. begun' = begun /\ ended' = begun /\ begun = ended + 1
    BY <1>3 DEF SetEnd, WriterInv
  <2>3. SlotTypeOK'
    BY <1>3, <2>1, <2>2 DEF SetEnd, SlotTypeOK, WriterStates, IdleWriter
  <2>4. WriterInv'
    BY <1>0, <1>3, <2>2 DEF SetEnd, WriterInv, SlotTypeOK, WriterStates, IdleWriter
  <2>5. ReaderInv'
    BY <1>3, <2>2 DEF SetEnd, ReaderInv, SlotTypeOK, ReaderStates
  <2>6. seq' = (begun' + ended') % SeqModulus
    BY <1>3, <2>1, <2>2 DEF SetEnd, SlotTypeOK
  <2> QED
    BY <1>3, <2>3, <2>4, <2>5, <2>6 DEF SetEnd
<1>4. ASSUME NEW w \in Writers, Crash(w)
      PROVE  SlotInv'
  BY <1>4 DEF Crash
<1>5. ASSUME NEW r \in Readers, LoadBegin(r)
      PROVE  SlotInv'
  <2>1. WriterInv'
    BY <1>5 DEF LoadBegin, WriterInv
  <2>2. CASE Odd(seq)
    <3> DEFINE none == [IdleReader EXCEPT !.pc = "none"]
    <3>1. reader' = [reader EXCEPT ![r] = none]
      BY <1>5, <2>2 DEF LoadBegin
    <3>2. none \in ReaderStates /\ none.pc = "none"
      BY DEF ReaderStates, IdleReader
    <3> HIDE DEF none
    <3>3. SlotTypeOK'
      BY <1>5, <3>1, <3>2 DEF LoadBegin, SlotTypeOK
    <3>4. UNCHANGED <<begun, ended>>
      BY <1>5 DEF LoadBegin
    <3>5. ReaderInv'
      BY <3>1, <3>2, <3>4 DEF ReaderInv, SlotTypeOK, ReaderStates
    <3> QED
      BY <1>5, <2>1, <3>3, <3>5 DEF LoadBegin
  <2>3. CASE ~Odd(seq)
    <3> DEFINE load == [IdleReader EXCEPT !.pc = "load", !.seq1 = seq,
                                          !.since = ended, !.todo = Fields]
    <3>1. (begun + ended) % 2 # 1
      BY <2>3, Parity, SMTT(60) DEF Odd, SlotTypeOK
    <3>2. begun = ended
      BY <1>0, <3>1 DEF WriterInv, SlotTypeOK, WriterStates
    <3>3. seq = (2 * ended) % SeqModulus
      BY <3>2 DEF SlotTypeOK
    <3>4. reader' = [reader EXCEPT ![r] = load]
      BY <1>5, <2>3 DEF LoadBegin
    <3>5. /\ load \in ReaderStates
          /\ load.pc = "load" /\ load.seq1 = seq
          /\ load.since = ended /\ load.todo = Fields
      BY Zenon DEF ReaderStates, IdleReader, SlotTypeOK
    <3> HIDE DEF load
    <3>6. SlotTypeOK'
      BY <1>5, <3>4, <3>5 DEF LoadBegin, SlotTypeOK
    <3>7. UNCHANGED <<begun, ended>>
      BY <1>5 DEF LoadBegin
    <3>8. 2 * begun < 2 * ended + SeqModulus
      BY <3>2 DEF SlotTypeOK
    <3>9. ReaderInv'
      BY <3>3, <3>4, <3>5, <3>7, <3>8 DEF ReaderInv, SlotTypeOK
    <3> QED
      BY <1>5, <2>1, <3>6, <3>9 DEF LoadBegin
  <2> QED
    BY <2>2, <2>3
<1>6. ASSUME NEW r \in Readers, NEW f \in Fields, LoadField(r, f)
      PROVE  SlotInv'
  <2> DEFINE rd == [reader[r] EXCEPT !.todo = @ \ {f}, !.got[f] = field[f]]
  <2>1. reader' = [reader EXCEPT ![r] = rd]
    BY <1>6, Zenon DEF LoadField, SlotTypeOK
  <2>2. reader[r] \in ReaderStates /\ reader[r].pc = "load" /\ field[f] \in Nat
    BY <1>6 DEF LoadField, SlotTypeOK
  <2>3. /\ rd \in ReaderStates
        /\ rd.pc = "load" /\ rd.seq1 = reader[r].seq1 /\ rd.since = reader[r].since
        /\ rd.todo = reader[r].todo \ {f}
        /\ rd.got = [reader[r].got EXCEPT ![f] = field[f]]
    BY <2>2, Zenon DEF ReaderStates
  <2> HIDE DEF rd
  <2>4. SlotTypeOK'
    BY <1>6, <2>1, <2>3, ZenonT(60) DEF LoadField, SlotTypeOK
  <2>5. WriterInv'
    BY <1>6 DEF LoadField, WriterInv
  <2>6. ended <= field[f] /\ field[f] <= begun
    BY <1>0, <1>6 DEF WriterInv, SlotTypeOK, WriterStates
  <2>7. ReaderInv'
    BY <1>6, <2>1, <2>2, <2>3, <2>6 DEF LoadField, ReaderInv, SlotTypeOK, ReaderStates
  <2> QED
    BY <1>6, <2>4, <2>5, <2>7 DEF LoadField
<1>7. ASSUME NEW r \in Readers, LoadEnd(r)
      PROVE  SlotInv'
  <2>1. WriterInv'
    BY <1>7 DEF LoadEnd, WriterInv
  <2>2. CASE seq = reader[r].seq1
    <3> DEFINE s == reader[r].since
    <3>1. s \in Nat /\ begun \in Nat /\ ended \in Nat
      BY DEF SlotTypeOK, ReaderStates
    <3>2. ended <= begun
      BY <1>0 DEF WriterInv, SlotTypeOK, WriterStates
    <3>3. /\ seq = (2 * s) % SeqModulus
          /\ s <= ended
          /\ 2 * begun < 2 * s + SeqModulus
      BY <1>7, <2>2 DEF LoadEnd, ReaderInv
    <3> HIDE DEF s
    <3>4. /\ 2 * s \in Nat /\ begun + ended \in Nat
          /\ 2 * s <= begun + ended /\ begun + ended < 2 * s + SeqModulus
      BY <3>1, <3>2, <3>3
    <3>5. (2 * s) % SeqModulus = (begun + ended) % SeqModulus
      BY <3>3
    <3>6. 2 * s = begun + ended
      BY <3>4, <3>5, CounterUnique, Zenon
    <3>7. begun = s
      BY <3>1, <3>2, <3>3, <3>6
    <3>8. reader' = [reader EXCEPT ![r].pc = "some"]
      BY <1>7, <2>2, Zenon DEF LoadEnd
    <3>9. SlotTypeOK'
      BY <1>7, <3>8, SMTT(60) DEF LoadEnd, SlotTypeOK, ReaderStates
    <3>10. ReaderInv'
      BY <1>7, <3>7, <3>8 DEF LoadEnd, ReaderInv, SlotTypeOK, ReaderStates, s
    <3> QED
      BY <1>7, <2>1, <3>9, <3>10 DEF LoadEnd
  <2>3. CASE seq # reader[r].seq1
    <3>1. reader' = [reader EXCEPT ![r].pc = "none"]
      BY <1>7, <2>3 DEF LoadEnd
    <3>2. SlotTypeOK'
      BY <1>7, <3>1, SMTT(60) DEF LoadEnd, SlotTypeOK, ReaderStates
    <3>3. ReaderInv'
      BY <1>7, <3>1 DEF LoadEnd, ReaderInv, SlotTypeOK, ReaderStates
    <3> QED
      BY <1>7, <2>1, <3>2, <3>3 DEF LoadEnd
  <2> QED
    BY <2>2, <2>3
<1>8. CASE UNCHANGED slotVars
  BY <1>8 DEF slotVars, SlotTypeOK, WriterInv, ReaderInv
<1> QED
  BY <1>1, <1>2, <1>3, <1>4, <1>5, <1>6, <1>7, <1>8 DEF SlotNext, Set, Load

-----------------------------------------------------------------------------
LEMMA InitFreshInv ==
  ASSUME SlotInit
  PROVE  SlotTypeOK /\ FreshInv
<1>1. SlotTypeOK
  BY InitSlotInv DEF SlotInv
<1> QED
  BY <1>1 DEF SlotInit, FreshInv, IdleWriter, IdleReader

LEMMA StepFreshInv ==
  ASSUME SingleWriter, SlotTypeOK, FreshInv, [SlotNext]_slotVars
  PROVE  SlotTypeOK' /\ FreshInv'
<1> USE SeqModulusAssumption, BoundsAssumption
<1>0. PICK w0 : Writers = {w0}
  BY SMTT(60) DEF SingleWriter
<1>b. Bump(seq) \in 0 .. SeqModulus - 1
  BY DivMod DEF SlotTypeOK, Bump
<1>1. ASSUME NEW w \in Writers, SetBegin(w)
      PROVE  SlotTypeOK' /\ FreshInv'
  <2>1. SlotTypeOK'
    BY <1>1, <1>b DEF SetBegin, SlotTypeOK, WriterStates, NoReaderLapped
  <2>2. FreshInv'
    BY <1>0, <1>1 DEF SetBegin, FreshInv, SlotTypeOK, WriterStates
  <2> QED
    BY <2>1, <2>2
<1>2. ASSUME NEW w \in Writers, NEW f \in Fields, SetStore(w, f)
      PROVE  SlotTypeOK' /\ FreshInv'
  <2>1. SlotTypeOK'
    BY <1>2 DEF SetStore, SlotTypeOK, WriterStates
  <2>2. FreshInv'
    BY <1>0, <1>2 DEF SetStore, FreshInv, SlotTypeOK, WriterStates
  <2> QED
    BY <2>1, <2>2
<1>3. ASSUME NEW w \in Writers, SetEnd(w)
      PROVE  SlotTypeOK' /\ FreshInv'
  <2>1. SlotTypeOK'
    BY <1>3, <1>b DEF SetEnd, SlotTypeOK, WriterStates, IdleWriter
  <2>2. FreshInv'
    BY <1>0, <1>3 DEF SetEnd, FreshInv, SlotTypeOK, WriterStates, ReaderStates, IdleWriter
  <2> QED
    BY <2>1, <2>2
<1>4. ASSUME NEW w \in Writers, Crash(w)
      PROVE  SlotTypeOK' /\ FreshInv'
  <2>1. SlotTypeOK'
    BY <1>4 DEF Crash, SlotTypeOK, WriterStates, IdleWriter
  <2>2. FreshInv'
    BY <1>0, <1>4 DEF Crash, FreshInv, SlotTypeOK, WriterStates, IdleWriter
  <2> QED
    BY <2>1, <2>2
<1>5. ASSUME NEW r \in Readers, LoadBegin(r)
      PROVE  SlotTypeOK' /\ FreshInv'
  <2> DEFINE rd == IF Odd(seq)
                     THEN [IdleReader EXCEPT !.pc = "none"]
                     ELSE [IdleReader EXCEPT !.pc = "load", !.seq1 = seq,
                                             !.since = ended, !.todo = Fields]
  <2>1. reader' = [reader EXCEPT ![r] = rd] /\ UNCHANGED <<seq, field, writer, begun, ended, crashes>>
    BY <1>5 DEF LoadBegin
  <2>2. /\ rd \in ReaderStates
        /\ rd.pc # "some"
        /\ rd.pc = "load" => rd.since = ended /\ rd.todo = Fields
    <3>1. CASE Odd(seq)
      BY <3>1 DEF ReaderStates, IdleReader
    <3>2. CASE ~Odd(seq)
      BY <3>2, Zenon DEF ReaderStates, IdleReader, SlotTypeOK
    <3> QED
      BY <3>1, <3>2
  <2> HIDE DEF rd
  <2>3. SlotTypeOK'
    BY <2>1, <2>2 DEF SlotTypeOK
  <2>4. FreshInv'
    BY <2>1, <2>2 DEF FreshInv, SlotTypeOK
  <2> QED
    BY <2>3, <2>4
<1>6. ASSUME NEW r \in Readers, NEW f \in Fields, LoadField(r, f)
      PROVE  SlotTypeOK' /\ FreshInv'
  <2> DEFINE rd == [reader[r] EXCEPT !.todo = @ \ {f}, !.got[f] = field[f]]
  <2>1. reader' = [reader EXCEPT ![r] = rd] /\ UNCHANGED <<seq, field, writer, begun, ended, crashes>>
    BY <1>6, Zenon DEF LoadField, SlotTypeOK
  <2>2. reader[r] \in ReaderStates /\ reader[r].pc = "load" /\ field[f] \in Nat
    BY <1>6 DEF LoadField, SlotTypeOK
  <2>3. /\ rd \in ReaderStates
        /\ rd.pc = "load" /\ rd.since = reader[r].since
        /\ rd.todo = reader[r].todo \ {f}
        /\ rd.got = [reader[r].got EXCEPT ![f] = field[f]]
    BY <2>2, Zenon DEF ReaderStates
  <2> HIDE DEF rd
  <2>4. SlotTypeOK'
    BY <2>1, <2>3 DEF SlotTypeOK
  <2>5. reader[r].since <= field[f]
    BY <2>2 DEF FreshInv, SlotTypeOK, ReaderStates
  <2>6. FreshInv'
    BY <2>1, <2>2, <2>3, <2>5 DEF FreshInv, SlotTypeOK, ReaderStates
  <2> QED
    BY <2>4, <2>6
<1>7. ASSUME NEW r \in Readers, LoadEnd(r)
      PROVE  SlotTypeOK' /\ FreshInv'
  <2>1. SlotTypeOK'
    BY <1>7 DEF LoadEnd, SlotTypeOK, ReaderStates
  <2>2. FreshInv'
    BY <1>7 DEF LoadEnd, FreshInv, SlotTypeOK, ReaderStates
  <2> QED
    BY <2>1, <2>2
<1>8. CASE UNCHANGED slotVars
  BY <1>8 DEF slotVars, SlotTypeOK, FreshInv
<1> QED
  BY <1>1, <1>2, <1>3, <1>4, <1>5, <1>6, <1>7, <1>8 DEF SlotNext, Set, Load

\* A killed writer is never forgotten.
LEMMA CrashesStay ==
  ASSUME SlotTypeOK, [SlotNext]_slotVars, crashes' = 0
  PROVE  crashes = 0
<1>1. ASSUME NEW w \in Writers, Set(w)
      PROVE  crashes = 0
  BY <1>1 DEF Set, SetBegin, SetStore, SetEnd
<1>2. ASSUME NEW w \in Writers
      PROVE  ~Crash(w)
  BY DEF Crash, SlotTypeOK
<1>3. ASSUME NEW r \in Readers, Load(r)
      PROVE  crashes = 0
  BY <1>3, Zenon DEF Load, LoadBegin, LoadField, LoadEnd
<1>4. CASE UNCHANGED slotVars
  BY <1>4 DEF slotVars
<1> QED
  BY <1>1, <1>2, <1>3, <1>4 DEF SlotNext

(***************************************************************************)
(* The invariants of every behaviour of a slot with one writing process:   *)
(* the fresh one always, the seqlock's until a writer is killed in set().  *)
(***************************************************************************)
THEOREM SlotInvariant ==
  ASSUME SingleWriter
  PROVE  SlotSpec => [](SlotTypeOK /\ FreshInv /\ (crashes = 0 => SlotInv))
<1> DEFINE I == SlotTypeOK /\ FreshInv /\ (crashes = 0 => SlotInv)
<1>1. SlotInit => I
  BY InitSlotInv, InitFreshInv
<1>2. I /\ [SlotNext]_slotVars => I'
  BY StepSlotInv, StepFreshInv, CrashesStay
<1> QED
  BY <1>1, <1>2, PTL DEF SlotSpec

(***************************************************************************)
(* Until a writer is killed inside set(), try_load_consistent never        *)
(* returns the words of two set() calls, however many readers and words    *)
(* there are and wherever the counter wraps.                               *)
(***************************************************************************)
THEOREM SlotNeverTorn ==
  ASSUME SingleWriter
  PROVE  SlotSpec => []NoTornRead
<1>1. (crashes = 0 => SlotInv) => NoTornRead
  BY DEF SlotInv, ReaderInv, NoTornRead, ConsistentReads
<1> QED
  BY <1>1, SlotInvariant, PTL

(***************************************************************************)
(* try_load_consistent never returns a word older than the last set() that *)
(* had returned when the read began, writers killed inside set() included. *)
(***************************************************************************)
THEOREM SlotAlwaysFresh ==
  ASSUME SingleWriter
  PROVE  SlotSpec => []FreshRead
<1>1. SlotTypeOK /\ FreshInv => FreshRead
  BY DEF FreshInv, FreshRead, SlotTypeOK, ReaderStates
<1> QED
  BY <1>1, SlotInvariant, PTL

(***************************************************************************)
(* Until a writer is killed inside set(), the counter is odd exactly while *)
(* set() runs, so a slot nobody is writing can be read at once.            *)
(***************************************************************************)
THEOREM SlotIdleReadable ==
  ASSUME SingleWriter
  PROVE  SlotSpec => []IdleSlotReadable
<1>1. (crashes = 0 => SlotInv) => IdleSlotReadable
  <2> SUFFICES ASSUME SlotInv
               PROVE  Odd(seq) <=> \E w \in Writers : writer[w].pc = "store"
    BY DEF IdleSlotReadable
  <2>0. PICK w0 : Writers = {w0}
    BY DEF SingleWriter
  <2>1. seq % 2 = (begun + ended) % 2
    BY SeqModulusAssumption, Parity DEF SlotInv, SlotTypeOK
  <2> QED
    BY <2>0, <2>1 DEF SlotInv, WriterInv, Odd, SlotTypeOK, WriterStates
<1> QED
  BY <1>1, SlotInvariant, PTL

-----------------------------------------------------------------------------
Trying == {"backoff", "connecting", "backoffCommanding"}

HelperStates == {"Connected", "Disconnected", "Reconnecting", "Failed"}
Helpers == [state : HelperStates, attempt : Nat, rounds : 0 .. MaxRounds]

LinkInv ==
    /\ eventDriven \in BOOLEAN /\ writable \in BOOLEAN
    /\ task \in Running \union {"absent", "exited", "aborted"}
    /\ phase \in {"idle", "connect", "start"} /\ (phase # "idle" <=> task \in Connecting)
    /\ proto \in BOOLEAN /\ streaming \in BOOLEAN /\ (streaming => proto)

HelperInv ==
    /\ helper \in Helpers /\ retried \in BOOLEAN /\ failed \in BOOLEAN
    /\ task \in Trying => helper.state = "Reconnecting"
    /\ FailureReportHonest

EffortInv ==
    /\ tries \in Nat
    /\ MaxAttempts > 0 => /\ helper.attempt <= MaxAttempts
                          /\ tries <= MaxAttempts * helper.rounds + helper.attempt

HealthInv ==
    /\ cached \in BOOLEAN /\ online \in BOOLEAN /\ missed \in BOOLEAN
    /\ prev \in {<<>>, <<TRUE>>, <<FALSE>>}
    /\ task = "starting" => prev = <<>>
    /\ HealthPlaneTracked

QueueInv ==
    /\ commands \in Seq({"connect", "disconnect", "log", "shutdown"}) /\ Len(commands) <= QueueCapacity
    /\ events \in Seq(BOOLEAN) /\ Len(events) <= EventCapacity
    /\ zero \in Nat /\ (zero = 0 \/ zero < ZeroThreshold)
    /\ caller \in {"idle", "waiting", "removing", "joining"}
    /\ faults \in 0 .. MaxFaults /\ requests \in 0 .. MaxRequests

IInv == LinkInv /\ HelperInv /\ EffortInv /\ HealthInv /\ QueueInv

-----------------------------------------------------------------------------
(* The connection *)

\* Steps that leave the connection alone or end it.
LEMMA LinkMoves ==
  ASSUME LinkInv, UNCHANGED eventDriven, writable' \in BOOLEAN,
         UNCHANGED <<proto, streaming>> \/ (proto' = FALSE /\ streaming' = FALSE),
         \/ task' \in (Running \ Connecting) \union {"absent", "exited", "aborted"} /\ phase' = "idle"
         \/ task' \in Connecting /\ phase' = "connect"
         \/ UNCHANGED <<task, phase>>
  PROVE  LinkInv'
<1>1. proto' \in BOOLEAN /\ streaming' \in BOOLEAN /\ (streaming' => proto')
  <2>1. CASE UNCHANGED <<proto, streaming>>
    BY <2>1 DEF LinkInv
  <2>2. CASE proto' = FALSE /\ streaming' = FALSE
    BY <2>2, ZenonT(30)
  <2>3. QED
    BY <2>1, <2>2, ZenonT(30)
<1>2. /\ task' \in Running \union {"absent", "exited", "aborted"}
      /\ phase' \in {"idle", "connect", "start"} /\ (phase' # "idle" <=> task' \in Connecting)
  BY DEF LinkInv, Running, Connecting
<1>3. QED
  BY <1>1, <1>2 DEF LinkInv

LEMMA LinkKept ==
  ASSUME LinkInv, [Next]_vars
  PROVE  LinkInv'
<1> USE DEF setting, link
<1>1. CASE ActivateNew \/ TaskAborted \/ Exit
  BY <1>1, LinkMoves, ZenonT(30) DEF ActivateNew, TaskAborted, Exit, LinkInv, Running, Connecting
<1>2. ASSUME NEW ok \in BOOLEAN, ConnectEnds(ok), streaming' \in BOOLEAN, streaming' => ok
      PROVE  LinkInv'
  BY <1>2 DEF ConnectEnds, LinkInv, Running, Connecting
<1>3. CASE TransportConnects
  BY <1>2, <1>3, ZenonT(30) DEF TransportConnects, LinkInv, Running, Connecting
<1>4. CASE EventsStart \/ ConnectFails
  BY <1>2, <1>4, ZenonT(30) DEF EventsStart, ConnectFails
<1>5. CASE AttemptTimesOut \/ ConnectionLost
  BY <1>5, LinkMoves, ZenonT(30) DEF AttemptTimesOut, ConnectionLost, LinkInv, Running, Connecting
<1>6. CASE TakeCommand
  BY <1>6, LinkMoves, ZenonT(30) DEF TakeCommand, Disconnect, LinkInv, Running, Connecting
<1>7. CASE BackoffCommand
  BY <1>7, LinkMoves, ZenonT(30) DEF BackoffCommand, Disconnect, LinkInv, Running, Connecting
<1>8. CASE Start \/ TickConnected \/ PollData
  BY <1>8, LinkMoves DEF Start, TickConnected, Tick, PollData, LinkInv, Running, Connecting
<1>9. CASE PollEmpty
  <2>1. UNCHANGED <<proto, streaming>> \/ (proto' = FALSE /\ streaming' = FALSE)
    BY <1>9, Zenon DEF PollEmpty, Disconnect
  <2>2. UNCHANGED <<eventDriven, writable, phase>> /\ phase = "idle" /\ task' = "select"
    BY <1>9 DEF PollEmpty, LinkInv, Connecting
  <2>3. QED
    BY <2>1, <2>2, LinkMoves, ZenonT(30) DEF LinkInv, Running, Connecting
<1>10. CASE TickDisconnected \/ BackoffElapses
  <2>1. /\ UNCHANGED <<eventDriven, writable, proto, streaming>> /\ task \in {"select", "backoff"}
        /\ \/ task' \in {task, "backoff"} /\ phase' = phase
           \/ task' = "connecting" /\ phase' = "connect"
    BY <1>10, ZenonT(30) DEF TickDisconnected, Tick, BackoffElapses
  <2>2. QED
    BY <2>1, LinkMoves DEF LinkInv, Running, Connecting
<1>11. CASE PlaneCloses \/ PlaneOpens
  BY <1>11, LinkMoves, ZenonT(30) DEF PlaneCloses, PlaneOpens
<1>12. CASE UNCHANGED <<setting, task, link>>
  BY <1>12, LinkMoves DEF LinkInv
<1>13. QED
  BY <1>1, <1>3, <1>4, <1>5, <1>6, <1>7, <1>8, <1>9, <1>10, <1>11, <1>12, ZenonT(30)
    DEF Next, TaskStep, CallerStep, Environment, vars, ActivateInstalled, Fence, ConnectTimesOut, SendShutdown,
         TaskJoined, Command, TakeEvent, TickFailed

-----------------------------------------------------------------------------
(* The helper *)

\* The operations of ReconnectHelper, field by field.
LEMMA HelperOperations ==
  /\ Connected \in Helpers /\ Connected.state = "Connected" /\ Connected.attempt = 0 /\ Connected.rounds = 0
  /\ NewHelper \in Helpers /\ NewHelper.state = "Disconnected" /\ NewHelper.attempt = 0 /\ NewHelper.rounds = 0
  /\ \A h \in Helpers :
       /\ AttemptRefused(h) \in Helpers /\ AttemptRefused(h).state = "Failed"
       /\ AttemptRefused(h).attempt = h.attempt /\ AttemptRefused(h).rounds = h.rounds
       /\ AttemptRecorded(h) \in Helpers /\ AttemptRecorded(h).state = "Reconnecting"
       /\ AttemptRecorded(h).attempt = h.attempt + 1 /\ AttemptRecorded(h).rounds = h.rounds
       /\ FailureRecorded(h) \in Helpers
       /\ FailureRecorded(h).attempt = h.attempt /\ FailureRecorded(h).rounds = h.rounds
       /\ h.rounds < MaxRounds =>
            /\ Recovered(h) \in Helpers /\ Recovered(h).state = "Disconnected"
            /\ Recovered(h).attempt = 0 /\ Recovered(h).rounds = h.rounds + 1
<1>1. MaxRounds \in Nat
  BY ChannelTaskConstants
<1>2. Connected \in Helpers /\ Connected.state = "Connected" /\ Connected.attempt = 0 /\ Connected.rounds = 0
  BY <1>1 DEF Connected, Helpers, HelperStates
<1>3. NewHelper \in Helpers /\ NewHelper.state = "Disconnected" /\ NewHelper.attempt = 0 /\ NewHelper.rounds = 0
  BY <1>1 DEF NewHelper, Helpers, HelperStates
<1>4. ASSUME NEW h \in Helpers
      PROVE  /\ AttemptRefused(h) \in Helpers /\ AttemptRefused(h).state = "Failed"
             /\ AttemptRefused(h).attempt = h.attempt /\ AttemptRefused(h).rounds = h.rounds
  BY DEF AttemptRefused, Helpers, HelperStates
<1>5. ASSUME NEW h \in Helpers
      PROVE  /\ AttemptRecorded(h) \in Helpers /\ AttemptRecorded(h).state = "Reconnecting"
             /\ AttemptRecorded(h).attempt = h.attempt + 1 /\ AttemptRecorded(h).rounds = h.rounds
  <2>1. h.attempt + 1 \in Nat
    BY DEF Helpers
  <2>2. PICK n \in Nat : n = h.attempt + 1 /\ AttemptRecorded(h) = [h EXCEPT !.state = "Reconnecting", !.attempt = n]
    BY <2>1, Zenon DEF AttemptRecorded
  <2>3. QED
    BY <2>2, ZenonT(30) DEF Helpers, HelperStates
<1>6. ASSUME NEW h \in Helpers
      PROVE  /\ FailureRecorded(h) \in Helpers
             /\ FailureRecorded(h).attempt = h.attempt /\ FailureRecorded(h).rounds = h.rounds
  <2>1. PICK state \in HelperStates : FailureRecorded(h) = [h EXCEPT !.state = state]
    BY DEF FailureRecorded, HelperStates
  <2>2. QED
    BY <2>1 DEF Helpers
<1>7. ASSUME NEW h \in Helpers, h.rounds < MaxRounds
      PROVE  /\ Recovered(h) \in Helpers /\ Recovered(h).state = "Disconnected"
             /\ Recovered(h).attempt = 0 /\ Recovered(h).rounds = h.rounds + 1
  BY <1>1, <1>7 DEF Recovered, Helpers, HelperStates
<1>8. QED
  BY <1>2, <1>3, <1>4, <1>5, <1>6, <1>7

\* Nobody reports a failure while an attempt is under way.
LEMMA TryingUnfailed ==
  ASSUME HelperInv, task \in Trying
  PROVE  failed = FALSE
BY DEF HelperInv, FailureReportHonest, Gone, Trying

LEMMA HelperKept ==
  ASSUME LinkInv, HelperInv, [Next]_vars
  PROVE  HelperInv'
<1> DEFINE Unmoved == UNCHANGED <<helper, retried, failed>>
<1>1. helper \in Helpers /\ retried \in BOOLEAN /\ failed \in BOOLEAN
  BY DEF HelperInv
<1>2. ASSUME helper' \in Helpers, retried' \in BOOLEAN, failed' \in BOOLEAN,
             task' \in Trying => helper'.state = "Reconnecting",
             failed' = FALSE \/ Gone' \/ helper'.state = "Failed"
      PROVE  HelperInv'
  BY <1>2 DEF HelperInv, FailureReportHonest
<1>3. ASSUME Unmoved, ~Gone \/ Gone', task' \in Trying => task \in Trying
      PROVE  HelperInv'
  BY <1>1, <1>2, <1>3 DEF HelperInv, FailureReportHonest
<1>4. CASE ActivateNew
  BY <1>2, <1>4, HelperOperations, ZenonT(30) DEF ActivateNew, Trying
<1>5. ASSUME NEW ok \in BOOLEAN, task' = "select", UNCHANGED retried,
             (\E up : AttemptEnds(ok, up)) \/ CommandEnds(ok) \/ BackoffCommandEnds(ok, ok)
      PROVE  HelperInv'
  <2>1. CASE CommandEnds(ok)
    BY <1>3, <1>5, <2>1 DEF CommandEnds, Trying, Gone
  <2>2. CASE (\E up : AttemptEnds(ok, up)) \/ BackoffCommandEnds(ok, ok)
    <3>1. failed = FALSE
      BY <2>2, TryingUnfailed, ZenonT(30) DEF AttemptEnds, BackoffCommandEnds, Trying
    <3>2. failed' = FALSE
      BY <2>2, <3>1, ZenonT(30) DEF AttemptEnds, BackoffCommandEnds
    <3>3. helper' \in Helpers
      BY <1>1, <2>2, HelperOperations DEF AttemptEnds, BackoffCommandEnds
    <3>4. QED
      BY <1>1, <1>2, <1>5, <3>2, <3>3, ZenonT(30) DEF Trying
  <2>3. QED
    BY <1>5, <2>1, <2>2
<1>6. CASE EventsStart \/ ConnectFails \/ AttemptTimesOut
  BY <1>5, <1>6, ZenonT(30) DEF EventsStart, ConnectFails, ConnectEnds, AttemptTimesOut
<1>7. CASE TransportConnects
  <2>1. CASE UNCHANGED <<task, helper, retried, failed>>
    BY <1>3, <2>1 DEF Gone
  <2>2. CASE ConnectEnds(TRUE)
    BY <1>5, <2>2, ZenonT(30) DEF ConnectEnds
  <2>3. QED
    BY <1>7, <2>1, <2>2, ZenonT(30) DEF TransportConnects
<1>8. CASE TickConnected
  BY <1>1, <1>2, <1>3, <1>8, HelperOperations, ZenonT(30) DEF TickConnected, Tick, Gone, Trying
<1>9. CASE TickFailed
  <2>1. UNCHANGED <<task, retried>> /\ task \notin Trying /\ helper.state = "Failed"
    BY <1>9 DEF TickFailed, Tick, Trying
  <2>2. CASE helper.rounds < MaxRounds /\ helper' = Recovered(helper) /\ failed' = FALSE
    BY <1>1, <1>2, <2>1, <2>2, HelperOperations, ZenonT(30)
  <2>3. CASE UNCHANGED helper /\ failed' = TRUE
    BY <1>1, <1>2, <2>1, <2>3
  <2>4. QED
    BY <1>9, <2>2, <2>3, ZenonT(30) DEF TickFailed
<1>10. CASE TickDisconnected
  <2>1. failed = FALSE /\ UNCHANGED failed
    BY <1>10 DEF TickDisconnected, Tick, HelperInv, FailureReportHonest, Gone
  <2>2. CASE helper' = AttemptRefused(helper) /\ UNCHANGED <<task, retried>>
    BY <1>1, <1>2, <1>10, <2>1, <2>2, HelperOperations, ZenonT(30) DEF TickDisconnected, Tick, Trying
  <2>3. CASE helper' = AttemptRecorded(helper) /\ retried' = TRUE
    BY <1>1, <1>2, <2>1, <2>3, HelperOperations, ZenonT(30)
  <2>4. QED
    BY <1>10, <2>2, <2>3, ZenonT(30) DEF TickDisconnected
<1>11. CASE Start \/ TakeCommand \/ PollData \/ PollEmpty \/ Exit
  BY <1>3, <1>11, ZenonT(30) DEF Start, TakeCommand, PollData, PollEmpty, Exit, Trying, Gone
<1>12. CASE BackoffElapses \/ BackoffCommand
  BY <1>3, <1>12, ZenonT(30) DEF BackoffElapses, BackoffCommand, Trying, Gone
<1>13. CASE TaskAborted
  BY <1>3, <1>13 DEF TaskAborted, Trying, Gone
<1>14. CASE UNCHANGED <<task, helper, retried, failed>>
  BY <1>3, <1>14 DEF Gone
<1>15. QED
  BY <1>4, <1>6, <1>7, <1>8, <1>9, <1>10, <1>11, <1>12, <1>13, <1>14, ZenonT(30)
    DEF Next, TaskStep, CallerStep, Environment, vars, ActivateInstalled, Fence, ConnectTimesOut, SendShutdown,
         TaskJoined, Command, TakeEvent, ConnectionLost, PlaneCloses, PlaneOpens

-----------------------------------------------------------------------------
(* The effort *)

LEMMA EffortKept ==
  ASSUME HelperInv, EffortInv, [Next]_vars
  PROVE  EffortInv'
<1>1. /\ helper \in Helpers /\ helper.attempt \in Nat /\ helper.rounds \in Nat /\ tries \in Nat
      /\ MaxAttempts \in Nat
  BY ChannelTaskConstants DEF HelperInv, EffortInv, Helpers
<1>2. ASSUME UNCHANGED tries, helper'.attempt = helper.attempt, helper'.rounds = helper.rounds
      PROVE  EffortInv'
  BY <1>2 DEF EffortInv
<1>3. ASSUME tries' = 0, helper' \in {Connected, NewHelper}
      PROVE  EffortInv'
  <2>1. helper'.attempt = 0 /\ helper'.rounds = 0
    BY <1>3, HelperOperations
  <2>2. QED
    BY <1>1, <1>3, <2>1 DEF EffortInv
<1>4. ASSUME NEW ok \in BOOLEAN,
             (\E up : AttemptEnds(ok, up)) \/ CommandEnds(ok) \/ BackoffCommandEnds(ok, ok)
      PROVE  EffortInv'
  BY <1>1, <1>2, <1>3, <1>4, HelperOperations DEF AttemptEnds, CommandEnds, BackoffCommandEnds
<1>5. CASE EventsStart \/ ConnectFails \/ AttemptTimesOut
  BY <1>4, <1>5, ZenonT(30) DEF EventsStart, ConnectFails, ConnectEnds, AttemptTimesOut
<1>6. CASE TransportConnects
  BY <1>2, <1>4, <1>6, ZenonT(30) DEF TransportConnects, ConnectEnds
<1>7. CASE ActivateNew \/ TickConnected
  BY <1>2, <1>3, <1>7 DEF ActivateNew, TickConnected
<1>8. CASE TickFailed
  <2>1. CASE helper.rounds < MaxRounds /\ helper' = Recovered(helper)
    <3>1. helper'.attempt = 0 /\ helper'.rounds = helper.rounds + 1 /\ UNCHANGED tries
      BY <1>1, <1>8, <2>1, HelperOperations DEF TickFailed
    <3>2. MaxAttempts * (helper.rounds + 1) = MaxAttempts * helper.rounds + MaxAttempts
      BY <1>1
    <3>3. MaxAttempts * helper.rounds \in Nat
      BY <1>1
    <3>4. QED
      BY <1>1, <3>1, <3>2, <3>3 DEF EffortInv
  <2>2. QED
    BY <1>2, <1>8, <2>1 DEF TickFailed
<1>9. CASE TickDisconnected
  <2>1. CASE helper' = AttemptRefused(helper) /\ UNCHANGED tries
    BY <1>1, <1>2, <2>1, HelperOperations
  <2>2. CASE ~AttemptsExhausted(helper) /\ helper' = AttemptRecorded(helper) /\ tries' = tries + 1
    <3>1. helper'.attempt = helper.attempt + 1 /\ helper'.rounds = helper.rounds
      BY <1>1, <2>2, HelperOperations
    <3>2. MaxAttempts * helper.rounds \in Nat
      BY <1>1
    <3>3. QED
      BY <1>1, <2>2, <3>1, <3>2 DEF EffortInv, AttemptsExhausted
  <2>3. QED
    BY <1>9, <2>1, <2>2, ZenonT(30) DEF TickDisconnected
<1>10. CASE UNCHANGED <<helper, tries>>
  BY <1>2, <1>10
<1>11. QED
  BY <1>5, <1>6, <1>7, <1>8, <1>9, <1>10, ZenonT(30)
    DEF Next, TaskStep, CallerStep, Environment, vars, ActivateInstalled, Fence, ConnectTimesOut, SendShutdown,
         TaskJoined, TaskAborted, Command, TakeCommand, TakeEvent, Start, PollData, PollEmpty, BackoffElapses,
         BackoffCommand, Exit, ConnectionLost, PlaneCloses, PlaneOpens

-----------------------------------------------------------------------------
(* The health plane *)

\* A state that was observed is in prev_online, and in the plane unless the
\* plane refused it.
LEMMA Observed ==
  ASSUME LinkInv, HealthInv, ~Gone, NEW up \in BOOLEAN, Observe(up)
  PROVE  /\ cached' \in BOOLEAN /\ online' \in BOOLEAN /\ missed' \in BOOLEAN
         /\ prev' = <<up>> /\ (~missed' => prev' = <<online'>>)
<1>1. cached' \in BOOLEAN /\ prev' = <<up>>
  BY DEF Observe, CheckOnlineChange
<1>2. CASE prev = <<up>>
  <2>1. UNCHANGED <<online, missed>> /\ task # "starting"
    BY <1>2 DEF Observe, CheckOnlineChange, HealthInv
  <2>2. QED
    BY <1>1, <1>2, <2>1 DEF HealthInv, HealthPlaneTracked
<1>3. CASE prev # <<up>> /\ writable
  BY <1>1, <1>3, ZenonT(30) DEF Observe, CheckOnlineChange, PublishOnline
<1>4. CASE prev # <<up>> /\ ~writable
  BY <1>1, <1>4, ZenonT(30) DEF Observe, CheckOnlineChange, PublishOnline, HealthInv
<1>5. QED
  BY <1>2, <1>3, <1>4

LEMMA HealthKept ==
  ASSUME LinkInv, HealthInv, QueueInv, [Next]_vars
  PROVE  HealthInv'
<1>1. ASSUME NEW up \in BOOLEAN, Observe(up), ~Gone, task' \notin {"starting", "exited"}
      PROVE  HealthInv'
  BY <1>1, Observed, ZenonT(30) DEF HealthInv, HealthPlaneTracked
<1>2. ASSUME UNCHANGED <<cached, prev, online, missed>>, task' = "aborted" \/ UNCHANGED task
      PROVE  HealthInv'
  BY <1>2, ZenonT(30) DEF HealthInv, HealthPlaneTracked, Gone
<1>3. ASSUME UNCHANGED <<cached, prev, online, missed>>, ~Gone, task # "starting",
             task' \notin {"starting", "exited"}
      PROVE  HealthInv'
  BY <1>3, ZenonT(30) DEF HealthInv, HealthPlaneTracked
<1>4. CASE ActivateNew
  BY <1>4, ZenonT(30) DEF ActivateNew, HealthInv, HealthPlaneTracked
<1>5. CASE Exit
  BY <1>5, ZenonT(30) DEF Exit, PublishOnline, HealthInv, HealthPlaneTracked, Gone, LinkInv
<1>6. ASSUME NEW ok \in BOOLEAN, NEW up \in BOOLEAN, task' = "select",
             AttemptEnds(ok, up) \/ CommandEnds(ok) \/ BackoffCommandEnds(ok, up)
      PROVE  HealthInv'
  BY <1>1, <1>3, <1>6 DEF AttemptEnds, CommandEnds, BackoffCommandEnds, Gone, health
<1>7. CASE EventsStart \/ ConnectFails \/ AttemptTimesOut
  BY <1>6, <1>7, ZenonT(30) DEF EventsStart, ConnectFails, ConnectEnds, AttemptTimesOut, LinkInv
<1>8. CASE TransportConnects
  BY <1>2, <1>6, <1>8, ZenonT(30) DEF TransportConnects, ConnectEnds, health
<1>9. CASE Start \/ PollData
  BY <1>1, <1>9 DEF Start, PollData, Gone, LinkInv
<1>10. CASE PollEmpty
  BY <1>1, <1>10, ZenonT(30) DEF PollEmpty, Gone, LinkInv
<1>11. CASE TakeEvent
  <2>1. Head(events) \in BOOLEAN
    BY <1>11 DEF TakeEvent, QueueInv
  <2>2. QED
    BY <1>1, <1>11, <2>1 DEF TakeEvent, Gone
<1>12. CASE TickFailed
  BY <1>1, <1>12, ZenonT(30) DEF TickFailed, Tick, Gone
<1>13. CASE TickDisconnected
  BY <1>1, <1>3, <1>13, ZenonT(30) DEF TickDisconnected, Tick, Gone, health
<1>14. CASE TickConnected \/ TakeCommand \/ BackoffElapses
  BY <1>3, <1>14 DEF TickConnected, Tick, TakeCommand, BackoffElapses, Gone, health
<1>15. CASE BackoffCommand
  BY <1>1, <1>3, <1>15, ZenonT(30) DEF BackoffCommand, Gone, health, LinkInv
<1>16. CASE UNCHANGED <<health, task>> \/ TaskAborted
  BY <1>2, <1>16 DEF health, TaskAborted
<1>17. QED
  BY <1>4, <1>5, <1>7, <1>8, <1>9, <1>10, <1>11, <1>12, <1>13, <1>14, <1>15, <1>16, ZenonT(30)
    DEF Next, TaskStep, CallerStep, Environment, vars, ActivateInstalled, Fence, ConnectTimesOut, SendShutdown,
         TaskJoined, Command, ConnectionLost, PlaneCloses, PlaneOpens

-----------------------------------------------------------------------------
(* Queues and counters *)

CommandKinds == {"connect", "disconnect", "log", "shutdown"}

LEMMA CommandsKept ==
  ASSUME QueueInv, [Next]_vars
  PROVE  commands' \in Seq(CommandKinds) /\ Len(commands') <= QueueCapacity
<1>1. commands \in Seq(CommandKinds) /\ Len(commands) <= QueueCapacity /\ Len(commands) \in Nat /\ QueueCapacity \in Nat \ {0}
  BY ChannelTaskConstants DEF QueueInv, CommandKinds
<1>2. ASSUME NEW c \in CommandKinds, Len(commands) < QueueCapacity, commands' = Append(commands, c)
      PROVE  commands' \in Seq(CommandKinds) /\ Len(commands') <= QueueCapacity
  BY <1>1, <1>2
<1>3. ASSUME commands # <<>>, commands' = Tail(commands)
      PROVE  commands' \in Seq(CommandKinds) /\ Len(commands') <= QueueCapacity
  BY <1>1, <1>3
<1>4. ASSUME commands' = <<>> \/ commands' = <<"connect">>
      PROVE  commands' \in Seq(CommandKinds) /\ Len(commands') <= QueueCapacity
  <2>1. "connect" \in CommandKinds
    BY DEF CommandKinds
  <2>2. <<"connect">> \in Seq(CommandKinds) /\ Len(<<"connect">>) = 1
    BY <2>1
  <2>3. <<>> \in Seq(CommandKinds) /\ Len(<<>>) = 0
    OBVIOUS
  <2>4. CASE commands' = <<>>
    BY <1>1, <2>3, <2>4
  <2>5. CASE commands' = <<"connect">>
    <3>1. commands' \in Seq(CommandKinds)
      BY <2>2, <2>5
    <3>2. Len(commands') = 1
      BY <2>2, <2>5
    <3>3. QED
      BY <1>1, <3>1, <3>2
  <2>6. QED
    BY <1>4, <2>4, <2>5
<1>5. CASE UNCHANGED commands
  BY <1>1, <1>5
<1>6. CASE ActivateNew \/ TaskAborted \/ Exit
  BY <1>4, <1>6, ZenonT(30) DEF ActivateNew, TaskAborted, Exit
<1>7. CASE ActivateInstalled \/ SendShutdown \/ \E c \in {"log", "disconnect"} : Command(c)
  BY <1>2, <1>5, <1>7 DEF ActivateInstalled, SendShutdown, Command, CommandKinds
<1>8. CASE TakeCommand \/ BackoffCommand
  BY <1>3, <1>8, ZenonT(30) DEF TakeCommand, BackoffCommand
<1>9. QED
  BY <1>5, <1>6, <1>7, <1>8, ZenonT(30)
    DEF Next, TaskStep, CallerStep, Environment, vars, Fence, ConnectTimesOut, TaskJoined, TakeEvent, Start,
         PollData, PollEmpty, BackoffElapses, ConnectionLost, PlaneCloses, PlaneOpens, TickConnected, TickFailed,
         TickDisconnected, TransportConnects, EventsStart, ConnectFails, AttemptTimesOut, ConnectEnds

LEMMA EventsKept ==
  ASSUME QueueInv, [Next]_vars
  PROVE  events' \in Seq(BOOLEAN) /\ Len(events') <= EventCapacity
<1>1. events \in Seq(BOOLEAN) /\ Len(events) <= EventCapacity /\ Len(events) \in Nat /\ EventCapacity \in Nat
  BY ChannelTaskConstants DEF QueueInv
<1>2. ASSUME NEW up \in BOOLEAN, Emit(up)
      PROVE  events' \in Seq(BOOLEAN) /\ Len(events') <= EventCapacity
  <2>1. CASE Len(events) < EventCapacity /\ events' = Append(events, up)
    BY <1>1, <2>1
  <2>2. CASE UNCHANGED events
    BY <1>1, <2>2
  <2>3. QED
    BY <1>2, <2>1, <2>2 DEF Emit
<1>3. CASE events # <<>> /\ events' = Tail(events)
  BY <1>1, <1>3
<1>4. CASE events' = <<>>
  BY <1>1, <1>4
<1>5. CASE UNCHANGED events
  BY <1>1, <1>5
<1>6. Disconnect => events' = events \/ Emit(FALSE)
  BY ZenonT(30) DEF Disconnect
<1>7. CASE PollEmpty \/ TakeCommand \/ BackoffCommand
  BY <1>2, <1>5, <1>6, <1>7, ZenonT(30) DEF PollEmpty, TakeCommand, BackoffCommand
<1>8. CASE TransportConnects \/ ConnectFails \/ ConnectionLost
  BY <1>2, <1>5, <1>8, ZenonT(30) DEF TransportConnects, ConnectFails, ConnectionLost
<1>9. QED
  BY <1>3, <1>4, <1>5, <1>7, <1>8, ZenonT(30)
    DEF Next, TaskStep, CallerStep, Environment, vars, ActivateNew, ActivateInstalled, Fence, ConnectTimesOut,
         SendShutdown, TaskJoined, TaskAborted, Command, TakeEvent, Start, PollData, BackoffElapses, PlaneCloses,
         PlaneOpens, TickConnected, TickFailed, TickDisconnected, EventsStart, AttemptTimesOut, Exit

LEMMA CountersKept ==
  ASSUME QueueInv, [Next]_vars
  PROVE  /\ zero' \in Nat /\ (zero' = 0 \/ zero' < ZeroThreshold)
         /\ faults' \in 0 .. MaxFaults /\ requests' \in 0 .. MaxRequests
<1>1. /\ zero \in Nat /\ (zero = 0 \/ zero < ZeroThreshold) /\ ZeroThreshold \in Nat
      /\ faults \in 0 .. MaxFaults /\ requests \in 0 .. MaxRequests /\ MaxFaults \in Nat /\ MaxRequests \in Nat
  BY ChannelTaskConstants DEF QueueInv
<1>2. zero' \in {zero, 0} \/ (zero' = zero + 1 /\ zero + 1 < ZeroThreshold)
  <2>1. CASE PollEmpty
    <3>1. \/ zero' \in {zero, 0}
          \/ ~(ZeroThreshold > 0 /\ zero + 1 >= ZeroThreshold) /\ ZeroThreshold > 0 /\ zero' = zero + 1
      BY <2>1, Zenon DEF PollEmpty
    <3>2. QED
      BY <1>1, <3>1
  <2>2. CASE ~PollEmpty
    BY <2>2, ZenonT(30) DEF Next, TaskStep, CallerStep, Environment, vars, ActivateNew, ActivateInstalled, Fence,
       ConnectTimesOut, SendShutdown, TaskJoined, TaskAborted, Command, TakeCommand, TakeEvent, Start, PollData,
       BackoffElapses, BackoffCommand, PlaneCloses, PlaneOpens, TickConnected, TickFailed, TickDisconnected,
       EventsStart, AttemptTimesOut, Exit, TransportConnects, ConnectFails, ConnectEnds, ConnectionLost
  <2>3. QED
    BY <2>1, <2>2
<1>3. \/ UNCHANGED <<faults, requests>> \/ Fault \/ Request
  BY ZenonT(30) DEF Next, TaskStep, CallerStep, Environment, vars, budget, ActivateNew, ActivateInstalled, Fence,
     ConnectTimesOut, SendShutdown, TaskJoined, TaskAborted, Command, TakeCommand, TakeEvent, Start, PollData,
     PollEmpty, BackoffElapses, BackoffCommand, PlaneCloses, PlaneOpens, TickConnected, TickFailed,
     TickDisconnected, EventsStart, AttemptTimesOut, Exit, TransportConnects, ConnectFails, ConnectionLost
<1>4. faults' \in 0 .. MaxFaults /\ requests' \in 0 .. MaxRequests
  BY <1>1, <1>3, SMTT(30) DEF Fault, Request
<1>5. QED
  BY <1>1, <1>2, <1>4

LEMMA CallerKept ==
  ASSUME QueueInv, [Next]_vars
  PROVE  caller' \in {"idle", "waiting", "removing", "joining"}
<1>1. CASE UNCHANGED caller
  BY <1>1 DEF QueueInv
<1>2. ASSUME NEW ok \in BOOLEAN, ConnectEnds(ok)
      PROVE  caller' \in {"idle", "waiting", "removing", "joining"}
  BY <1>2 DEF QueueInv, ConnectEnds, AttemptEnds, CommandEnds, BackoffCommandEnds, Answer
<1>3. CASE EventsStart \/ TransportConnects \/ ConnectFails
  BY <1>1, <1>2, <1>3, ZenonT(30) DEF EventsStart, TransportConnects, ConnectFails
<1>4. QED
  BY <1>1, <1>3, ZenonT(30) DEF Next, TaskStep, CallerStep, Environment, vars, ActivateNew, ActivateInstalled, Fence,
     ConnectTimesOut, SendShutdown, TaskJoined, TaskAborted, Command, TakeCommand, TakeEvent, Start, PollData,
     PollEmpty, BackoffElapses, BackoffCommand, PlaneCloses, PlaneOpens, TickConnected, TickFailed,
     TickDisconnected, AttemptTimesOut, AttemptEnds, Exit, ConnectionLost

-----------------------------------------------------------------------------
LEMMA StepHolds ==
  ASSUME IInv, [Next]_vars
  PROVE  IInv'
<1>1. QueueInv'
  BY CommandsKept, EventsKept, CountersKept, CallerKept DEF IInv, QueueInv, CommandKinds
<1>2. QED
  BY <1>1, LinkKept, HelperKept, EffortKept, HealthKept DEF IInv

LEMMA InitHolds ==
  ASSUME Init
  PROVE  IInv
<1>1. LinkInv
  BY ZenonT(30) DEF Init, LinkInv, Running, Connecting
<1>2. HelperInv
  BY HelperOperations, ZenonT(30) DEF Init, HelperInv, FailureReportHonest, Trying
<1>3. EffortInv
  BY HelperOperations, ChannelTaskConstants DEF Init, EffortInv
<1>4. HealthInv
  BY ZenonT(30) DEF Init, HealthInv, HealthPlaneTracked, Gone
<1>5. QueueInv
  BY ChannelTaskConstants DEF Init, QueueInv
<1>6. QED
  BY <1>1, <1>2, <1>3, <1>4, <1>5 DEF IInv

\* The inductive invariant of the channel task.
THEOREM TaskInvariant == Spec => []IInv
BY InitHolds, StepHolds, PTL DEF Spec

\* Whatever commands, faults and lost events reach a channel's task, it makes no
\* more attempts than ReconnectPolicy and AutoRecoveryPolicy allow, reports
\* reconnect_failed only once its helper has given up, and suppresses no write
\* that the health plane needs; a task that ran to its end leaves it offline.
THEOREM TaskAlwaysAccountable == Spec => []TaskAccountable
<1>1. IInv => TypeOK
  <2> SUFFICES ASSUME IInv PROVE TypeOK
    OBVIOUS
  <2>1. {retried, failed, cached, online, writable, missed} \subseteq BOOLEAN
    BY DEF IInv, LinkInv, HelperInv, HealthInv
  <2>2. /\ helper.state \in {"Connected", "Disconnected", "Reconnecting", "Failed"}
        /\ MaxAttempts > 0 => helper.attempt \in 0 .. MaxAttempts
        /\ helper.rounds \in 0 .. MaxRounds
    BY ChannelTaskConstants DEF IInv, HelperInv, EffortInv, Helpers, HelperStates
  <2>3. QED
    BY <2>1, <2>2, ZenonT(30) DEF IInv, LinkInv, EffortInv, HealthInv, QueueInv, TypeOK
<1>2. IInv => EffortBounded
  <2> SUFFICES ASSUME IInv, MaxAttempts > 0 PROVE tries <= MaxAttempts * (MaxRounds + 1)
    BY DEF EffortBounded
  <2>1. /\ helper.rounds \in Nat /\ helper.rounds <= MaxRounds /\ helper.attempt \in Nat /\ MaxRounds \in Nat
        /\ MaxAttempts \in Nat /\ tries \in Nat
        /\ helper.attempt <= MaxAttempts /\ tries <= MaxAttempts * helper.rounds + helper.attempt
    BY ChannelTaskConstants DEF IInv, HelperInv, EffortInv, Helpers
  <2>2. MaxAttempts * helper.rounds <= MaxAttempts * MaxRounds
    BY <2>1
  <2>3. MaxAttempts * (MaxRounds + 1) = MaxAttempts * MaxRounds + MaxAttempts
    BY <2>1
  <2>4. MaxAttempts * helper.rounds \in Nat /\ MaxAttempts * MaxRounds \in Nat
    BY <2>1
  <2>5. QED
    BY <2>1, <2>2, <2>3, <2>4
<1>3. IInv => FailureReportHonest /\ HealthPlaneTracked
  BY DEF IInv, HelperInv, HealthInv
<1>4. QED
  BY <1>1, <1>2, <1>3, TaskInvariant, PTL DEF TaskAccountable
=============================================================================
