-------------------- MODULE ChannelReconciliationProofs --------------------
(***************************************************************************)
(* Proofs, for every number of requests and failures, that a disabled or   *)
(* deleted channel never runs and that no superseded revision runs again,  *)
(* and that what is reported and remembered of the runtime of a channel is *)
(* true: receipts are honest, and the row the automatic reconciler         *)
(* remembers as applied never hides a stale runtime.                       *)
(*                                                                         *)
(* The first two are not inductive: they rest on the mutual exclusion of   *)
(* the operations (Alone), on what an operation in progress knows of the   *)
(* row (Informed) and on the revisions in use being ordered (Ordered).     *)
(* Honest receipts need what an operation has found of the runtime by each *)
(* of its steps (Told).  That nothing stale is hidden needs more than the  *)
(* remembered row: the row a cycle is about to remember, the row it awaits *)
(* a receipt for, and the rows the operations in progress aim at (Known).  *)
(***************************************************************************)
EXTENDS ChannelReconciliation, TLAPS

Works0 == [pc : Steps, how : {"none", "command", "restore", "one", "all"},
           base : Row, target : Row, result : Results]

Typed == /\ row \in Row /\ tombstone \in Nat /\ runtime \in Nat /\ newest \in Nat
         /\ work \in [Actors -> Works0]

CycleType == [pc : {"idle", "project", "decide", "reconcile", "wait", "close", "reload"},
              desired : Row, scope : {"none", "one", "all"}, converged : BOOLEAN,
              after : {"end", "clear", "reload"}, serving : BOOLEAN]

(* The gate and the channel's lock: one operation at a time.               *)
Alone == \A a, b \in Actors : a # b => work[a].pc = "idle" \/ work[b].pc = "idle"

(* Revisions grow: past the tombstone, and past whatever has run.          *)
Ordered == /\ row # Absent => row.revision > tombstone
           /\ newest <= tombstone \/ newest <= row.revision
           /\ runtime <= newest

(* What an operation may rely on: the channel it is about to activate is   *)
(* enabled and no newer revision ran; the revision it is about to commit   *)
(* is fresh; before a disable or a delete commits nothing runs.            *)
Informed(w, r, t, run, n) ==
    /\ w.pc \in {"load", "activate"} => w.target.enabled
    /\ w.pc \in {"clear", "load", "activate"} /\ w.target.enabled =>
           r.enabled /\ n <= w.target.revision /\ w.target.revision <= r.revision
    /\ w.pc \in {"retire", "commit"} /\ w.target # Absent =>
           w.target.revision > t /\ w.target.revision > w.base.revision
    /\ w.pc \in {"retire", "commit"} /\ w.target = Absent => w.base # Absent
    /\ w.pc = "commit" /\ Retiring(w) => run = 0

IInv == /\ Typed /\ Alone /\ Ordered /\ DisabledNeverRuns
        /\ \A a \in Actors : Informed(work[a], row, tombstone, runtime, newest)

-----------------------------------------------------------------------------
(* A step that replaces the operation of one actor, all the others being   *)
(* idle, preserves the invariant if the new operation is informed.         *)
LEMMA OneMoves ==
  ASSUME IInv, NEW a \in Actors, NEW w \in Works0,
         \A b \in Actors : b # a => work[b].pc = "idle",
         work' = [work EXCEPT ![a] = w],
         row' \in Row, tombstone' \in Nat, runtime' \in Nat, newest' \in Nat,
         Ordered', DisabledNeverRuns',
         Informed(w, row', tombstone', runtime', newest')
  PROVE  IInv'
<1>1. /\ work' \in [Actors -> Works0] /\ work'[a] = w
      /\ \A b \in Actors : b # a => work'[b] = work[b]
  BY DEF IInv, Typed
<1>2. Typed' /\ Alone'
  BY <1>1 DEF Typed, Alone
<1>3. ASSUME NEW b \in Actors
      PROVE  Informed(work'[b], row', tombstone', runtime', newest')
  <2>1. CASE b = a
    BY <1>1, <2>1
  <2>2. CASE b # a
    <3>1. work'[b].pc = "idle"
      BY <1>1, <2>2
    <3>2. QED
      BY <3>1 DEF Informed
  <2>3. QED
    BY <2>1, <2>2, ZenonT(30)
<1>4. QED
  BY <1>2, <1>3 DEF IInv

(* A step that leaves the operations and the database alone and only may   *)
(* take the runtime away preserves the invariant.                          *)
LEMMA NothingNew ==
  ASSUME IInv, UNCHANGED <<work, row, tombstone, newest>>, runtime' \in {0, runtime}
  PROVE  IInv'
<1>1. Typed' /\ Alone' /\ Ordered' /\ DisabledNeverRuns'
  BY DEF IInv, Typed, Alone, Ordered, DisabledNeverRuns
<1>2. \A a \in Actors : Informed(work'[a], row', tombstone', runtime', newest')
  BY DEF IInv, Informed
<1>3. QED
  BY <1>1, <1>2 DEF IInv

(* While one actor is busy the others are idle.                            *)
LEMMA OthersIdle ==
  ASSUME IInv, NEW a \in Actors, work[a].pc # "idle" \/ Free(a)
  PROVE  \A b \in Actors : b # a => work[b].pc = "idle"
BY DEF IInv, Alone, Free

(* Fences never bring a runtime.                                           *)
LEMMA Fences ==
  ASSUME IInv, Fenced \/ FenceFails
  PROVE  runtime' \in {0, runtime} /\ newest' = newest
BY DEF Fenced, FenceFails

(* Without a new runtime or a change of the row, order is kept.            *)
LEMMA OrderKept ==
  ASSUME IInv, UNCHANGED <<row, tombstone, newest>>, runtime' \in {0, runtime}
  PROVE  /\ row' \in Row /\ tombstone' \in Nat /\ runtime' \in Nat /\ newest' \in Nat
         /\ Ordered' /\ DisabledNeverRuns'
BY DEF IInv, Typed, Ordered, DisabledNeverRuns

(* An operation that only moves on, to a step that relies on nothing.      *)
Harmless == {"idle", "read", "undo", "confirm", "withdraw", "done"}

LEMMA MovesHarmlessly ==
  ASSUME IInv, NEW a \in Actors, NEW w \in Works0, w.pc \in Harmless,
         work[a].pc # "idle" \/ Free(a),
         work' = [work EXCEPT ![a] = w],
         UNCHANGED <<row, tombstone, newest>>, runtime' \in {0, runtime}
  PROVE  IInv'
<1>1. Informed(w, row', tombstone', runtime', newest')
  BY DEF Informed, Harmless
<1>2. QED
  BY <1>1, OthersIdle, OrderKept, OneMoves, Zenon

-----------------------------------------------------------------------------
(* An enabled row is at or past every revision that ran.                   *)
LEMMA EnabledIsNewest ==
  ASSUME IInv, row.enabled
  PROVE  newest <= row.revision
<1>1. row # Absent /\ row.revision \in Nat
  BY DEF IInv, Typed, Row, Absent
<1>2. QED
  BY <1>1 DEF IInv, Typed, Ordered

(* A mutation starts from the row it has loaded: it re-projects the row,   *)
(* or goes on to commit a later revision, or to retire the channel.        *)
LEMMA MutateKeeps ==
  ASSUME IInv, NEW pc \in {"clear", "commit", "retire"}, NEW target \in Row, Mutate(pc, target),
         pc = "clear" => target = row,
         pc # "clear" /\ target # Absent => target.revision > tombstone /\ target.revision > row.revision,
         pc # "clear" /\ target = Absent => row # Absent,
         pc = "commit" => target # Absent /\ (row.enabled => target.enabled)
  PROVE  IInv'
<1> DEFINE w == [Idle EXCEPT !.pc = pc, !.how = "command", !.base = row, !.target = target]
<1>1. w \in Works0
  BY Zenon DEF IInv, Typed, Works0, Idle, Absent, Row, Results, Steps
<1>2. /\ "mutator" \in Actors /\ Free("mutator") /\ work' = [work EXCEPT !["mutator"] = w]
      /\ UNCHANGED <<row, tombstone, runtime, newest>>
  BY DEF Mutate, desiredState, Actors
<1>3. w.pc = pc /\ w.base = row /\ w.target = target
  BY ZenonT(30) DEF Idle
<1>4. row.revision \in Nat
  BY ZenonT(30) DEF IInv, Typed, Row
<1> HIDE DEF w
<1>5. Informed(w, row', tombstone', runtime', newest')
  BY <1>2, <1>3, <1>4, EnabledIsNewest DEF Informed, Retiring
<1>6. QED
  BY <1>1, <1>2, <1>5, OthersIdle, OrderKept, OneMoves, Zenon

(* The row one revision later.                                             *)
LEMMA NextRow ==
  ASSUME IInv, row # Absent, NEW enabled \in BOOLEAN, NEW next,
         next = [revision |-> row.revision + 1, enabled |-> enabled]
  PROVE  /\ next \in Row /\ next # Absent /\ next.enabled = enabled
         /\ next.revision > tombstone /\ next.revision > row.revision
<1>1. row.revision \in Nat /\ tombstone \in Nat /\ row.revision > tombstone
  BY DEF IInv, Typed, Ordered, Row
<1>2. next.revision = row.revision + 1
  OBVIOUS
<1>3. next.revision # 0
  BY <1>1, <1>2
<1>4. QED
  BY <1>1, <1>2, <1>3 DEF Row, Absent

LEMMA CreateKeeps ==
  ASSUME IInv, NEW enabled \in BOOLEAN, Create(enabled)
  PROVE  IInv'
<1> DEFINE next == [revision |-> tombstone + 1, enabled |-> enabled]
<1>1. /\ row = Absent /\ tombstone \in Nat /\ next \in Row
      /\ next.revision > tombstone /\ next.revision > row.revision
  BY DEF IInv, Typed, Row, Create, Absent
<1>2. next # Absent /\ (row.enabled => next.enabled)
  BY <1>1 DEF Absent
<1>3. Mutate("commit", next)
  BY DEF Create
<1> HIDE DEF next
<1>4. QED
  BY <1>1, <1>2, <1>3, MutateKeeps

LEMMA UpdateKeeps ==
  ASSUME IInv, Update
  PROVE  IInv'
<1> DEFINE next == [revision |-> row.revision + 1, enabled |-> row.enabled]
<1>1. [row EXCEPT !.revision = @ + 1] = next /\ row.enabled \in BOOLEAN
  BY DEF IInv, Typed, Row
<1>2. Mutate("commit", next) /\ row # Absent
  BY <1>1 DEF Update
<1>3. /\ next \in Row /\ next # Absent /\ next.enabled = row.enabled
      /\ next.revision > tombstone /\ next.revision > row.revision
  BY <1>1, <1>2, NextRow
<1> HIDE DEF next
<1>4. QED
  BY <1>2, <1>3, MutateKeeps

LEMMA SetEnabledKeeps ==
  ASSUME IInv, NEW enabled \in BOOLEAN, SetEnabled(enabled)
  PROVE  IInv'
<1> DEFINE next == [revision |-> row.revision + 1, enabled |-> enabled]
<1>1. row # Absent /\ row \in Row
  BY DEF SetEnabled, IInv, Typed
<1>2. /\ next \in Row /\ next # Absent /\ next.enabled = enabled
      /\ next.revision > tombstone /\ next.revision > row.revision
  BY <1>1, NextRow
<1>3. \/ Mutate("clear", row)
      \/ Mutate("commit", next) /\ enabled
      \/ Mutate("retire", next)
  BY DEF SetEnabled
<1> HIDE DEF next
<1>4. QED
  BY <1>1, <1>2, <1>3, MutateKeeps

LEMMA DeleteKeeps ==
  ASSUME IInv, Delete
  PROVE  IInv'
<1>1. Absent \in Row
  BY DEF Absent, Row
<1>2. QED
  BY <1>1, MutateKeeps DEF Delete

LEMMA RetireKeeps ==
  ASSUME IInv, Retire
  PROVE  IInv'
<1> DEFINE w == work["mutator"]
<1>1. /\ "mutator" \in Actors /\ w \in Works0 /\ w.pc = "retire"
      /\ Informed(w, row, tombstone, runtime, newest)
      /\ UNCHANGED <<row, tombstone>>
  BY DEF Retire, IInv, Typed, At, Actors, desiredState
<1>2. CASE Fenced /\ Goes("mutator", "commit")
  <2>1. [w EXCEPT !.pc = "commit"] \in Works0 /\ work' = [work EXCEPT !["mutator"] = [w EXCEPT !.pc = "commit"]]
    BY <1>1, <1>2 DEF Works0, Steps, Goes
  <2>2. runtime' = 0 /\ newest' = newest
    BY <1>2, ZenonT(30) DEF Fenced
  <2>3. Informed([w EXCEPT !.pc = "commit"], row', tombstone', runtime', newest')
    BY <1>1, <2>2 DEF Informed, Works0
  <2>4. QED
    BY <1>1, <2>1, <2>2, <2>3, OthersIdle, OrderKept, OneMoves, Zenon
<1>3. CASE FenceFails /\ work' = [work EXCEPT !["mutator"].pc = "read", !["mutator"].how = "restore"]
  <2> DEFINE v == [w EXCEPT !.pc = "read", !.how = "restore"]
  <2>1. v \in Works0 /\ v.pc \in Harmless /\ work' = [work EXCEPT !["mutator"] = v]
    BY <1>1, <1>3, Zenon DEF Works0, Steps, Harmless, IInv, Typed
  <2>2. QED
    BY <1>1, <1>3, <2>1, Fences, MovesHarmlessly, Zenon
<1>4. QED
  BY <1>2, <1>3 DEF Retire

(* A commit keeps revisions in order, and what runs enabled.               *)
LEMMA StoredKeeps ==
  ASSUME IInv, work["mutator"].pc = "commit", row = work["mutator"].base, Stored(work["mutator"]),
         UNCHANGED <<runtime, newest>>
  PROVE  /\ row' \in Row /\ tombstone' \in Nat /\ runtime' \in Nat /\ newest' \in Nat
         /\ Ordered' /\ DisabledNeverRuns'
         /\ row' = work["mutator"].target /\ (row' # Absent => newest <= row'.revision)
<1> DEFINE w == work["mutator"]
<1>1. /\ "mutator" \in Actors /\ w \in Works0
      /\ Informed(w, row, tombstone, runtime, newest)
  BY ZenonT(30) DEF IInv, Typed, Actors
<1>2. w.target \in Row /\ w.base \in Row /\ row.revision \in Nat
  BY <1>1, ZenonT(30) DEF Works0, Row
<1>3. newest <= tombstone \/ newest <= w.base.revision
  BY ZenonT(30) DEF IInv, Ordered
<1>4. CASE w.target = Absent
  <2>1. row' = Absent /\ tombstone' = w.base.revision + 1 /\ runtime = 0
    BY <1>1, <1>4, ZenonT(30) DEF Stored, Informed, Retiring
  <2>2. newest <= tombstone'
    BY <1>1, <1>2, <1>3, <1>4, <2>1 DEF IInv, Ordered, Typed, Row, Informed
  <2>3. QED
    BY <1>2, <1>4, <2>1, <2>2 DEF IInv, Typed, Ordered, DisabledNeverRuns, Row, Absent
<1>5. CASE w.target # Absent
  <2>1. row' = w.target /\ tombstone' = tombstone
    BY <1>5, ZenonT(30) DEF Stored
  <2>2. row'.revision > tombstone /\ row'.revision > row.revision
    BY <1>1, <1>5, <2>1, ZenonT(30) DEF Informed
  <2>3. newest <= row'.revision
    BY <1>2, <1>3, <2>1, <2>2, SMTT(60) DEF IInv, Typed, Row
  <2>4. DisabledNeverRuns'
    BY <1>1, <1>2, <2>1 DEF IInv, DisabledNeverRuns, Informed, Retiring, Row
  <2>5. QED
    BY <1>2, <2>1, <2>2, <2>3, <2>4 DEF IInv, Typed, Ordered
<1>6. QED
  BY <1>4, <1>5

LEMMA RestoresHarmless ==
  ASSUME NEW w \in Works0
  PROVE  Restores(w) \in Works0 /\ Restores(w).pc \in Harmless
BY Zenon DEF Restores, Works0, Harmless, Steps, Results

LEMMA CommitKeeps ==
  ASSUME IInv, Commit \/ CommitFails
  PROVE  IInv'
<1> DEFINE w == work["mutator"]
<1>1. /\ "mutator" \in Actors /\ w \in Works0 /\ w.pc = "commit"
      /\ UNCHANGED <<runtime, newest>>
  BY ZenonT(30) DEF IInv, Typed, Actors, Commit, CommitFails, At
<1>2. CASE row = w.base /\ Stored(w) /\ work' = [work EXCEPT !["mutator"] = Committed(w)]
  <2>1. Committed(w) \in Works0
    BY <1>1, Zenon DEF Committed, Works0, Steps, Results
  <2>2. Informed(Committed(w), row', tombstone', runtime', newest')
    BY <1>1, <1>2, StoredKeeps DEF Committed, Informed, Works0, Row, Absent
  <2>3. QED
    BY <1>1, <1>2, <2>1, <2>2, StoredKeeps, OthersIdle, OneMoves, Zenon
<1>3. CASE row = w.base /\ Stored(w) /\ work' = [work EXCEPT !["mutator"] = Restores(w)]
  <2>1. Informed(Restores(w), row', tombstone', runtime', newest')
    BY <1>1, RestoresHarmless DEF Informed, Harmless
  <2>2. QED
    BY <1>1, <1>3, <2>1, RestoresHarmless, StoredKeeps, OthersIdle, OneMoves, Zenon
<1>4. CASE UNCHANGED <<row, tombstone>> /\ work' = [work EXCEPT !["mutator"] = Restores(w)]
  BY <1>1, <1>4, RestoresHarmless, MovesHarmlessly, Zenon
<1>5. QED
  BY <1>2, <1>3, <1>4, ZenonT(30) DEF Commit, CommitFails, desiredState

-----------------------------------------------------------------------------
(* The steps of a projection that rely on nothing afterwards.              *)
LEMMA PlainStepsKeep ==
  ASSUME IInv, NEW a \in Actors,
         ReadFails(a) \/ Undo(a) \/ Confirm(a) \/ ConfirmFails(a) \/ Withdraw(a) \/ Reply(a)
         \/ LoadFails(a)
  PROVE  IInv'
<1>1. /\ work[a] \in Works0 /\ work[a].pc # "idle"
      /\ UNCHANGED <<row, tombstone>>
  BY ZenonT(30) DEF IInv, Typed, At, desiredState, ReadFails, Undo, Confirm, ConfirmFails, Withdraw, Reply, LoadFails
<1>2. runtime' \in {0, runtime} /\ newest' = newest
  BY Fences, ZenonT(30) DEF FenceAttempted, ReadFails, Undo, Confirm, ConfirmFails, Withdraw, Reply, LoadFails
<1>3. \E w \in Works0 : w.pc \in Harmless /\ work' = [work EXCEPT ![a] = w]
  <2>1. CASE Reply(a)
    <3>1. Idle \in Works0 /\ Idle.pc \in Harmless
      BY DEF Idle, Works0, Row, Absent, Steps, Results, Harmless
    <3>2. QED
      BY <2>1, <3>1, Zenon DEF Reply
  <2>2. CASE \E pc \in {"done", "confirm"} : Goes(a, pc)
    <3>1. PICK pc \in {"done", "confirm"} : work' = [work EXCEPT ![a] = [work[a] EXCEPT !.pc = pc]]
      BY <2>2, Zenon DEF Goes
    <3>2. [work[a] EXCEPT !.pc = pc] \in Works0 /\ [work[a] EXCEPT !.pc = pc].pc \in Harmless
      BY <1>1, <3>1 DEF Works0, Steps, Harmless
    <3>3. QED
      BY <3>1, <3>2, Zenon
  <2>3. CASE \E pc \in {"done", "undo", "confirm", "withdraw"}, result \in Results : GoesWith(a, pc, result)
    <3>0. PICK pc \in {"done", "undo", "confirm", "withdraw"}, result \in Results : GoesWith(a, pc, result)
      BY <2>3
    <3>1. work' = [work EXCEPT ![a] = [work[a] EXCEPT !.pc = pc, !.result = result]]
      BY <3>0, Zenon DEF GoesWith
    <3>2. [work[a] EXCEPT !.pc = pc, !.result = result] \in Works0
      BY <1>1, <3>0, Zenon DEF Works0, Steps
    <3>3. [work[a] EXCEPT !.pc = pc, !.result = result].pc \in Harmless
      BY <1>1, <3>0 DEF Works0, Harmless
    <3>4. QED
      BY <3>1, <3>2, <3>3, Zenon
  <2>4. QED
    BY <2>1, <2>2, <2>3
    DEF Undo, Confirm, Withdraw, ReadFails, ConfirmFails, LoadFails, NotActivated, Results
<1>4. QED
  BY <1>1, <1>2, <1>3, MovesHarmlessly, Zenon

LEMMA ReadsKeep ==
  ASSUME IInv, NEW a \in Actors, ReadForRestore(a) \/ ReadOne(a) \/ ReadAll(a)
  PROVE  IInv'
<1>1. /\ work[a] \in Works0 /\ work[a].pc = "read"
      /\ UNCHANGED <<row, tombstone, runtime, newest>>
  BY DEF IInv, Typed, At, desiredState, ReadForRestore, ReadOne, ReadAll
<1>2. CASE Goes(a, "undo")
  <2>1. /\ [work[a] EXCEPT !.pc = "undo"] \in Works0 /\ [work[a] EXCEPT !.pc = "undo"].pc \in Harmless
        /\ work' = [work EXCEPT ![a] = [work[a] EXCEPT !.pc = "undo"]]
    BY <1>1, <1>2 DEF Goes, Works0, Steps, Harmless
  <2>2. QED
    BY <1>1, <2>1, MovesHarmlessly, Zenon
<1>3. CASE work' = [work EXCEPT ![a].pc = "clear", ![a].target = row]
  <2> DEFINE w == [work[a] EXCEPT !.pc = "clear", !.target = row]
  <2>1. w \in Works0 /\ work' = [work EXCEPT ![a] = w]
    BY <1>1, <1>3, Zenon DEF IInv, Typed, Works0, Steps
  <2>2. w.pc = "clear" /\ w.target = row
    BY <1>1 DEF Works0
  <2>3. row.revision \in Nat
    BY DEF IInv, Typed, Row
  <2>4. Informed(w, row', tombstone', runtime', newest')
    BY <1>1, <2>2, <2>3, EnabledIsNewest DEF Informed
  <2>5. QED
    BY <1>1, <2>1, <2>4, OthersIdle, OrderKept, OneMoves, Zenon
<1>4. QED
  BY <1>2, <1>3, ZenonT(30) DEF ReadForRestore, ReadOne, ReadAll

LEMMA ClearKeeps ==
  ASSUME IInv, NEW a \in Actors, Clear(a)
  PROVE  IInv'
<1>1. /\ work[a] \in Works0 /\ work[a].pc = "clear"
      /\ UNCHANGED <<row, tombstone>>
      /\ Informed(work[a], row, tombstone, runtime, newest)
  BY DEF IInv, Typed, At, desiredState, Clear
<1>2. runtime' \in {0, runtime} /\ newest' = newest
  BY Fences DEF Clear
<1>3. CASE work[a].target.enabled /\ AfterClear(a)
  <2>1. PICK pc \in {"load", "activate"} : work' = [work EXCEPT ![a] = [work[a] EXCEPT !.pc = pc]]
    BY <1>3, ZenonT(30) DEF AfterClear, Goes
  <2>2. [work[a] EXCEPT !.pc = pc] \in Works0
    BY <1>1, <2>1, ZenonT(30) DEF Works0, Steps
  <2>3. Informed([work[a] EXCEPT !.pc = pc], row', tombstone', runtime', newest')
    BY <1>1, <1>2, <1>3, <2>1 DEF Informed, Works0
  <2>4. QED
    BY <1>1, <1>2, <2>1, <2>2, <2>3, OthersIdle, OrderKept, OneMoves, Zenon
<1>4. CASE \E pc \in {"done", "confirm"}, result \in Results : GoesWith(a, pc, result)
  <2>1. PICK pc \in {"done", "confirm"}, result \in Results :
           work' = [work EXCEPT ![a] = [work[a] EXCEPT !.pc = pc, !.result = result]]
    BY <1>4, ZenonT(60) DEF GoesWith
  <2>2. /\ [work[a] EXCEPT !.pc = pc, !.result = result] \in Works0
        /\ [work[a] EXCEPT !.pc = pc, !.result = result].pc \in Harmless
    BY <1>1, <2>1, Zenon DEF Works0, Steps, Harmless
  <2>3. QED
    BY <1>1, <1>2, <2>1, <2>2, MovesHarmlessly, Zenon
<1>5. QED
  BY <1>3, <1>4, ZenonT(30) DEF Clear, AfterClear, Unwanted, Results

LEMMA LoadKeeps ==
  ASSUME IInv, NEW a \in Actors, Load(a)
  PROVE  IInv'
<1>1. /\ work[a] \in Works0 /\ work[a].pc = "load"
      /\ UNCHANGED <<row, tombstone, runtime, newest>>
      /\ Informed(work[a], row, tombstone, runtime, newest)
  BY ZenonT(30) DEF IInv, Typed, At, desiredState, Load
<1>2. CASE Goes(a, "activate")
  <2> DEFINE w == [work[a] EXCEPT !.pc = "activate"]
  <2>1. w \in Works0 /\ work' = [work EXCEPT ![a] = w]
    BY <1>1, <1>2, ZenonT(30) DEF Works0, Steps, Goes
  <2>2. Informed(w, row', tombstone', runtime', newest')
    BY <1>1, ZenonT(30) DEF Informed, Works0
  <2>3. QED
    BY <1>1, <2>1, <2>2, OthersIdle, OrderKept, OneMoves, Zenon
<1>3. CASE NotActivated(a)
  <2>1. PICK pc \in {"undo", "confirm"} :
           work' = [work EXCEPT ![a] = [work[a] EXCEPT !.pc = pc, !.result = "degraded"]]
    BY <1>3, Zenon DEF NotActivated, GoesWith
  <2>2. /\ [work[a] EXCEPT !.pc = pc, !.result = "degraded"] \in Works0
        /\ [work[a] EXCEPT !.pc = pc, !.result = "degraded"].pc \in Harmless
    BY <1>1, <2>1, Zenon DEF Works0, Steps, Harmless, Results
  <2>3. QED
    BY <1>1, <2>1, <2>2, MovesHarmlessly, Zenon
<1>4. QED
  BY <1>2, <1>3, ZenonT(30) DEF Load

(* An activation installs the target's revision or leaves what runs.       *)
LEMMA InstalledKeeps ==
  ASSUME IInv, NEW a \in Actors, work[a].pc = "activate", NEW w \in Works0, w.pc \in Harmless,
         work' = [work EXCEPT ![a] = w], UNCHANGED <<row, tombstone>>,
         Runs(IF runtime = 0 THEN work[a].target.revision ELSE runtime)
  PROVE  IInv' /\ (runtime' \notin {0, runtime} => runtime' >= newest)
<1>1. /\ work[a].target \in Row /\ row.enabled /\ newest <= work[a].target.revision
      /\ work[a].target.revision <= row.revision
      /\ row.revision \in Nat /\ work[a].target.revision \in Nat
  BY ZenonT(30) DEF IInv, Typed, Works0, Informed, Row
<1>2. /\ row' \in Row /\ tombstone' \in Nat /\ runtime' \in Nat /\ newest' \in Nat
      /\ Ordered' /\ DisabledNeverRuns'
      /\ (runtime' \notin {0, runtime} => runtime' >= newest)
  BY <1>1 DEF IInv, Typed, Ordered, DisabledNeverRuns, Runs
<1>3. Informed(w, row', tombstone', runtime', newest')
  BY ZenonT(30) DEF Informed, Harmless
<1>4. QED
  BY <1>2, <1>3, OthersIdle, OneMoves, Zenon

LEMMA ActivateKeeps ==
  ASSUME IInv, NEW a \in Actors, Activate(a) \/ ActivateFails(a)
  PROVE  IInv' /\ (runtime' \notin {0, runtime} => runtime' >= newest)
<1>1. /\ work[a] \in Works0 /\ work[a].pc = "activate"
      /\ UNCHANGED <<row, tombstone>>
  BY ZenonT(30) DEF IInv, Typed, At, desiredState, Activate, ActivateFails
<1>2. PICK pc \in {"confirm", "undo"}, result \in Results : GoesWith(a, pc, result)
  BY ZenonT(30) DEF Activate, ActivateFails, NotActivated, Results
<1> DEFINE w == [work[a] EXCEPT !.pc = pc, !.result = result]
<1>3. w \in Works0 /\ w.pc \in Harmless
  BY <1>1, <1>2, Zenon DEF Works0, Steps, Harmless
<1>4. work' = [work EXCEPT ![a] = w]
  BY <1>2, Zenon DEF GoesWith
<1>5. CASE runtime' = 0 /\ UNCHANGED newest
  BY <1>1, <1>3, <1>4, <1>5, MovesHarmlessly, Zenon
<1>6. CASE Runs(IF runtime = 0 THEN work[a].target.revision ELSE runtime)
  BY <1>1, <1>3, <1>4, <1>6, InstalledKeeps, Zenon
<1>7. QED
  BY <1>5, <1>6, ZenonT(30) DEF Activate, ActivateFails

LEMMA ReconcilingKeeps ==
  ASSUME IInv, NEW a \in Actors, NEW how \in {"none", "one", "all"}, Reconciling(a, how)
  PROVE  IInv'
<1>1. Free(a) /\ UNCHANGED <<row, tombstone, runtime, newest>>
  BY ZenonT(30) DEF Reconciling, desiredState
<1>2. \E w \in Works0 : w.pc \in Harmless /\ work' = [work EXCEPT ![a] = w]
  <2>1. /\ [Idle EXCEPT !.pc = "read", !.how = how] \in Works0
        /\ [Idle EXCEPT !.pc = "read", !.how = how].pc \in Harmless
    BY Zenon DEF Idle, Works0, Steps, Row, Absent, Harmless, Results
  <2>2. NotCurrent(how) \in Works0 /\ NotCurrent(how).pc \in Harmless
    BY Zenon DEF NotCurrent, Idle, Works0, Steps, Row, Absent, Harmless, Results
  <2>3. /\ [Idle EXCEPT !.pc = "done", !.how = how, !.result = "error"] \in Works0
        /\ [Idle EXCEPT !.pc = "done", !.how = how, !.result = "error"].pc \in Harmless
    BY Zenon DEF Idle, Works0, Steps, Row, Absent, Harmless, Results
  <2>4. QED
    BY <2>1, <2>2, <2>3, Zenon DEF Reconciling
<1>3. QED
  BY <1>1, <1>2, MovesHarmlessly, Zenon

-----------------------------------------------------------------------------
(* The cycle only takes runtimes away, besides starting and ending a       *)
(* reconciliation.                                                         *)
LEMMA CyclesKeep ==
  ASSUME IInv, Cycles, cycle \in CycleType
  PROVE  IInv' /\ runtime' \in {0, runtime}
<1>1. CASE LoadDesired \/ ProjectCurrent \/ Decide \/ Close \/ Reload
  <2>1. UNCHANGED <<work, row, tombstone>>
    BY <1>1, Zenon DEF LoadDesired, ProjectCurrent, Decide, Close, Reload, desiredState
  <2>2. runtime' \in {0, runtime} /\ newest' = newest
    BY <1>1, Fences, Zenon DEF LoadDesired, ProjectCurrent, Decide, Close, Reload
  <2>3. QED
    BY <2>1, <2>2, NothingNew
<1>2. CASE ReconcileTargets
  BY <1>2, ReconcilingKeeps, Zenon DEF ReconcileTargets, Reconciling, Actors, CycleType
<1>3. CASE TakeReceipt
  <2>1. Idle \in Works0 /\ Idle.pc \in Harmless
    BY ZenonT(30) DEF Idle, Works0, Row, Absent, Steps, Results, Harmless
  <2>2. /\ "reconciler" \in Actors /\ work["reconciler"].pc # "idle"
        /\ work' = [work EXCEPT !["reconciler"] = Idle]
        /\ UNCHANGED <<row, tombstone, runtime, newest>>
    BY <1>3 DEF TakeReceipt, At, Actors, desiredState
  <2>3. QED
    BY <2>1, <2>2, MovesHarmlessly, Zenon
<1>4. QED
  BY <1>1, <1>2, <1>3 DEF Cycles

(* The record of the cycle stays one.                                      *)
LEMMA CycleTyped ==
  ASSUME cycle \in CycleType, row \in Row, [Next]_vars
  PROVE  cycle' \in CycleType
<1>1. [Resting EXCEPT !.serving = TRUE] \in CycleType /\ Resting \in CycleType
  BY Zenon DEF Resting, CycleType, Row, Absent
<1>2. ASSUME NEW after \in {"end", "clear", "reload"}, Closing(after)
      PROVE  cycle' \in CycleType
  BY <1>2, Zenon DEF Closing, CycleType
<1>3. ASSUME NEW pc \in {"decide", "wait", "reload"}, cycle' = [cycle EXCEPT !.pc = pc]
      PROVE  cycle' \in CycleType
  BY <1>3 DEF CycleType
<1>4. ASSUME LoadDesired PROVE cycle' \in CycleType
  <2>1. [cycle EXCEPT !.pc = "project", !.desired = row] \in CycleType
    BY Zenon DEF CycleType
  <2>2. QED
    BY <1>2, <1>4, <2>1 DEF LoadDesired, Fingerprint
<1>5. ASSUME Decide PROVE cycle' \in CycleType
  <2>1. ReconciliationTargets(cycle.desired) \in {"none", "one", "all"}
    BY ZenonT(30) DEF ReconciliationTargets
  <2>2. QED
    BY <1>5, <2>1, Zenon DEF Decide, CycleType
<1>6. ASSUME ProjectCurrent \/ TakeReceipt \/ ReconcileTargets PROVE cycle' \in CycleType
  BY <1>2, <1>3, <1>6 DEF ProjectCurrent, TakeReceipt, ReconcileTargets
<1>7. ASSUME Close PROVE cycle' \in CycleType
  <2>1. cycle.after \in {"end", "clear", "reload"}
    BY DEF CycleType
  <2>2. cycle' = [cycle EXCEPT !.pc = "reload"] \/ \E snapshot : CycleEnds(snapshot)
    BY <1>7, <2>1, Zenon DEF Close
  <2>3. QED
    BY <1>1, <1>3, <2>2, Zenon DEF CycleEnds
<1>8. ASSUME Reload PROVE cycle' \in CycleType
  BY <1>1, <1>2, <1>8, Zenon DEF Reload, CycleEnds
<1>9. ASSUME Works \/ Requested \/ Drop \/ Restart \/ UNCHANGED vars PROVE cycle' \in CycleType
  <2>1. cycle' = cycle \/ cycle' = Resting
    <3>1. CASE Works
      BY <3>1, ZenonT(60) DEF Works, Projects, Retire, Commit, CommitFails, ReadForRestore, ReadOne, ReadAll,
         ReadFails, Clear, Load, LoadFails, Activate, ActivateFails, Undo, Confirm, ConfirmFails,
         Withdraw, Reply, reconciler
    <3>2. CASE Requested
      BY <3>2, Zenon DEF Requested, Create, SetEnabled, Update, Delete, Mutate, ChangePoints, Reconcile, reconciler
    <3>3. QED
      BY <1>9, <3>1, <3>2 DEF Drop, Restart, vars, reconciler
  <2>2. QED
    BY <1>1, <2>1, ZenonT(30)
<1>10. QED
  BY <1>4, <1>5, <1>6, <1>7, <1>8, <1>9 DEF Next, Cycles

-----------------------------------------------------------------------------
(* The point writer raises the revision of the row under everybody's feet. *)
LEMMA ChangePointsKeeps ==
  ASSUME IInv, ChangePoints
  PROVE  IInv'
<1>1. /\ row.revision \in Nat /\ row.enabled \in BOOLEAN
      /\ row' = [revision |-> row.revision + 1, enabled |-> row.enabled]
  BY ZenonT(30) DEF IInv, Typed, Row, ChangePoints, Advanced
<1>2. row # Absent /\ UNCHANGED <<tombstone, runtime, newest, work>>
  BY DEF ChangePoints
<1>3. /\ row' \in Row /\ row' # Absent /\ row'.enabled = row.enabled
      /\ row'.revision > tombstone /\ row'.revision > row.revision
  BY <1>1, <1>2, NextRow, ZenonT(30)
<1>4. Typed' /\ Alone' /\ DisabledNeverRuns'
  BY <1>2, <1>3, ZenonT(30) DEF IInv, Typed, Alone, DisabledNeverRuns
<1>5. Ordered'
  BY <1>1, <1>2, <1>3, SMTT(60) DEF IInv, Typed, Ordered, Row
<1>6. ASSUME NEW a \in Actors
      PROVE  Informed(work'[a], row', tombstone', runtime', newest')
  <2>1. work[a].target.revision \in Nat /\ row'.revision \in Nat
    BY <1>3, ZenonT(30) DEF IInv, Typed, Works0, Row
  <2>2. QED
    BY <1>1, <1>2, <1>3, <2>1 DEF IInv, Informed
<1>7. QED
  BY <1>4, <1>5, <1>6, ZenonT(30) DEF IInv

LEMMA DropKeeps ==
  ASSUME IInv, Drop
  PROVE  IInv' /\ (runtime' \notin {0, runtime} => runtime' >= newest)
<1>1. Idle \in Works0 /\ Idle.pc \in Harmless
  BY DEF Idle, Works0, Row, Absent, Steps, Results, Harmless
<1>2. /\ "mutator" \in Actors /\ work["mutator"].pc # "idle"
      /\ work' = [work EXCEPT !["mutator"] = Idle] /\ UNCHANGED <<row, tombstone>>
  BY DEF Drop, Actors, desiredState
<1>3. CASE runtime' \in {0, runtime} /\ UNCHANGED newest
  BY <1>1, <1>2, <1>3, MovesHarmlessly, Zenon
<1>4. CASE /\ work["mutator"].pc = "activate"
           /\ Runs(IF runtime = 0 THEN work["mutator"].target.revision ELSE runtime)
  BY <1>1, <1>2, <1>4, InstalledKeeps, Zenon
<1>5. QED
  BY <1>3, <1>4, ZenonT(30) DEF Drop

LEMMA RestartKeeps ==
  ASSUME IInv, Restart
  PROVE  IInv'
<1>1. Idle \in Works0 /\ Idle.pc = "idle"
  BY DEF Idle, Works0, Row, Absent, Steps, Results
<1>2. /\ work' = [a \in Actors |-> Idle] /\ UNCHANGED <<row, tombstone, newest>> /\ runtime' = 0
  BY ZenonT(30) DEF Restart, desiredState
<1>3. Typed' /\ Alone' /\ Ordered' /\ DisabledNeverRuns'
  BY <1>1, <1>2 DEF IInv, Typed, Alone, Ordered, DisabledNeverRuns
<1>4. \A a \in Actors : Informed(work'[a], row', tombstone', runtime', newest')
  BY <1>1, <1>2 DEF Informed
<1>5. QED
  BY <1>3, <1>4, ZenonT(30) DEF IInv

-----------------------------------------------------------------------------
LEMMA InitHolds ==
  ASSUME Init
  PROVE  IInv /\ cycle \in CycleType
<1>1. Idle \in Works0 /\ Idle.pc = "idle" /\ Resting \in CycleType
  BY DEF Idle, Works0, Row, Absent, Steps, Results, Resting, CycleType
<1>2. Typed /\ Alone
  <2>1. \A e \in BOOLEAN, n \in Nat : [revision |-> n, enabled |-> e] \in Row
    BY DEF Row
  <2>2. row \in Row
    BY <2>1, Zenon DEF Init, Absent
  <2>3. QED
    BY <1>1, <2>2 DEF Init, Typed, Alone
<1>3. Ordered /\ DisabledNeverRuns
  <2>1. row # Absent => row.revision = 1
    BY DEF Init
  <2>2. QED
    BY <2>1 DEF Init, Ordered, DisabledNeverRuns
<1>4. \A a \in Actors : Informed(work[a], row, tombstone, runtime, newest)
  BY <1>1, ZenonT(30) DEF Init, Informed
<1>5. QED
  BY <1>1, <1>2, <1>3, <1>4, ZenonT(30) DEF IInv, Init

(* Every step preserves the invariant, and brings no older revision back.  *)
LEMMA StepHolds ==
  ASSUME IInv, cycle \in CycleType, [Next]_vars
  PROVE  IInv' /\ (runtime' \notin {0, runtime} => runtime' >= newest)
<1>1. CASE UNCHANGED vars
  BY <1>1, NothingNew DEF vars
<1>2. CASE Cycles
  BY <1>2, CyclesKeep
<1>3. CASE Retire \/ Commit \/ CommitFails
  <2>1. runtime' \in {0, runtime}
    BY <1>3, Fences, ZenonT(30) DEF Retire, Commit, CommitFails
  <2>2. QED
    BY <1>3, <2>1, RetireKeeps, CommitKeeps
<1>4. ASSUME NEW a \in Actors, Projects(a)
      PROVE  IInv' /\ (runtime' \notin {0, runtime} => runtime' >= newest)
  <2>1. CASE Activate(a) \/ ActivateFails(a)
    BY <2>1, ActivateKeeps, ZenonT(30)
  <2>2. CASE ReadForRestore(a) \/ ReadOne(a) \/ ReadAll(a)
    BY <2>2, ReadsKeep, ZenonT(30) DEF ReadForRestore, ReadOne, ReadAll
  <2>3. CASE Clear(a) \/ Load(a)
    <3>1. runtime' \in {0, runtime}
      BY <2>3, Fences DEF Clear, Load
    <3>2. QED
      BY <2>3, <3>1, ClearKeeps, LoadKeeps, ZenonT(30)
  <2>4. CASE ReadFails(a) \/ Undo(a) \/ Confirm(a) \/ ConfirmFails(a) \/ Withdraw(a) \/ Reply(a)
             \/ LoadFails(a)
    <3>1. runtime' \in {0, runtime}
      BY <2>4, Fences DEF FenceAttempted, ReadFails, Undo, Confirm, ConfirmFails, Withdraw, Reply, LoadFails
    <3>2. QED
      BY <2>4, <3>1, PlainStepsKeep, ZenonT(30)
  <2>5. QED
    BY <1>4, <2>1, <2>2, <2>3, <2>4 DEF Projects
<1>5. CASE Requested
  <2>1. runtime' = runtime
    BY <1>5, Zenon DEF Requested, Create, SetEnabled, Update, Delete, Mutate, ChangePoints, Reconcile, Reconciling
  <2>2. ASSUME NEW how \in {"one", "all"}, Reconcile(how) PROVE IInv'
    BY <2>2, ReconcilingKeeps DEF Reconcile, Actors
  <2>3. IInv'
    BY <1>5, <2>2, CreateKeeps, SetEnabledKeeps, UpdateKeeps, DeleteKeeps, ChangePointsKeeps DEF Requested
  <2>4. QED
    BY <2>1, <2>3, SMTT(60)
<1>6. CASE Drop
  BY <1>6, DropKeeps
<1>7. CASE Restart
  BY <1>7, RestartKeeps DEF Restart
<1>8. QED
  BY <1>1, <1>2, <1>3, <1>4, <1>5, <1>6, <1>7 DEF Next, Works

(* A disabled or deleted channel has no runtime, however many requests,    *)
(* failures, dropped requests and restarts there are: set_enabled and      *)
(* delete fence before they commit and restore only what is still enabled. *)
THEOREM DisabledNeverRunsAlways == Spec => []DisabledNeverRuns
<1>1. Init => IInv /\ cycle \in CycleType
  BY InitHolds, ZenonT(30)
<1>2. IInv /\ cycle \in CycleType /\ [Next]_vars => (IInv /\ cycle \in CycleType)'
  BY StepHolds, CycleTyped DEF IInv, Typed
<1>3. IInv => DisabledNeverRuns
  BY DEF IInv
<1>4. QED
  BY <1>1, <1>2, <1>3, PTL DEF Spec

(* No activation, of the mutator or of a reconciler, brings back a         *)
(* revision older than one that has run.                                   *)
THEOREM NewestWinsAlways == Spec => NewestWins
<1>1. Init => IInv /\ cycle \in CycleType
  BY InitHolds
<1>2. IInv /\ cycle \in CycleType /\ [Next]_vars => (IInv /\ cycle \in CycleType)'
  BY StepHolds, CycleTyped DEF IInv, Typed
<1>3. IInv /\ cycle \in CycleType /\ [Next]_vars => [runtime' \notin {0, runtime} => runtime' >= newest]_vars
  BY StepHolds
<1>4. QED
  BY <1>1, <1>2, <1>3, PTL DEF Spec, NewestWins

-----------------------------------------------------------------------------
(* What an operation w has found of the runtime, by its step.              *)
Told(w, run) ==
    /\ w.pc \in {"idle", "retire", "commit", "read", "clear", "load", "activate"} => w.result = "none"
    /\ w.pc \in {"load", "activate"} => run = 0
    /\ w.pc = "commit" /\ (Retiring(w) \/ w.base = Absent) => run = 0
    /\ w.pc \in {"undo", "withdraw"} => w.result \in {"none", "degraded", "error"}
    /\ w.pc \in {"confirm", "done"} =>
           /\ w.result = "active" => run = w.target.revision
           /\ w.result \in {"stopped", "removed"} => run = 0
    /\ w.pc \in {"undo", "withdraw", "confirm", "done"} /\ w.how # "restore" => w.result # "none"
    /\ w.pc # "idle" => w.how # "none"

AllTold == \A a \in Actors : Told(work[a], runtime)

(* An enabled row that was read once is the row, or is older than the row  *)
(* or than its deletion.                                                   *)
Past(r) == r.enabled => r = row \/ r.revision < row.revision \/ r.revision <= tombstone

(* The rows of which the cycle believes that they have been applied.       *)
Believed == applied \cup (IF cycle.pc = "reload" /\ cycle.converged THEN {cycle.desired} ELSE {})

(* Operation a is carried out on a row that is, or may become, believed.   *)
Concerns(a) == \/ row \in Believed
               \/ a = "reconciler" /\ cycle.pc = "wait" /\ cycle.desired = row

Aims(w) == w.pc \in {"clear", "load", "activate"} \/ w.result = "active"

Known ==
    /\ applied \in SUBSET Row
    /\ \A r \in applied \cup {cycle.desired} : Past(r)
    /\ row \in Believed => runtime \in {0, row.revision}
    /\ \A a \in Actors :
           row.enabled /\ Concerns(a) /\ Aims(work[a]) => work[a].target.revision = row.revision
    /\ work["reconciler"].how \notin {"restore", "command"}
    /\ work["reconciler"].pc # "idle" => cycle.pc = "wait"
    /\ cycle.pc = "close" => ~cycle.converged
    /\ cycle.pc = "reconcile" => cycle.scope # "none"

-----------------------------------------------------------------------------
(* The operation that follows when one goes on to another step.            *)
LEMMA GoesForm ==
  ASSUME Typed, NEW a \in Actors, NEW pc \in Steps, Goes(a, pc)
  PROVE  \E w \in Works0 : /\ work' = [work EXCEPT ![a] = w] /\ w.pc = pc
                           /\ w.result = work[a].result /\ w.how = work[a].how
                           /\ w.base = work[a].base /\ w.target = work[a].target
<1> DEFINE w == [work[a] EXCEPT !.pc = pc]
<1>1. work[a] \in Works0
  BY DEF Typed
<1>2. /\ w \in Works0 /\ w.pc = pc /\ w.result = work[a].result /\ w.how = work[a].how
      /\ w.base = work[a].base /\ w.target = work[a].target
  BY <1>1 DEF Works0
<1>3. work' = [work EXCEPT ![a] = w]
  BY Zenon DEF Goes
<1>4. QED
  BY <1>2, <1>3, Zenon

LEMMA GoesWithForm ==
  ASSUME Typed, NEW a \in Actors, NEW pc \in Steps, NEW result \in Results, GoesWith(a, pc, result)
  PROVE  \E w \in Works0 : /\ work' = [work EXCEPT ![a] = w] /\ w.pc = pc
                           /\ w.result = result /\ w.how = work[a].how
                           /\ w.base = work[a].base /\ w.target = work[a].target
<1> DEFINE w == [work[a] EXCEPT !.pc = pc, !.result = result]
<1>1. work[a] \in Works0
  BY DEF Typed
<1>2. /\ w \in Works0 /\ w.pc = pc /\ w.result = result /\ w.how = work[a].how
      /\ w.base = work[a].base /\ w.target = work[a].target
  BY <1>1, ZenonT(30) DEF Works0
<1>3. work' = [work EXCEPT ![a] = w]
  BY Zenon DEF GoesWith
<1>4. QED
  BY <1>2, <1>3, Zenon

LEMMA ReadForm ==
  ASSUME Typed, NEW a \in Actors, work' = [work EXCEPT ![a].pc = "clear", ![a].target = row]
  PROVE  \E w \in Works0 : /\ work' = [work EXCEPT ![a] = w] /\ w.pc = "clear"
                           /\ w.result = work[a].result /\ w.how = work[a].how
                           /\ w.base = work[a].base /\ w.target = row
<1> DEFINE w == [work[a] EXCEPT !.pc = "clear", !.target = row]
<1>1. work[a] \in Works0 /\ row \in Row
  BY DEF Typed
<1>2. /\ w \in Works0 /\ w.pc = "clear" /\ w.result = work[a].result /\ w.how = work[a].how
      /\ w.base = work[a].base /\ w.target = row
  BY <1>1, ZenonT(30) DEF Works0, Steps
<1>3. work' = [work EXCEPT ![a] = w]
  BY Zenon
<1>4. QED
  BY <1>2, <1>3, Zenon

LEMMA IdleForm == Idle \in Works0 /\ Idle.pc = "idle" /\ Idle.result = "none" /\ Idle.how = "none"
BY ZenonT(30) DEF Idle, Works0, Row, Absent, Steps, Results

(* Operation w follows the one of actor a: it reports the runtime as it    *)
(* now is, and aims at the row or where that one aimed.                    *)
Follows(a, w) ==
    /\ Told(w, runtime')
    /\ Aims(w) => w.target = row \/ (w.target = work[a].target /\ Aims(work[a]))
    /\ a = "reconciler" => w.how \in {work[a].how, "none"}

(* A step of one operation that leaves the desired state and the cycle     *)
(* alone, and takes the runtime away, leaves it, or installs its target.   *)
OneFollows(a) ==
    /\ \E w \in Works0 : work' = [work EXCEPT ![a] = w] /\ Follows(a, w)
    /\ work[a].pc # "idle"
    /\ \/ runtime' \in {0, runtime}
       \/ work[a].pc = "activate" /\ runtime' = work[a].target.revision
    /\ UNCHANGED <<row, tombstone, cycle, applied>>

-----------------------------------------------------------------------------
(* Every step of a projection is such a step.                              *)
LEMMA ReadsFollow ==
  ASSUME Typed, AllTold, NEW a \in Actors,
         ReadForRestore(a) \/ ReadOne(a) \/ ReadAll(a) \/ ReadFails(a)
  PROVE  OneFollows(a)
<1>1. /\ work[a].pc = "read" /\ UNCHANGED <<row, tombstone, runtime, cycle, applied>>
      /\ Told(work[a], runtime)
  BY DEF AllTold, At, desiredState, reconciler, ReadForRestore, ReadOne, ReadAll, ReadFails
<1>2. CASE work' = [work EXCEPT ![a].pc = "clear", ![a].target = row]
  <2>1. PICK w \in Works0 : /\ work' = [work EXCEPT ![a] = w] /\ w.pc = "clear"
                            /\ w.result = work[a].result /\ w.how = work[a].how
                            /\ w.base = work[a].base /\ w.target = row
    BY <1>2, ReadForm, ZenonT(30)
  <2>2. Follows(a, w)
    BY <1>1, <2>1 DEF Follows, Told, Aims
  <2>3. QED
    BY <1>1, <2>1, <2>2, ZenonT(30) DEF OneFollows
<1>3. CASE Goes(a, "undo") /\ work[a].how = "restore"
  <2>1. PICK w \in Works0 : /\ work' = [work EXCEPT ![a] = w] /\ w.pc = "undo"
                            /\ w.result = work[a].result /\ w.how = work[a].how
                            /\ w.base = work[a].base /\ w.target = work[a].target
    BY <1>3, GoesForm, ZenonT(30) DEF Steps
  <2>2. Follows(a, w)
    BY <1>1, <1>3, <2>1 DEF Follows, Told, Aims
  <2>3. QED
    BY <1>1, <2>1, <2>2, ZenonT(30) DEF OneFollows
<1>4. CASE \E pc \in {"done", "undo"} : GoesWith(a, pc, "error")
  <2>0. PICK pc \in {"done", "undo"} : GoesWith(a, pc, "error")
    BY <1>4, ZenonT(30)
  <2>1. PICK w \in Works0 : /\ work' = [work EXCEPT ![a] = w] /\ w.pc = pc
                            /\ w.result = "error" /\ w.how = work[a].how
                            /\ w.base = work[a].base /\ w.target = work[a].target
    BY <2>0, GoesWithForm DEF Steps, Results
  <2>2. Follows(a, w)
    BY <1>1, <2>1, ZenonT(30) DEF Follows, Told, Aims
  <2>3. QED
    BY <1>1, <2>1, <2>2, ZenonT(30) DEF OneFollows
<1>5. QED
  BY <1>2, <1>3, <1>4, ZenonT(30) DEF ReadForRestore, ReadOne, ReadAll, ReadFails

(* A fence that succeeds is followed by a step that knows that nothing     *)
(* runs; one that fails, by a degraded receipt.                            *)
LEMMA ClearFollows ==
  ASSUME Typed, AllTold, NEW a \in Actors, Clear(a)
  PROVE  OneFollows(a)
<1>1. /\ work[a].pc = "clear" /\ UNCHANGED <<row, tombstone, cycle, applied>>
      /\ Told(work[a], runtime) /\ runtime' \in {0, runtime}
  BY DEF AllTold, At, desiredState, reconciler, Clear, Fenced, FenceFails
<1>2. CASE runtime' = 0 /\ \E pc \in {"load", "activate"} : Goes(a, pc)
  <2>0. PICK pc \in {"load", "activate"} : Goes(a, pc)
    BY <1>2, ZenonT(30)
  <2>1. PICK w \in Works0 : /\ work' = [work EXCEPT ![a] = w] /\ w.pc = pc
                            /\ w.result = work[a].result /\ w.how = work[a].how
                            /\ w.base = work[a].base /\ w.target = work[a].target
    BY <2>0, GoesForm DEF Steps
  <2>2. Follows(a, w)
    BY <1>1, <1>2, <2>1 DEF Follows, Told, Aims
  <2>3. QED
    BY <1>1, <2>1, <2>2, ZenonT(30) DEF OneFollows
<1>3. CASE \/ runtime' = 0 /\ \E pc \in {"done", "confirm"}, result \in {"removed", "stopped"} : GoesWith(a, pc, result)
           \/ \E pc \in {"done", "confirm"} : GoesWith(a, pc, "degraded")
  <2>0. PICK pc \in {"done", "confirm"}, result \in {"removed", "stopped", "degraded"} :
            GoesWith(a, pc, result) /\ (result # "degraded" => runtime' = 0)
    BY <1>3, ZenonT(30)
  <2>1. PICK w \in Works0 : /\ work' = [work EXCEPT ![a] = w] /\ w.pc = pc
                            /\ w.result = result /\ w.how = work[a].how
                            /\ w.base = work[a].base /\ w.target = work[a].target
    BY <2>0, GoesWithForm DEF Steps, Results
  <2>2. Follows(a, w)
    BY <1>1, <2>0, <2>1 DEF Follows, Told, Aims
  <2>3. QED
    BY <1>1, <2>1, <2>2, ZenonT(30) DEF OneFollows
<1>4. QED
  BY <1>2, <1>3, ZenonT(30) DEF Clear, AfterClear, Unwanted, Fenced

LEMMA NotActivatedFollows ==
  ASSUME Typed, AllTold, NEW a \in Actors, NotActivated(a), work[a].pc \in {"load", "activate"}
  PROVE  \E w \in Works0 : work' = [work EXCEPT ![a] = w] /\ Follows(a, w)
<1>0. PICK pc \in {"confirm", "undo"} : GoesWith(a, pc, "degraded")
  BY ZenonT(30) DEF NotActivated
<1>1. PICK w \in Works0 : /\ work' = [work EXCEPT ![a] = w] /\ w.pc = pc
                          /\ w.result = "degraded" /\ w.how = work[a].how
                          /\ w.base = work[a].base /\ w.target = work[a].target
  BY <1>0, GoesWithForm DEF Steps, Results
<1>2. Told(work[a], runtime)
  BY ZenonT(30) DEF AllTold
<1>3. Follows(a, w)
  BY <1>1, <1>2, ZenonT(30) DEF Follows, Told, Aims
<1>4. QED
  BY <1>1, <1>3, ZenonT(30)

LEMMA LoadsFollow ==
  ASSUME Typed, AllTold, NEW a \in Actors, Load(a) \/ LoadFails(a)
  PROVE  OneFollows(a)
<1>1. /\ work[a].pc = "load" /\ UNCHANGED <<row, tombstone, runtime, cycle, applied>>
      /\ Told(work[a], runtime)
  BY DEF AllTold, At, desiredState, reconciler, Load, LoadFails
<1>2. CASE Goes(a, "activate")
  <2>1. PICK w \in Works0 : /\ work' = [work EXCEPT ![a] = w] /\ w.pc = "activate"
                            /\ w.result = work[a].result /\ w.how = work[a].how
                            /\ w.base = work[a].base /\ w.target = work[a].target
    BY <1>2, GoesForm, ZenonT(30) DEF Steps
  <2>2. Follows(a, w)
    BY <1>1, <2>1, ZenonT(30) DEF Follows, Told, Aims
  <2>3. QED
    BY <1>1, <2>1, <2>2, ZenonT(30) DEF OneFollows
<1>3. CASE NotActivated(a)
  BY <1>1, <1>3, NotActivatedFollows DEF OneFollows
<1>4. QED
  BY <1>2, <1>3, ZenonT(30) DEF Load, LoadFails

LEMMA ActivatesFollow ==
  ASSUME Typed, AllTold, NEW a \in Actors, Activate(a) \/ ActivateFails(a)
  PROVE  OneFollows(a)
<1>1. /\ work[a].pc = "activate" /\ UNCHANGED <<row, tombstone, cycle, applied>>
      /\ Told(work[a], runtime) /\ runtime = 0
  BY ZenonT(30) DEF AllTold, Told, At, desiredState, reconciler, Activate, ActivateFails
<1>2. runtime' \in {0, work[a].target.revision}
  BY <1>1 DEF Activate, ActivateFails, Runs
<1>3. CASE Activate(a)
  <2>0. runtime' = work[a].target.revision /\ GoesWith(a, "confirm", "active")
    BY <1>1, <1>3, ZenonT(30) DEF Activate, Runs
  <2>1. PICK w \in Works0 : /\ work' = [work EXCEPT ![a] = w] /\ w.pc = "confirm"
                            /\ w.result = "active" /\ w.how = work[a].how
                            /\ w.base = work[a].base /\ w.target = work[a].target
    BY <2>0, GoesWithForm DEF Steps, Results
  <2>2. Follows(a, w)
    BY <1>1, <2>0, <2>1, ZenonT(30) DEF Follows, Told, Aims
  <2>3. QED
    BY <1>1, <1>2, <2>1, <2>2, ZenonT(30) DEF OneFollows
<1>4. CASE ActivateFails(a)
  BY <1>1, <1>2, <1>4, NotActivatedFollows, ZenonT(30) DEF OneFollows, ActivateFails
<1>5. QED
  BY <1>3, <1>4, ZenonT(30)

LEMMA EndsFollow ==
  ASSUME Typed, AllTold, NEW a \in Actors,
         Undo(a) \/ Confirm(a) \/ ConfirmFails(a) \/ Withdraw(a) \/ Reply(a)
  PROVE  OneFollows(a)
<1>1. /\ work[a].pc \in {"undo", "confirm", "withdraw", "done"}
      /\ UNCHANGED <<row, tombstone, cycle, applied>>
      /\ Told(work[a], runtime) /\ runtime' \in {0, runtime}
  BY DEF AllTold, At, desiredState, reconciler, Undo, Confirm, ConfirmFails, Withdraw, Reply,
         FenceAttempted, Fenced, FenceFails
<1>2. CASE \/ Undo(a) /\ \E pc \in {"done", "confirm"} : Goes(a, pc)
           \/ Withdraw(a) /\ Goes(a, "done")
           \/ Confirm(a) /\ Goes(a, "done")
  <2>0. PICK pc \in {"done", "confirm"} : Goes(a, pc)
    BY <1>2, ZenonT(30)
  <2>1. PICK w \in Works0 : /\ work' = [work EXCEPT ![a] = w] /\ w.pc = pc
                            /\ w.result = work[a].result /\ w.how = work[a].how
                            /\ w.base = work[a].base /\ w.target = work[a].target
    BY <2>0, GoesForm DEF Steps
  <2>2. \/ work[a].pc \in {"undo", "withdraw"}
        \/ work[a].pc = "confirm" /\ runtime' = runtime
    BY <1>2, ZenonT(30) DEF Undo, Withdraw, Confirm, At
  <2>3. Follows(a, w)
    BY <1>1, <2>1, <2>2 DEF Follows, Told, Aims
  <2>4. QED
    BY <1>1, <2>1, <2>3, ZenonT(30) DEF OneFollows
<1>3. CASE \E result \in {"error", "degraded"} : GoesWith(a, "withdraw", result)
  <2>0. PICK result \in {"error", "degraded"} : GoesWith(a, "withdraw", result)
    BY <1>3, ZenonT(30)
  <2>1. PICK w \in Works0 : /\ work' = [work EXCEPT ![a] = w] /\ w.pc = "withdraw"
                            /\ w.result = result /\ w.how = work[a].how
                            /\ w.base = work[a].base /\ w.target = work[a].target
    BY <2>0, GoesWithForm, SMTT(30) DEF Steps, Results
  <2>2. Follows(a, w)
    BY <1>1, <2>0, <2>1 DEF Follows, Told, Aims
  <2>3. QED
    BY <1>1, <2>1, <2>2, ZenonT(30) DEF OneFollows
<1>4. CASE work' = [work EXCEPT ![a] = Idle]
  <2>1. Follows(a, Idle)
    BY IdleForm DEF Follows, Told, Aims
  <2>2. QED
    BY <1>1, <1>4, <2>1, IdleForm, ZenonT(30) DEF OneFollows
<1>5. QED
  BY <1>2, <1>3, <1>4, ZenonT(30) DEF Undo, Confirm, ConfirmFails, Withdraw, Reply

(* So are the fence before a disable or a delete, and a dropped request.   *)
LEMMA RetireFollows ==
  ASSUME Typed, AllTold, Retire
  PROVE  OneFollows("mutator")
<1> DEFINE v == work["mutator"]
<1>1. /\ "mutator" \in Actors /\ v.pc = "retire" /\ UNCHANGED <<row, tombstone, cycle, applied>>
      /\ Told(v, runtime) /\ runtime' \in {0, runtime} /\ v \in Works0
  BY DEF Typed, AllTold, At, desiredState, reconciler, Retire, Fenced, FenceFails, Actors
<1>2. CASE runtime' = 0 /\ Goes("mutator", "commit")
  <2>1. PICK w \in Works0 : /\ work' = [work EXCEPT !["mutator"] = w] /\ w.pc = "commit"
                            /\ w.result = v.result /\ w.how = v.how
                            /\ w.base = v.base /\ w.target = v.target
    BY <1>1, <1>2, GoesForm, ZenonT(30) DEF Steps
  <2>2. Follows("mutator", w)
    BY <1>1, <1>2, <2>1 DEF Follows, Told, Aims
  <2>3. QED
    BY <1>1, <2>1, <2>2, ZenonT(30) DEF OneFollows
<1>3. CASE work' = [work EXCEPT !["mutator"].pc = "read", !["mutator"].how = "restore"]
  <2> DEFINE w == [v EXCEPT !.pc = "read", !.how = "restore"]
  <2>1. /\ w \in Works0 /\ w.pc = "read" /\ w.result = v.result /\ w.how = "restore"
    BY <1>1, ZenonT(30) DEF Works0, Steps
  <2>2. work' = [work EXCEPT !["mutator"] = w]
    BY <1>3, Zenon
  <2> HIDE DEF w
  <2>3. Follows("mutator", w)
    BY <1>1, <2>1 DEF Follows, Told, Aims
  <2>4. QED
    BY <1>1, <2>1, <2>2, <2>3, ZenonT(30) DEF OneFollows
<1>4. QED
  BY <1>2, <1>3 DEF Retire, Fenced

LEMMA DropFollows ==
  ASSUME Typed, AllTold, Drop
  PROVE  OneFollows("mutator")
<1> DEFINE v == work["mutator"]
<1>1. /\ "mutator" \in Actors /\ v.pc # "idle" /\ UNCHANGED <<row, tombstone, cycle, applied>>
      /\ Told(v, runtime) /\ work' = [work EXCEPT !["mutator"] = Idle]
  BY ZenonT(30) DEF AllTold, desiredState, reconciler, Drop, Actors
<1>2. runtime' \in {0, runtime} \/ (v.pc = "activate" /\ runtime' = v.target.revision)
  BY <1>1, ZenonT(30) DEF Drop, Runs, Told
<1>3. Follows("mutator", Idle)
  BY IdleForm DEF Follows, Told, Aims
<1>4. QED
  BY <1>1, <1>2, <1>3, IdleForm, ZenonT(30) DEF OneFollows

LEMMA ProjectsFollow ==
  ASSUME Typed, AllTold, NEW a \in Actors, Projects(a)
  PROVE  OneFollows(a)
BY ReadsFollow, ClearFollows, LoadsFollow, ActivatesFollow, EndsFollow, Zenon DEF Projects

-----------------------------------------------------------------------------
(* One operation moves, the others being idle: all are told still.         *)
LEMMA ToldMoves ==
  ASSUME IInv, AllTold, NEW a \in Actors, NEW w \in Works0, work[a].pc # "idle" \/ Free(a),
         work' = [work EXCEPT ![a] = w], Told(w, runtime')
  PROVE  AllTold'
<1>1. ASSUME NEW b \in Actors PROVE Told(work'[b], runtime')
  <2>1. CASE b = a
    BY <2>1, ZenonT(30) DEF IInv, Typed
  <2>2. CASE b # a
    <3>1. work'[b] = work[b] /\ work[b].pc = "idle" /\ Told(work[b], runtime)
      BY <2>2, OthersIdle, ZenonT(30) DEF IInv, Typed, AllTold
    <3>2. QED
      BY <3>1, ZenonT(30) DEF Told
  <2>3. QED
    BY <2>1, <2>2, ZenonT(30)
<1>2. QED
  BY <1>1, ZenonT(30) DEF AllTold

(* A step of one operation keeps what is known of the runtime.             *)
LEMMA KnownMoves ==
  ASSUME IInv, AllTold, Known, NEW a \in Actors, OneFollows(a)
  PROVE  AllTold' /\ Known'
<1>1. PICK w \in Works0 : work' = [work EXCEPT ![a] = w] /\ Follows(a, w)
  BY ZenonT(30) DEF OneFollows
<1>2. /\ work[a].pc # "idle" /\ UNCHANGED <<row, tombstone, cycle, applied>>
      /\ \/ runtime' \in {0, runtime}
         \/ work[a].pc = "activate" /\ runtime' = work[a].target.revision
  BY DEF OneFollows
<1>3. AllTold'
  BY <1>1, <1>2, ToldMoves, ZenonT(30) DEF Follows
<1>4. /\ work'[a] = w /\ \A b \in Actors : b # a => work'[b] = work[b]
  BY <1>1, ZenonT(30) DEF IInv, Typed
<1>5. Believed' = Believed /\ \A b \in Actors : Concerns(b)' = Concerns(b)
  BY <1>2, ZenonT(30) DEF Believed, Concerns
<1>6. row.enabled /\ row \in Believed /\ Aims(work[a]) => work[a].target.revision = row.revision
  BY ZenonT(30) DEF Known, Concerns
<1>7. row \in Believed' => runtime' \in {0, row.revision}
  <2>1. CASE runtime' \in {0, runtime}
    BY <1>5, <2>1, ZenonT(30) DEF Known
  <2>2. CASE work[a].pc = "activate" /\ runtime' = work[a].target.revision
    <3>1. row.enabled
      BY <2>2, ZenonT(30) DEF IInv, Informed
    <3>2. QED
      BY <1>5, <1>6, <2>2, <3>1, ZenonT(30) DEF Aims
  <2>3. QED
    BY <1>2, <2>1, <2>2, ZenonT(30)
<1>8. ASSUME NEW b \in Actors, row.enabled, Concerns(b), Aims(work'[b])
      PROVE  work'[b].target.revision = row.revision
  <2>1. CASE b # a
    BY <1>4, <1>8, <2>1, ZenonT(30) DEF Known
  <2>2. CASE b = a
    <3>1. w.target = row \/ (w.target = work[a].target /\ Aims(work[a]))
      BY <1>1, <1>4, <1>8, <2>2, ZenonT(30) DEF Follows
    <3>2. QED
      BY <1>4, <1>8, <2>2, <3>1, ZenonT(30) DEF Known
  <2>3. QED
    BY <2>1, <2>2, ZenonT(30)
<1>9. /\ work'["reconciler"].how \notin {"restore", "command"}
      /\ work'["reconciler"].pc # "idle" => cycle.pc = "wait"
  BY <1>1, <1>2, <1>4, ZenonT(30) DEF Known, Follows, Actors
<1>10. \A r \in applied' \cup {cycle'.desired} : Past(r)'
  BY <1>2, ZenonT(30) DEF Known, Past
<1>11. QED
  BY <1>2, <1>3, <1>5, <1>7, <1>8, <1>9, <1>10 DEF Known

(* A new revision of the row is one that no cycle has seen.                *)
LEMMA RowMoves ==
  ASSUME IInv, IInv', Known, cycle \in CycleType, UNCHANGED <<cycle, applied>>,
         tombstone' >= tombstone,
         row.revision < row'.revision \/ row.revision <= tombstone',
         row'.enabled => row'.revision > row.revision /\ row'.revision > tombstone,
         work'["reconciler"] = work["reconciler"]
  PROVE  Known'
<1>1. /\ row.revision \in Nat /\ row'.revision \in Nat /\ tombstone \in Nat /\ tombstone' \in Nat
      /\ row' \in Row /\ (~row'.enabled => runtime' = 0)
  BY ZenonT(30) DEF IInv, Typed, Row, DisabledNeverRuns
<1>2. ASSUME NEW r \in applied \cup {cycle.desired}
      PROVE  Past(r)' /\ (row'.enabled => row' # r)
  <2>1. r \in Row /\ Past(r)
    BY ZenonT(30) DEF Known, CycleType
  <2>2. r.revision \in Nat
    BY <2>1, ZenonT(30) DEF Row
  <2>3. Past(r)'
    BY <1>1, <2>1, <2>2 DEF Past
  <2>4. ASSUME row'.enabled, row' = r PROVE FALSE
    BY <1>1, <2>1, <2>2, <2>4 DEF Past
  <2>5. QED
    BY <2>3, <2>4, ZenonT(30)
<1>3. Believed' \subseteq applied \cup {cycle.desired}
  BY ZenonT(30) DEF Believed
<1>4. row' \in Believed' => runtime' \in {0, row'.revision}
  BY <1>1, <1>2, <1>3, ZenonT(30)
<1>5. row'.enabled => \A a \in Actors : ~Concerns(a)'
  BY <1>2, <1>3 DEF Concerns
<1>6. QED
  BY <1>2, <1>4, <1>5, ZenonT(30) DEF Known

(* Storing a mutation moves the row, and its operation knows the runtime.  *)
LEMMA StoredKnown ==
  ASSUME IInv, IInv', AllTold, Known, cycle \in CycleType, NEW w \in Works0,
         work["mutator"].pc = "commit", row = work["mutator"].base, Stored(work["mutator"]),
         work' = [work EXCEPT !["mutator"] = w], Told(w, runtime'), UNCHANGED <<cycle, applied>>
  PROVE  AllTold' /\ Known'
<1> DEFINE v == work["mutator"]
<1>1. /\ "mutator" \in Actors /\ v \in Works0
      /\ Informed(v, row, tombstone, runtime, newest)
  BY ZenonT(30) DEF IInv, Typed, Actors
<1>2. v.target \in Row /\ v.base \in Row /\ row.revision \in Nat /\ tombstone \in Nat
  BY <1>1, ZenonT(30) DEF IInv, Typed, Works0, Row
<1>3. /\ tombstone' >= tombstone
      /\ row.revision < row'.revision \/ row.revision <= tombstone'
      /\ row'.enabled => row'.revision > row.revision /\ row'.revision > tombstone
  <2>1. CASE v.target = Absent
    <3>1. v.base # Absent
      BY <1>1, <2>1, ZenonT(30) DEF Informed
    <3>2. v.base.revision > tombstone
      BY <3>1, ZenonT(30) DEF IInv, Ordered
    <3>3. ~Absent.enabled
      BY ZenonT(30) DEF Absent
    <3>4. QED
      BY <1>2, <2>1, <3>2, <3>3 DEF Stored
  <2>2. CASE v.target # Absent
    <3>1. v.target.revision > tombstone /\ v.target.revision > v.base.revision
      BY <1>1, <2>2, ZenonT(30) DEF Informed
    <3>2. QED
      BY <1>2, <2>2, <3>1 DEF Stored
  <2>3. QED
    BY <2>1, <2>2, ZenonT(30)
<1>4. work'["reconciler"] = work["reconciler"]
  BY ZenonT(30) DEF IInv, Typed, Actors
<1>5. QED
  BY <1>1, <1>3, <1>4, RowMoves, ToldMoves, ZenonT(30)

LEMMA CommitKnown ==
  ASSUME IInv, IInv', AllTold, Known, cycle \in CycleType, Commit \/ CommitFails
  PROVE  AllTold' /\ Known'
<1> DEFINE v == work["mutator"]
<1>1. /\ "mutator" \in Actors /\ v \in Works0 /\ v.pc = "commit" /\ Told(v, runtime)
      /\ UNCHANGED <<runtime, cycle, applied>>
  BY ZenonT(30) DEF IInv, Typed, Actors, Commit, CommitFails, At, AllTold, reconciler
<1>2. Restores(v) \in Works0 /\ Told(Restores(v), runtime') /\ Follows("mutator", Restores(v))
  <2>1. CASE Retiring(v)
    <3> DEFINE w == [v EXCEPT !.pc = "read", !.how = "restore"]
    <3>1. w \in Works0 /\ w.pc = "read" /\ w.how = "restore" /\ w.result = v.result /\ Restores(v) = w
      BY <1>1, <2>1, ZenonT(30) DEF Works0, Steps, Restores
    <3> HIDE DEF w
    <3>2. Told(w, runtime') /\ Follows("mutator", w)
      BY <1>1, <3>1, ZenonT(30) DEF Told, Follows, Aims
    <3>3. QED
      BY <3>1, <3>2
  <2>2. CASE ~Retiring(v)
    <3> DEFINE w == [v EXCEPT !.pc = "done", !.result = "error"]
    <3>1. w \in Works0 /\ w.pc = "done" /\ w.how = v.how /\ w.result = "error" /\ Restores(v) = w
      BY <1>1, <2>2, ZenonT(30) DEF Works0, Steps, Results, Restores
    <3> HIDE DEF w
    <3>2. Told(w, runtime') /\ Follows("mutator", w)
      BY <1>1, <3>1, ZenonT(30) DEF Told, Follows, Aims
    <3>3. QED
      BY <3>1, <3>2
  <2>3. QED
    BY <2>1, <2>2, ZenonT(30)
<1>3. Committed(v) \in Works0 /\ Told(Committed(v), runtime')
  <2>1. CASE v.target = Absent
    <3> DEFINE w == [v EXCEPT !.pc = "done", !.result = "removed"]
    <3>1. w \in Works0 /\ w.pc = "done" /\ w.how = v.how /\ w.result = "removed" /\ Committed(v) = w
      BY <1>1, <2>1, ZenonT(30) DEF Works0, Steps, Results, Committed
    <3> HIDE DEF w
    <3>2. Told(w, runtime')
      BY <1>1, <2>1, <3>1, ZenonT(30) DEF Told, Retiring
    <3>3. QED
      BY <3>1, <3>2
  <2>2. CASE v.target # Absent /\ (v.target.enabled \/ (v.base # Absent /\ ~v.base.enabled))
    <3> DEFINE w == [v EXCEPT !.pc = "clear"]
    <3>1. w \in Works0 /\ w.pc = "clear" /\ w.how = v.how /\ w.result = v.result /\ Committed(v) = w
      BY <1>1, <2>2, ZenonT(30) DEF Works0, Steps, Committed
    <3> HIDE DEF w
    <3>2. Told(w, runtime')
      BY <1>1, <3>1, ZenonT(30) DEF Told
    <3>3. QED
      BY <3>1, <3>2, ZenonT(30)
  <2>3. CASE v.target # Absent /\ ~v.target.enabled /\ (v.base = Absent \/ v.base.enabled)
    <3> DEFINE w == [v EXCEPT !.pc = "confirm", !.result = "stopped"]
    <3>1. w \in Works0 /\ w.pc = "confirm" /\ w.how = v.how /\ w.result = "stopped" /\ Committed(v) = w
      BY <1>1, <2>3, ZenonT(30) DEF Works0, Steps, Results, Committed
    <3> HIDE DEF w
    <3>2. Told(w, runtime')
      BY <1>1, <2>3, <3>1 DEF Told, Retiring
    <3>3. QED
      BY <3>1, <3>2
  <2>4. QED
    BY <2>1, <2>2, <2>3, ZenonT(30)
<1>4. CASE row = v.base /\ Stored(v) /\ work' = [work EXCEPT !["mutator"] = Committed(v)]
  BY <1>1, <1>3, <1>4, StoredKnown, ZenonT(30)
<1>5. CASE row = v.base /\ Stored(v) /\ work' = [work EXCEPT !["mutator"] = Restores(v)]
  BY <1>1, <1>2, <1>5, StoredKnown, ZenonT(30)
<1>6. CASE UNCHANGED <<row, tombstone>> /\ work' = [work EXCEPT !["mutator"] = Restores(v)]
  <2>1. OneFollows("mutator")
    BY <1>1, <1>2, <1>6, ZenonT(30) DEF OneFollows
  <2>2. QED
    BY <1>1, <2>1, KnownMoves
<1>7. QED
  BY <1>4, <1>5, <1>6, ZenonT(30) DEF Commit, CommitFails, desiredState

LEMMA ChangePointsKnown ==
  ASSUME IInv, IInv', AllTold, Known, cycle \in CycleType, ChangePoints
  PROVE  AllTold' /\ Known'
<1>1. /\ row.revision \in Nat /\ row'.revision = row.revision + 1 /\ row.revision > tombstone
      /\ tombstone \in Nat /\ UNCHANGED <<tombstone, runtime, work, cycle, applied>>
  BY ZenonT(30) DEF IInv, Typed, Ordered, Row, ChangePoints, Advanced, reconciler
<1>2. Known'
  BY <1>1, RowMoves, SMTT(30)
<1>3. QED
  BY <1>1, <1>2, ZenonT(30) DEF AllTold

(* A new operation, by the mutator or by a caller, aims at nothing yet or  *)
(* at the row.                                                             *)
LEMMA StartsKnown ==
  ASSUME IInv, AllTold, Known, NEW a \in Actors, a # "reconciler", NEW w \in Works0, Free(a),
         work' = [work EXCEPT ![a] = w], Told(w, runtime), Aims(w) => w.target = row,
         UNCHANGED <<row, tombstone, runtime, cycle, applied>>
  PROVE  AllTold' /\ Known'
<1>1. AllTold'
  BY ToldMoves, ZenonT(30)
<1>2. /\ work'[a] = w /\ \A b \in Actors : b # a => work'[b] = work[b]
  BY ZenonT(30) DEF IInv, Typed
<1>3. Believed' = Believed /\ \A b \in Actors : Concerns(b)' = Concerns(b)
  BY ZenonT(30) DEF Believed, Concerns
<1>4. ASSUME NEW b \in Actors, row.enabled, Concerns(b), Aims(work'[b])
      PROVE  work'[b].target.revision = row.revision
  BY <1>2, <1>4, ZenonT(30) DEF Known
<1>5. \A r \in applied' \cup {cycle'.desired} : Past(r)'
  BY ZenonT(30) DEF Known, Past
<1>6. work'["reconciler"] = work["reconciler"]
  BY <1>2 DEF Actors
<1>7. QED
  BY <1>1, <1>3, <1>4, <1>5, <1>6 DEF Known

LEMMA MutateKnown ==
  ASSUME IInv, AllTold, Known, NEW pc \in {"clear", "commit", "retire"}, NEW target \in Row,
         Mutate(pc, target), pc = "clear" => target = row,
         pc = "commit" => /\ target # Absent /\ (row.enabled => target.enabled)
                          /\ row = Absent => runtime = 0
  PROVE  AllTold' /\ Known'
<1> DEFINE w == [Idle EXCEPT !.pc = pc, !.how = "command", !.base = row, !.target = target]
<1>1. w \in Works0
  BY Zenon DEF IInv, Typed, Works0, Idle, Absent, Row, Results, Steps
<1>2. /\ w.pc = pc /\ w.base = row /\ w.target = target /\ w.result = "none" /\ w.how = "command"
  BY DEF Idle
<1>3. /\ "mutator" \in Actors /\ Free("mutator") /\ work' = [work EXCEPT !["mutator"] = w]
      /\ UNCHANGED <<row, tombstone, runtime, cycle, applied>>
  BY ZenonT(30) DEF Mutate, desiredState, reconciler, Actors
<1> HIDE DEF w
<1>4. Told(w, runtime) /\ (Aims(w) => w.target = row)
  BY <1>2 DEF Told, Aims, Retiring
<1>5. QED
  BY <1>1, <1>3, <1>4, StartsKnown, ZenonT(30)

(* A reconciliation that starts aims at nothing yet.                       *)
LEMMA ReconcilingForm ==
  ASSUME NEW a \in Actors, NEW how \in {"one", "all"}, Reconciling(a, how)
  PROVE  \E w \in Works0 : /\ work' = [work EXCEPT ![a] = w] /\ Told(w, runtime) /\ ~Aims(w)
                           /\ w.how = how /\ w.pc # "idle"
<1>1. ASSUME NEW pc \in {"withdraw", "done"}, NEW result \in {"degraded", "error"},
             work' = [work EXCEPT ![a] = [Idle EXCEPT !.pc = pc, !.how = how, !.result = result]]
      PROVE  \E w \in Works0 : /\ work' = [work EXCEPT ![a] = w] /\ Told(w, runtime) /\ ~Aims(w)
                               /\ w.how = how /\ w.pc # "idle"
  <2> DEFINE w == [Idle EXCEPT !.pc = pc, !.how = how, !.result = result]
  <2>1. w \in Works0
    BY Zenon DEF Works0, Idle, Absent, Row, Results, Steps
  <2>2. w.pc = pc /\ w.result = result /\ w.how = how
    BY ZenonT(30) DEF Idle
  <2>3. Told(w, runtime) /\ ~Aims(w) /\ w.pc # "idle"
    BY <2>2, ZenonT(30) DEF Told, Aims
  <2>4. QED
    BY <1>1, <2>1, <2>2, <2>3, Zenon
<1>2. CASE work' = [work EXCEPT ![a] = [Idle EXCEPT !.pc = "read", !.how = how]]
  <2> DEFINE w == [Idle EXCEPT !.pc = "read", !.how = how]
  <2>1. w \in Works0
    BY Zenon DEF Works0, Idle, Absent, Row, Results, Steps
  <2>2. w.pc = "read" /\ w.result = "none" /\ w.how = how
    BY DEF Idle
  <2>3. Told(w, runtime) /\ ~Aims(w) /\ w.pc # "idle"
    BY <2>2 DEF Told, Aims
  <2>4. QED
    BY <1>2, <2>1, <2>2, <2>3, Zenon
<1>3. CASE work' = [work EXCEPT ![a] = NotCurrent(how)]
  BY <1>1, <1>3, ZenonT(30) DEF NotCurrent
<1>4. CASE work' = [work EXCEPT ![a] = [Idle EXCEPT !.pc = "done", !.how = how, !.result = "error"]]
  BY <1>1, <1>4, ZenonT(30)
<1>5. QED
  BY <1>2, <1>3, <1>4 DEF Reconciling

LEMMA ReconcileKnown ==
  ASSUME IInv, AllTold, Known, NEW how \in {"one", "all"}, Reconcile(how)
  PROVE  AllTold' /\ Known'
<1>1. /\ "caller" \in Actors /\ Free("caller") /\ UNCHANGED <<row, tombstone, runtime, cycle, applied>>
  BY ZenonT(30) DEF Reconcile, Reconciling, desiredState, reconciler, Actors
<1>2. PICK w \in Works0 : work' = [work EXCEPT !["caller"] = w] /\ Told(w, runtime) /\ ~Aims(w)
  BY <1>1, ReconcilingForm, ZenonT(30) DEF Reconcile
<1>3. QED
  BY <1>1, <1>2, StartsKnown, ZenonT(30)

LEMMA RequestsKnown ==
  ASSUME IInv, IInv', AllTold, Known, cycle \in CycleType, Requested
  PROVE  AllTold' /\ Known'
<1>1. ASSUME NEW enabled \in BOOLEAN, Create(enabled) PROVE AllTold' /\ Known'
  <2> DEFINE next == [revision |-> tombstone + 1, enabled |-> enabled]
  <2>1. row = Absent /\ runtime = 0 /\ tombstone \in Nat /\ next \in Row /\ Mutate("commit", next)
    BY <1>1 DEF IInv, Typed, Row, Create
  <2>2. next # Absent /\ ~row.enabled
    BY <2>1 DEF Absent
  <2> HIDE DEF next
  <2>3. QED
    BY <2>1, <2>2, MutateKnown, ZenonT(30)
<1>2. ASSUME NEW enabled \in BOOLEAN, SetEnabled(enabled) PROVE AllTold' /\ Known'
  <2> DEFINE next == [revision |-> row.revision + 1, enabled |-> enabled]
  <2>1. row # Absent /\ row \in Row
    BY <1>2, ZenonT(30) DEF SetEnabled, IInv, Typed
  <2>2. next \in Row /\ next # Absent /\ next.enabled = enabled
    BY <2>1, NextRow, ZenonT(30)
  <2>3. \/ Mutate("clear", row)
        \/ Mutate("commit", next) /\ enabled
        \/ Mutate("retire", next)
    BY <1>2, ZenonT(30) DEF SetEnabled
  <2> HIDE DEF next
  <2>4. QED
    BY <2>1, <2>2, <2>3, MutateKnown, ZenonT(30)
<1>3. ASSUME Update PROVE AllTold' /\ Known'
  <2> DEFINE next == [revision |-> row.revision + 1, enabled |-> row.enabled]
  <2>1. [row EXCEPT !.revision = @ + 1] = next /\ row.enabled \in BOOLEAN
    BY DEF IInv, Typed, Row
  <2>2. Mutate("commit", next) /\ row # Absent
    BY <1>3, <2>1 DEF Update
  <2>3. next \in Row /\ next # Absent /\ next.enabled = row.enabled
    BY <2>1, <2>2, NextRow, ZenonT(30)
  <2> HIDE DEF next
  <2>4. QED
    BY <2>2, <2>3, MutateKnown
<1>4. ASSUME Delete PROVE AllTold' /\ Known'
  <2>1. Absent \in Row
    BY ZenonT(30) DEF Absent, Row
  <2>2. QED
    BY <1>4, <2>1, MutateKnown, ZenonT(30) DEF Delete
<1>5. QED
  BY <1>1, <1>2, <1>3, <1>4, ChangePointsKnown, ReconcileKnown, ZenonT(30) DEF Requested

-----------------------------------------------------------------------------
(* The steps of a cycle outside a reconciliation: they come to believe     *)
(* nothing that was not believed.                                          *)
LEMMA CycleKnown ==
  ASSUME IInv, AllTold, Known, UNCHANGED <<row, tombstone, work>>,
         runtime' = runtime \/ (runtime' = 0 /\ \A a \in Actors : work[a].pc = "idle"),
         cycle.pc # "wait", cycle'.pc # "wait", cycle'.pc = "close" => ~cycle'.converged,
         cycle'.pc = "reconcile" => cycle'.scope # "none",
         applied' \in SUBSET Row, Believed' \subseteq Believed,
         applied' \cup {cycle'.desired} \subseteq applied \cup {cycle.desired, row, Absent}
  PROVE  AllTold' /\ Known'
<1>1. AllTold'
  BY ZenonT(30) DEF AllTold, Told
<1>2. Past(row) /\ Past(Absent)
  BY ZenonT(30) DEF Past, Absent
<1>3. \A r \in applied' \cup {cycle'.desired} : Past(r)'
  BY <1>2, ZenonT(30) DEF Known, Past
<1>4. \A a \in Actors : Concerns(a)' => Concerns(a)
  BY DEF Concerns
<1>5. QED
  BY <1>1, <1>3, <1>4, ZenonT(30) DEF Known

LEMMA CloseKnown ==
  ASSUME IInv, AllTold, Known, cycle \in CycleType, Close
  PROVE  AllTold' /\ Known'
<1>1. /\ cycle.pc = "close" /\ ~cycle.converged /\ UNCHANGED <<row, tombstone, work>>
      /\ \A a \in Actors : work[a].pc = "idle"
      /\ runtime' \in {0, runtime}
  BY ZenonT(30) DEF Known, Close, Free, Fenced, FenceFails, desiredState
<1>2. \/ cycle' = [cycle EXCEPT !.pc = "reload"] /\ applied' = applied
      \/ cycle' = [Resting EXCEPT !.serving = TRUE] /\ applied' \in {{}, applied}
  <2>1. cycle.after \in {"end", "clear", "reload"}
    BY ZenonT(30) DEF CycleType
  <2>2. QED
    BY <2>1, ZenonT(30) DEF Close, CycleEnds
<1>3. CASE cycle' = [cycle EXCEPT !.pc = "reload"] /\ applied' = applied
  <2>1. cycle'.pc = "reload" /\ cycle'.converged = cycle.converged /\ cycle'.desired = cycle.desired
    BY <1>3 DEF CycleType
  <2>2. Believed' = applied
    BY <1>1, <1>3, <2>1, ZenonT(30) DEF Believed
  <2>3. QED
    BY <1>1, <1>3, <2>1, <2>2, CycleKnown DEF Known, Believed
<1>4. CASE cycle' = [Resting EXCEPT !.serving = TRUE] /\ applied' \in {{}, applied}
  <2>1. cycle'.pc = "idle" /\ cycle'.desired = Absent
    BY <1>4 DEF Resting
  <2>2. Believed' = applied'
    BY <2>1, ZenonT(30) DEF Believed
  <2>3. QED
    BY <1>1, <1>4, <2>1, <2>2, CycleKnown DEF Known, Believed
<1>5. QED
  BY <1>2, <1>3, <1>4

(* LoadDesired, ProjectCurrent, Decide and Reload.                         *)
LEMMA PlainCyclesKnown ==
  ASSUME IInv, AllTold, Known, cycle \in CycleType, LoadDesired \/ ProjectCurrent \/ Decide \/ Reload
  PROVE  AllTold' /\ Known'
<1>1. /\ cycle.pc \notin {"wait", "close"} /\ UNCHANGED <<row, tombstone, work, runtime>>
  BY ZenonT(30) DEF LoadDesired, ProjectCurrent, Decide, Reload, desiredState
<1>2. ASSUME NEW after, Closing(after), applied' \in {{}, applied}
      PROVE  AllTold' /\ Known'
  <2>1. cycle'.pc = "close" /\ ~cycle'.converged /\ cycle'.desired = cycle.desired
    BY <1>2, ZenonT(30) DEF Closing, CycleType
  <2>2. Believed' = applied'
    BY <2>1, ZenonT(30) DEF Believed
  <2>3. QED
    BY <1>1, <1>2, <2>1, <2>2, CycleKnown DEF Known, Believed
<1>3. CASE LoadDesired /\ cycle' = [cycle EXCEPT !.pc = "project", !.desired = row] /\ applied' = applied
  <2>1. cycle'.pc = "project" /\ cycle'.desired = row
    BY <1>3 DEF CycleType
  <2>2. Believed' = applied'
    BY <2>1, ZenonT(30) DEF Believed
  <2>3. QED
    BY <1>1, <1>3, <2>1, <2>2, CycleKnown DEF Known, Believed
<1>4. CASE ProjectCurrent /\ cycle' = [cycle EXCEPT !.pc = "decide"] /\ applied' = applied
  <2>1. cycle'.pc = "decide" /\ cycle'.desired = cycle.desired
    BY <1>4 DEF CycleType
  <2>2. Believed' = applied'
    BY <2>1, ZenonT(30) DEF Believed
  <2>3. QED
    BY <1>1, <1>4, <2>1, <2>2, CycleKnown DEF Known, Believed
<1>5. CASE Decide
  <2> DEFINE scope == ReconciliationTargets(cycle.desired)
  <2>1. /\ cycle'.pc = (IF scope = "none" THEN "reload" ELSE "reconcile")
        /\ cycle'.scope = scope /\ cycle'.desired = cycle.desired /\ applied' = applied
    BY <1>5 DEF Decide, CycleType
  <2>2. scope = "none" => cycle.desired \in applied
    BY ZenonT(30) DEF ReconciliationTargets
  <2> HIDE DEF scope
  <2>3. Believed' \subseteq applied
    BY <2>1, <2>2, ZenonT(30) DEF Believed
  <2>4. QED
    BY <1>1, <2>1, <2>3, CycleKnown DEF Known, Believed
<1>6. CASE Reload /\ CycleEnds(IF cycle.converged THEN {row} ELSE {}) /\ row = cycle.desired
  <2>1. cycle'.pc = "idle" /\ cycle'.desired = Absent /\ applied' = IF cycle.converged THEN {row} ELSE {}
    BY <1>6, ZenonT(30) DEF CycleEnds, Resting
  <2>2. Believed' = applied' /\ cycle.pc = "reload" /\ row \in Row
    BY <1>6, <2>1, ZenonT(30) DEF Believed, Reload, IInv, Typed
  <2>3. Believed' \subseteq Believed
    BY <1>6, <2>1, <2>2, ZenonT(30) DEF Believed
  <2>4. QED
    BY <1>1, <2>1, <2>2, <2>3, CycleKnown DEF Known
<1>7. QED
  BY <1>2, <1>3, <1>4, <1>5, <1>6 DEF LoadDesired, ProjectCurrent, Reload, Fingerprint

(* A cycle starts a reconciliation.                                        *)
LEMMA ReconcileTargetsKnown ==
  ASSUME IInv, AllTold, Known, cycle \in CycleType, ReconcileTargets
  PROVE  AllTold' /\ Known'
<1>1. /\ cycle.pc = "reconcile" /\ Reconciling("reconciler", cycle.scope) /\ "reconciler" \in Actors
      /\ cycle' = [cycle EXCEPT !.pc = "wait"] /\ Free("reconciler")
      /\ UNCHANGED <<row, tombstone, runtime, applied>>
  BY DEF ReconcileTargets, Reconciling, desiredState, Actors
<1>2. cycle'.pc = "wait" /\ cycle'.desired = cycle.desired /\ cycle.scope \in {"one", "all"}
  BY <1>1 DEF CycleType, Known
<1>3. PICK w \in Works0 : /\ work' = [work EXCEPT !["reconciler"] = w] /\ Told(w, runtime) /\ ~Aims(w)
                          /\ w.how = cycle.scope /\ w.pc # "idle"
  BY <1>1, <1>2, ReconcilingForm
<1>4. AllTold'
  BY <1>1, <1>3, ToldMoves, ZenonT(30)
<1>5. work'["reconciler"] = w /\ \A b \in Actors : b # "reconciler" => work'[b] = work[b]
  BY <1>1, <1>3 DEF IInv, Typed
<1>6. Believed' = Believed
  BY <1>1, <1>2, ZenonT(30) DEF Believed
<1>7. ASSUME NEW b \in Actors, row.enabled, Concerns(b)', Aims(work'[b])
      PROVE  work'[b].target.revision = row.revision
  <2>1. b # "reconciler" /\ work'[b] = work[b]
    BY <1>3, <1>5, <1>7
  <2>2. Concerns(b)
    BY <1>1, <1>6, <1>7, <2>1 DEF Concerns
  <2>3. QED
    BY <1>7, <2>1, <2>2, ZenonT(30) DEF Known
<1>8. \A r \in applied' \cup {cycle'.desired} : Past(r)'
  BY <1>1, <1>2, ZenonT(30) DEF Known, Past
<1>9. QED
  BY <1>1, <1>2, <1>3, <1>4, <1>5, <1>6, <1>7, <1>8 DEF Known

(* It comes to believe in the row only by a receipt for that row.          *)
LEMMA TakeReceiptKnown ==
  ASSUME IInv, AllTold, Known, cycle \in CycleType, TakeReceipt
  PROVE  AllTold' /\ Known'
<1> DEFINE v == work["reconciler"]
<1>1. /\ cycle.pc = "wait" /\ v.pc = "done" /\ "reconciler" \in Actors /\ Told(v, runtime)
      /\ v \in Works0
      /\ work' = [work EXCEPT !["reconciler"] = Idle] /\ UNCHANGED <<row, tombstone, runtime>>
  BY DEF IInv, Typed, TakeReceipt, At, Actors, desiredState, AllTold
<1>2. AllTold'
  <2>1. Told(Idle, runtime')
    BY IdleForm, ZenonT(30) DEF Told
  <2>2. QED
    BY <1>1, <2>1, IdleForm, ToldMoves, ZenonT(30)
<1>3. work'["reconciler"] = Idle /\ \A b \in Actors : work'[b].pc = "idle" /\ ~Aims(work'[b])
  <2>1. \A b \in Actors : b # "reconciler" => work[b].pc = "idle" /\ work'[b] = work[b]
    BY <1>1, OthersIdle, ZenonT(30) DEF IInv, Typed
  <2>2. work'["reconciler"] = Idle
    BY <1>1, ZenonT(30) DEF IInv, Typed
  <2>3. \A b \in Actors : b # "reconciler" => work[b].result = "none"
    BY <2>1 DEF AllTold, Told
  <2>4. QED
    BY <2>1, <2>2, <2>3, IdleForm, ZenonT(30) DEF Aims
<1>4. /\ cycle'.desired = cycle.desired /\ applied' \in {{}, applied}
      /\ \/ cycle'.pc = "close" /\ ~cycle'.converged
         \/ cycle'.pc = "reload" /\ v.result \notin {"error", "degraded"}
  BY ZenonT(30) DEF TakeReceipt, Closing, CycleType
<1>5. Believed' \subseteq applied \cup (IF v.result \in {"error", "degraded"} THEN {} ELSE {cycle.desired})
  BY <1>4, ZenonT(30) DEF Believed
<1>6. row \in Believed' => runtime \in {0, row.revision}
  <2>1. CASE row \in applied
    BY <2>1, ZenonT(30) DEF Known, Believed
  <2>2. CASE cycle.desired = row /\ v.result \notin {"error", "degraded"}
    <3>1. v.result \in {"active", "stopped", "removed"}
      BY <1>1, <2>2, ZenonT(30) DEF Known, Told, Works0, Results
    <3>2. CASE v.result # "active"
      BY <1>1, <3>1, <3>2, ZenonT(30) DEF Told
    <3>3. CASE v.result = "active" /\ ~row.enabled
      BY <3>3, ZenonT(30) DEF IInv, DisabledNeverRuns
    <3>4. CASE v.result = "active" /\ row.enabled
      <4>1. v.target.revision = row.revision
        BY <1>1, <2>2, <3>4, ZenonT(30) DEF Known, Concerns, Aims
      <4>2. QED
        BY <1>1, <3>4, <4>1, ZenonT(30) DEF Told
    <3>5. QED
      BY <3>2, <3>3, <3>4, ZenonT(30) DEF IInv, Typed, Row
  <2>3. QED
    BY <1>5, <2>1, <2>2, ZenonT(30)
<1>7. \A r \in applied' \cup {cycle'.desired} : Past(r)'
  BY <1>1, <1>4, ZenonT(30) DEF Known, Past
<1>8. QED
  BY <1>1, <1>2, <1>3, <1>4, <1>6, <1>7, IdleForm DEF Known, Actors

LEMMA RestartKnown ==
  ASSUME Restart
  PROVE  AllTold' /\ Known'
<1>1. /\ work' = [a \in Actors |-> Idle] /\ cycle' = Resting /\ applied' = {} /\ runtime' = 0
  BY DEF Restart
<1>2. \A a \in Actors : work'[a] = Idle
  BY <1>1, ZenonT(30)
<1>3. AllTold'
  BY <1>2, IdleForm, ZenonT(30) DEF AllTold, Told
<1>4. cycle'.pc = "idle" /\ cycle'.desired = Absent /\ Believed' = {}
  BY <1>1, ZenonT(30) DEF Resting, Believed
<1>5. Past(Absent)'
  BY ZenonT(30) DEF Past, Absent
<1>6. ~Aims(Idle) /\ "reconciler" \in Actors
  BY IdleForm, ZenonT(30) DEF Aims, Actors
<1>7. QED
  BY <1>1, <1>2, <1>3, <1>4, <1>5, <1>6, IdleForm, ZenonT(30) DEF Known

LEMMA InitKnown ==
  ASSUME Init
  PROVE  AllTold /\ Known
<1>1. /\ \A a \in Actors : work[a] = Idle
      /\ cycle = Resting /\ applied = {} /\ runtime = 0
  BY ZenonT(30) DEF Init
<1>2. AllTold
  BY <1>1, IdleForm, ZenonT(30) DEF AllTold, Told
<1>3. cycle.pc = "idle" /\ cycle.desired = Absent /\ Believed = {}
  BY <1>1, ZenonT(30) DEF Resting, Believed
<1>4. Past(Absent)
  BY ZenonT(30) DEF Past, Absent
<1>5. ~Aims(Idle) /\ "reconciler" \in Actors
  BY IdleForm DEF Aims, Actors
<1>6. QED
  BY <1>1, <1>2, <1>3, <1>4, <1>5, IdleForm, ZenonT(30) DEF Known

LEMMA StepKnown ==
  ASSUME IInv, IInv', AllTold, Known, cycle \in CycleType, [Next]_vars
  PROVE  AllTold' /\ Known'
<1>0. Typed
  BY ZenonT(30) DEF IInv
<1>1. CASE Works
  <2>1. ASSUME NEW a \in Actors, Projects(a) PROVE AllTold' /\ Known'
    BY <1>0, <2>1, ProjectsFollow, KnownMoves, ZenonT(30)
  <2>2. CASE Retire
    BY <1>0, <2>2, RetireFollows, KnownMoves, ZenonT(30) DEF Actors
  <2>3. QED
    BY <1>1, <2>1, <2>2, CommitKnown, ZenonT(30) DEF Works
<1>2. CASE Cycles
  BY <1>2, PlainCyclesKnown, CloseKnown, ReconcileTargetsKnown, TakeReceiptKnown DEF Cycles
<1>3. CASE Requested
  BY <1>3, RequestsKnown
<1>4. CASE Drop
  BY <1>0, <1>4, DropFollows, KnownMoves DEF Actors
<1>5. CASE Restart
  BY <1>5, RestartKnown, ZenonT(30)
<1>6. CASE UNCHANGED vars
  <2>1. UNCHANGED <<row, tombstone, runtime, work, cycle, applied>>
    BY <1>6, ZenonT(30) DEF vars
  <2>2. QED
    BY <2>1, ZenonT(30) DEF AllTold, Known, Past, Believed, Concerns
<1>7. QED
  BY <1>1, <1>2, <1>3, <1>4, <1>5, <1>6, ZenonT(30) DEF Next

-----------------------------------------------------------------------------
(* The counters stay within their bounds.                                  *)
Counted == requests \in 0..MaxRequests /\ faults \in 0..MaxFaults

LEMMA CountsKept ==
  ASSUME Counted, [Next]_vars
  PROVE  Counted'
<1>1. /\ requests' = requests \/ (requests < MaxRequests /\ requests' = requests + 1)
      /\ faults' = faults \/ (faults < MaxFaults /\ faults' = faults + 1)
  <2>1. CASE Retire \/ Commit \/ CommitFails
    BY <2>1 DEF Retire, Commit, CommitFails, Fenced, FenceFails, Fault
  <2>2. ASSUME NEW a \in Actors, Projects(a)
        PROVE  requests' = requests /\ (faults' = faults \/ (faults < MaxFaults /\ faults' = faults + 1))
    BY <2>2, Zenon DEF Projects, ReadForRestore, ReadOne, ReadAll, ReadFails, Clear, Load, LoadFails,
       Activate, ActivateFails, Undo, Confirm, ConfirmFails, Withdraw, Reply, FenceAttempted, Fenced,
       FenceFails, Fault
  <2>3. CASE Cycles
    BY <2>3, Zenon DEF Cycles, LoadDesired, ProjectCurrent, Decide, ReconcileTargets, Reconciling, TakeReceipt, Close,
       Reload, Fenced, FenceFails, Fault
  <2>4. CASE Requested
    BY <2>4, Zenon DEF Requested, Create, SetEnabled, Update, Delete, Mutate, ChangePoints, Reconcile, Reconciling,
       Request, Fault
  <2>5. CASE Drop \/ Restart \/ UNCHANGED vars
    BY <2>5 DEF Drop, Restart, vars, Fault
  <2>6. QED
    BY <2>1, <2>2, <2>3, <2>4, <2>5, ZenonT(30) DEF Next, Works
<1>2. QED
  BY <1>1, ReconciliationConstants DEF Counted

(* What is reported of the runtime by the receipts of the mutator and of   *)
(* the reconcilers is true, and the row AutomaticIoReconciler remembers as *)
(* applied hides no stale runtime, however requests, point changes,        *)
(* failures, dropped requests and restarts interleave.                     *)
THEOREM ProjectionAlwaysKnown == Spec => []ProjectionKnown
<1> DEFINE Inv == IInv /\ cycle \in CycleType /\ AllTold /\ Known /\ Counted
<1>1. Init => Inv
  BY InitHolds, InitKnown, ReconciliationConstants DEF Init, Counted
<1>2. Inv /\ [Next]_vars => Inv'
  <2>1. SUFFICES ASSUME Inv, [Next]_vars PROVE Inv'
    BY ZenonT(30)
  <2>2. IInv' /\ (cycle \in CycleType)'
    BY <2>1, StepHolds, CycleTyped DEF IInv, Typed
  <2>3. QED
    BY <2>1, <2>2, StepKnown, CountsKept, ZenonT(30)
<1>3. Inv => ProjectionKnown
  <2>1. SUFFICES ASSUME Inv PROVE ProjectionKnown
    BY ZenonT(30)
  <2>2. TypeOK
    BY <2>1, ZenonT(30) DEF TypeOK, IInv, Typed, Ordered, Works0, CycleType, Known, Counted
  <2>3. ReceiptHonest
    BY <2>1, ZenonT(30) DEF ReceiptHonest, AllTold, Told, At
  <2>4. StaleIsVisible
    BY <2>1 DEF StaleIsVisible, Known, Believed
  <2>5. QED
    BY <2>2, <2>3, <2>4 DEF ProjectionKnown
<1>4. QED
  BY <1>1, <1>2, <1>3, PTL DEF Spec
=============================================================================
