----------------------- MODULE ChannelReconciliation -----------------------
(***************************************************************************)
(* Desired and applied state of one channel of the io service.  The        *)
(* desired state is a row of the SQLite table `channels`; the applied      *)
(* state is the runtime entry of ChannelManager.  Five parties meet there: *)
(*                                                                         *)
(*   - SqliteChannelMutator: create, update, enable, disable, delete, each *)
(*     a compare-and-set on the row followed by the matching runtime       *)
(*     change (channel_mutator.rs);                                        *)
(*   - ChannelReconciler::reconcile, asked for by the automatic            *)
(*     reconciler, the watchdog and the API (channel_mutator.rs);          *)
(*   - AutomaticIoReconciler, which compares the row with the one it last  *)
(*     applied, reconciles what differs and fences what it cannot trust    *)
(*     (automatic_reconciliation.rs);                                      *)
(*   - PointTopologyApplication, which changes the channel's points and    *)
(*     advances its revision under no lock at all (point_topology.rs);     *)
(*   - the machine: reads, commits, fences and activations fail, requests  *)
(*     are dropped with their client, the process restarts.                *)
(*                                                                         *)
(* Every online writer advances the revision, so a revision stands for the *)
(* row's and the points' whole content, and the fingerprint of the row is  *)
(* the row.  A runtime is the revision it was built from, 0 for none.      *)
(***************************************************************************)
EXTENDS Naturals

CONSTANTS MaxRequests,    \* mutations, point changes and explicit reconciles
          MaxFaults       \* failures of any kind

ASSUME ReconciliationConstants == MaxRequests \in Nat /\ MaxFaults \in Nat

VARIABLES row,        \* the row of table channels
          tombstone,  \* last_revision of channel_revision_tombstones, 0 if none
          runtime,    \* revision of the installed ChannelEntry, 0 if none
          newest,     \* the highest revision that ever ran (history)
          work,       \* per actor, the mutation or reconciliation in progress
          cycle,      \* AutomaticIoReconciler::reconcile_once in progress
          applied,    \* AutomaticIoReconciler::applied: {} or the row applied
          requests,   \* requests so far
          faults      \* failures so far

vars == <<row, tombstone, runtime, newest, work, cycle, applied, requests, faults>>

Actors == {"mutator", "reconciler", "caller"}

Row == [revision : Nat, enabled : BOOLEAN]

Absent == [revision |-> 0, enabled |-> FALSE]

Steps == {"idle", "retire", "commit", "read", "clear", "load", "activate",
          "undo", "confirm", "withdraw", "done"}

Results == {"none", "active", "stopped", "removed", "degraded", "error"}

Idle == [pc |-> "idle", how |-> "none", base |-> Absent, target |-> Absent,
         result |-> "none"]

Resting == [pc |-> "idle", desired |-> Absent, scope |-> "none",
            converged |-> TRUE, after |-> "end", serving |-> FALSE]

(* Type correctness, and what the triggers of table channels enforce: the  *)
(* revision of a present row is beyond the tombstone of the id, so that no *)
(* revision is ever used twice.                                            *)
TypeOK ==
    /\ row \in Row /\ tombstone \in Nat /\ runtime \in Nat /\ newest \in Nat
    /\ work \in [Actors -> [pc : Steps, how : {"none", "command", "restore", "one", "all"},
                            base : Row, target : Row, result : Results]]
    /\ cycle \in [pc : {"idle", "project", "decide", "reconcile", "wait", "close", "reload"},
                  desired : Row, scope : {"none", "one", "all"}, converged : BOOLEAN,
                  after : {"end", "clear", "reload"}, serving : BOOLEAN]
    /\ applied \in SUBSET Row
    /\ requests \in 0..MaxRequests /\ faults \in 0..MaxFaults
    /\ row # Absent => row.revision > tombstone

-----------------------------------------------------------------------------
(* Failures, the runtime and the locks                                     *)

Fault == faults < MaxFaults /\ faults' = faults + 1

Request == requests < MaxRequests /\ requests' = requests + 1 /\ cycle.serving

FreeOfItsKind(a) == work[a].pc = "idle"

(* projection_gate and the channel's lock: a mutation holds the gate for   *)
(* reading and the lock, a reconciliation holds the gate for writing, so   *)
(* of the operations on this channel one runs at a time.                   *)
Free(a) == \A b \in Actors : work[b].pc = "idle"

Runs(revision) == /\ runtime' = revision
                  /\ newest' = IF revision > newest THEN revision ELSE newest

Fenced == runtime' = 0 /\ UNCHANGED <<newest, faults>>

(* remove_channel may fail with the entry still there or already gone; an  *)
(* absent entry is fenced at once.                                         *)
FenceFails == /\ runtime # 0 /\ Fault
              /\ runtime' \in {0, runtime}
              /\ UNCHANGED newest

(* `let _ = self.runtime.fence(..)`                                        *)
FenceAttempted == Fenced \/ FenceFails

At(a, pc) == work[a].pc = pc

Goes(a, pc) == work' = [work EXCEPT ![a].pc = pc]

GoesWith(a, pc, result) == work' = [work EXCEPT ![a].pc = pc, ![a].result = result]

desiredState == <<row, tombstone>>

reconciler == <<cycle, applied>>

-----------------------------------------------------------------------------
(* Mutations: what is loaded and checked before anything changes.  A stale *)
(* expected_revision, a failed validation or an unreadable row ends the    *)
(* request there with no effect.                                           *)

Mutate(pc, target) ==
    /\ Free("mutator") /\ Request
    /\ work' = [work EXCEPT !["mutator"] =
                   [Idle EXCEPT !.pc = pc, !.how = "command", !.base = row, !.target = target]]
    /\ UNCHANGED <<desiredState, runtime, newest, reconciler, faults>>

Create(enabled) ==
    /\ row = Absent /\ runtime = 0
    /\ Mutate("commit", [revision |-> tombstone + 1, enabled |-> enabled])

Update ==
    /\ row # Absent
    /\ Mutate("commit", [row EXCEPT !.revision = @ + 1])

SetEnabledCommitsFirst(enabled) ==
    /\ row # Absent
    /\ IF row.enabled = enabled
       THEN Mutate("clear", row)
       ELSE Mutate("commit", [revision |-> row.revision + 1, enabled |-> enabled])

(* A command for the state the row already has re-projects it; a shutdown  *)
(* fences before it commits.                                               *)
SetEnabled(enabled) ==
    /\ row # Absent
    /\ IF row.enabled = enabled
       THEN Mutate("clear", row)
       ELSE Mutate(IF enabled THEN "commit" ELSE "retire",
                   [revision |-> row.revision + 1, enabled |-> enabled])

Delete == row # Absent /\ Mutate("retire", Absent)

(* The fence that comes before the commit of a disable or a delete.        *)
Retire ==
    /\ At("mutator", "retire")
    /\ \/ Fenced /\ Goes("mutator", "commit")
       \/ /\ FenceFails
          /\ work' = [work EXCEPT !["mutator"].pc = "read", !["mutator"].how = "restore"]
    /\ UNCHANGED <<desiredState, reconciler, requests>>

Stored(w) == /\ row' = w.target
             /\ tombstone' = IF w.target = Absent THEN w.base.revision + 1 ELSE tombstone

(* A disable or a delete, whose failure restores the runtime it fenced.    *)
Retiring(w) == (w.base.enabled /\ ~w.target.enabled) \/ w.target = Absent

Restores(w) == IF Retiring(w) THEN [w EXCEPT !.pc = "read", !.how = "restore"]
               ELSE [w EXCEPT !.pc = "done", !.result = "error"]

Committed(w) ==
    IF w.target = Absent THEN [w EXCEPT !.pc = "done", !.result = "removed"]
    ELSE IF w.target.enabled \/ (w.base # Absent /\ ~w.base.enabled)
         THEN [w EXCEPT !.pc = "clear"]
         ELSE [w EXCEPT !.pc = "confirm", !.result = "stopped"]

(* INSERT, UPDATE .. WHERE revision = ?, or the deletion's transaction.    *)
Commit ==
    LET w == work["mutator"] IN
    /\ At("mutator", "commit")
    /\ IF row = w.base
       THEN Stored(w) /\ work' = [work EXCEPT !["mutator"] = Committed(w)]
       ELSE UNCHANGED desiredState /\ work' = [work EXCEPT !["mutator"] = Restores(w)]
    /\ UNCHANGED <<runtime, newest, reconciler, requests, faults>>

(* The database reports an error, having stored the change or not; a       *)
(* deletion may also meet a logical route.                                 *)
CommitFails ==
    LET w == work["mutator"] IN
    /\ At("mutator", "commit") /\ Fault
    /\ \/ row = w.base /\ Stored(w)
       \/ UNCHANGED desiredState
    /\ work' = [work EXCEPT !["mutator"] = Restores(w)]
    /\ UNCHANGED <<runtime, newest, reconciler, requests>>

-----------------------------------------------------------------------------
(* Projecting a row onto the runtime, for a command, for the restoration   *)
(* of a runtime, and for a reconciliation of one or of all channels.       *)

(* restore_authoritative_runtime gives up unless the same, still enabled   *)
(* channel is there.                                                       *)
ReadForRestore(a) ==
    /\ At(a, "read") /\ work[a].how = "restore"
    /\ IF row.enabled /\ tombstone <= work[a].base.revision
       THEN work' = [work EXCEPT ![a].pc = "clear", ![a].target = row]
       ELSE Goes(a, "undo")
    /\ UNCHANGED <<desiredState, runtime, newest, reconciler, requests, faults>>

(* reconcile_channel_locked                                                *)
ReadOne(a) ==
    /\ At(a, "read") /\ work[a].how = "one"
    /\ work' = [work EXCEPT ![a].pc = "clear", ![a].target = row]
    /\ UNCHANGED <<desiredState, runtime, newest, reconciler, requests, faults>>

(* The snapshots of reconcile_all                                          *)
ReadAll(a) ==
    /\ At(a, "read") /\ work[a].how = "all"
    /\ work' = [work EXCEPT ![a].pc = "clear", ![a].target = row]
    /\ UNCHANGED <<desiredState, runtime, newest, reconciler, requests, faults>>

(* Without the row, a restoration fences, a reconciliation of all channels *)
(* fences what runs, and one of this channel reports the error.            *)
ReadFails(a) ==
    /\ At(a, "read") /\ Fault
    /\ GoesWith(a, IF work[a].how = "one" THEN "done" ELSE "undo", "error")
    /\ UNCHANGED <<desiredState, runtime, newest, reconciler, requests>>

Unwanted(w) == IF w.target = Absent THEN "removed" ELSE "stopped"

AfterClear(a) ==
    LET w == work[a] IN
    IF w.target.enabled THEN Goes(a, IF w.how = "all" THEN "activate" ELSE "load")
    ELSE GoesWith(a, IF w.target = Absent /\ w.how = "one" THEN "done" ELSE "confirm", Unwanted(w))

(* Whatever runs is fenced first: activate would only reconnect an entry   *)
(* that exists, with its old configuration.                                *)
Clear(a) ==
    /\ At(a, "clear")
    /\ \/ Fenced /\ AfterClear(a)
       \/ FenceFails /\ GoesWith(a, IF work[a].how = "restore" \/
                                       (work[a].target = Absent /\ work[a].how = "one")
                                    THEN "done" ELSE "confirm", "degraded")
    /\ UNCHANGED <<desiredState, reconciler, requests>>

NotActivated(a) == GoesWith(a, IF work[a].how = "command" THEN "confirm" ELSE "undo", "degraded")

(* load_runtime_channel refuses a row whose revision has moved on.         *)
Load(a) ==
    /\ At(a, "load")
    /\ IF row.revision = work[a].target.revision THEN Goes(a, "activate") ELSE NotActivated(a)
    /\ UNCHANGED <<desiredState, runtime, newest, reconciler, requests, faults>>

LoadFails(a) ==
    /\ At(a, "load") /\ Fault
    /\ NotActivated(a)
    /\ UNCHANGED <<desiredState, runtime, newest, reconciler, requests>>

Activate(a) ==
    /\ At(a, "activate")
    /\ Runs(IF runtime = 0 THEN work[a].target.revision ELSE runtime)
    /\ GoesWith(a, "confirm", "active")
    /\ UNCHANGED <<desiredState, reconciler, requests, faults>>

(* The entry cannot be created, or does not connect and is removed, which  *)
(* can fail in its turn.                                                   *)
ActivateFails(a) ==
    /\ At(a, "activate") /\ Fault
    /\ \/ runtime' = 0 /\ UNCHANGED newest
       \/ Runs(IF runtime = 0 THEN work[a].target.revision ELSE runtime)
    /\ NotActivated(a)
    /\ UNCHANGED <<desiredState, reconciler, requests>>

Undo(a) ==
    /\ At(a, "undo") /\ FenceAttempted
    /\ Goes(a, IF work[a].how = "restore" \/ work[a].result = "error" THEN "done" ELSE "confirm")
    /\ UNCHANGED <<desiredState, reconciler, requests>>

SameDesiredState(a) == row = work[a].target

(* observe_reconcile, the second read of reconcile_present, the authority  *)
(* of reconcile_all and the stability test of a restoration: is the row    *)
(* still the one that was projected?                                       *)
Confirm(a) ==
    /\ At(a, "confirm")
    /\ IF SameDesiredState(a) THEN Goes(a, "done") ELSE GoesWith(a, "withdraw", "degraded")
    /\ UNCHANGED <<desiredState, runtime, newest, reconciler, requests, faults>>

ConfirmFails(a) ==
    /\ At(a, "confirm") /\ Fault
    /\ GoesWith(a, "withdraw", IF work[a].how = "all" THEN "error" ELSE "degraded")
    /\ UNCHANGED <<desiredState, runtime, newest, reconciler, requests>>

Withdraw(a) ==
    /\ At(a, "withdraw") /\ FenceAttempted
    /\ Goes(a, "done")
    /\ UNCHANGED <<desiredState, reconciler, requests>>

(* The answer goes out and the locks are released.                         *)
Reply(a) ==
    /\ a # "reconciler" /\ At(a, "done")
    /\ work' = [work EXCEPT ![a] = Idle]
    /\ UNCHANGED <<desiredState, runtime, newest, reconciler, requests, faults>>

NotCurrent(how) == [Idle EXCEPT !.pc = "withdraw", !.how = how, !.result = "degraded"]

(* ChannelReconciler::reconcile: a topology that cannot be projected is an *)
(* error, one that is not current fences the channel.                      *)
Reconciling(a, how) ==
    /\ Free(a)
    /\ \/ /\ UNCHANGED faults
          /\ work' = [work EXCEPT ![a] = [Idle EXCEPT !.pc = "read", !.how = how]]
       \/ /\ Fault
          /\ \/ work' = [work EXCEPT ![a] = NotCurrent(how)]
             \/ work' = [work EXCEPT ![a] = [Idle EXCEPT !.pc = "done", !.how = how,
                                                         !.result = "error"]]
    /\ UNCHANGED <<desiredState, runtime, newest>>

(* The watchdog's and the operator's reconciliations.                      *)
Reconcile(how) == Request /\ Reconciling("caller", how) /\ UNCHANGED reconciler

-----------------------------------------------------------------------------
(* AutomaticIoReconciler::reconcile_once                                   *)

(* End of the cycle; the first one ends before the API is served.          *)
CycleEnds(snapshot) ==
    /\ applied' = snapshot
    /\ cycle' = [Resting EXCEPT !.serving = TRUE]

(* fail_closed or fence_untrusted, and what the cycle does next.           *)
Closing(after) == cycle' = [cycle EXCEPT !.pc = "close", !.after = after, !.converged = FALSE]

(* load_desired_runtime_snapshot hashes the row and its points.            *)
Fingerprint == row

LoadDesired ==
    /\ cycle.pc = "idle"
    /\ \/ /\ cycle' = [cycle EXCEPT !.pc = "project", !.desired = Fingerprint]
          /\ UNCHANGED <<applied, faults>>
       \/ Fault /\ applied' = {} /\ Closing("end")
    /\ UNCHANGED <<desiredState, runtime, newest, work, requests>>

(* A topology that is not current keeps `applied` until all is fenced.     *)
ProjectCurrent ==
    /\ cycle.pc = "project"
    /\ \/ cycle' = [cycle EXCEPT !.pc = "decide"] /\ UNCHANGED <<applied, faults>>
       \/ Fault /\ applied' = {} /\ Closing("end")
       \/ Fault /\ UNCHANGED applied /\ Closing("clear")
    /\ UNCHANGED <<desiredState, runtime, newest, work, requests>>

ReconciliationTargetsChanged(desired) ==
    IF applied = {} THEN "all" ELSE IF applied # {desired} THEN "one" ELSE "none"

(* reconciliation_targets: everything at first, then what changed, what    *)
(* should run and does not, and what runs and should not.                  *)
ReconciliationTargets(desired) ==
    IF applied = {} THEN "all"
    ELSE IF applied # {desired} \/ desired.enabled # (runtime # 0) THEN "one" ELSE "none"

Decide ==
    LET scope == ReconciliationTargets(cycle.desired) IN
    /\ cycle.pc = "decide"
    /\ cycle' = [cycle EXCEPT !.pc = IF scope = "none" THEN "reload" ELSE "reconcile",
                              !.scope = scope]
    /\ UNCHANGED <<desiredState, runtime, newest, work, applied, requests, faults>>

ReconcileTargets ==
    /\ cycle.pc = "reconcile"
    /\ Reconciling("reconciler", cycle.scope)
    /\ cycle' = [cycle EXCEPT !.pc = "wait"]
    /\ UNCHANGED <<applied, requests>>

TakeReceipt ==
    LET result == work["reconciler"].result IN
    /\ cycle.pc = "wait" /\ At("reconciler", "done")
    /\ work' = [work EXCEPT !["reconciler"] = Idle]
    /\ \/ result = "error" /\ applied' = {} /\ Closing("end")
       \/ result = "degraded" /\ UNCHANGED applied /\ Closing("reload")
       \/ /\ result \notin {"error", "degraded"}
          /\ cycle' = [cycle EXCEPT !.pc = "reload"] /\ UNCHANGED applied
    /\ UNCHANGED <<desiredState, runtime, newest, requests, faults>>

(* fence_untrusted_channels under the gate; a fence that fails ends the    *)
(* cycle with `applied` as it is.                                          *)
Close ==
    /\ cycle.pc = "close" /\ Free("reconciler")
    /\ \/ /\ Fenced
          /\ CASE cycle.after = "reload" -> cycle' = [cycle EXCEPT !.pc = "reload"] /\ UNCHANGED applied
               [] cycle.after = "clear"  -> CycleEnds({})
               [] cycle.after = "end"    -> CycleEnds(applied)
       \/ FenceFails /\ CycleEnds(applied)
    /\ UNCHANGED <<desiredState, work, requests>>

ReloadUnchecked ==
    /\ cycle.pc = "reload"
    /\ CycleEnds(IF cycle.converged THEN {row} ELSE {})
    /\ UNCHANGED <<desiredState, runtime, newest, work, requests, faults>>

(* The row is read again: a change since the first read fences the channel *)
(* and forgets what was applied.                                           *)
Reload ==
    /\ cycle.pc = "reload"
    /\ \/ /\ Fingerprint = cycle.desired /\ UNCHANGED faults
          /\ CycleEnds(IF cycle.converged THEN {Fingerprint} ELSE {})
       \/ Fingerprint # cycle.desired /\ Closing("clear") /\ UNCHANGED <<applied, faults>>
       \/ Fault /\ applied' = {} /\ Closing("end")
    /\ UNCHANGED <<desiredState, runtime, newest, work, requests>>

-----------------------------------------------------------------------------
(* The other writer, and losses                                            *)

Advanced(stored) == [stored EXCEPT !.revision = @ + 1]

(* PointTopologyApplication::mutate: one transaction that changes points   *)
(* and advances the revision, with neither gate nor channel lock.          *)
ChangePoints ==
    /\ Request /\ row # Absent
    /\ row' = Advanced(row)
    /\ UNCHANGED <<tombstone, runtime, newest, work, reconciler, faults>>

(* The client hangs up while its request awaits the runtime: the future is *)
(* dropped, the locks with it.                                             *)
Drop ==
    LET w == work["mutator"] IN
    /\ w.pc \in {"retire", "clear", "activate", "undo", "withdraw"} /\ Fault
    /\ \/ w.pc # "activate" /\ runtime' \in {0, runtime} /\ UNCHANGED newest
       \/ w.pc = "activate" /\ Runs(IF runtime = 0 THEN w.target.revision ELSE runtime)
    /\ work' = [work EXCEPT !["mutator"] = Idle]
    /\ UNCHANGED <<desiredState, reconciler, requests>>

Restart ==
    /\ Fault
    /\ runtime' = 0 /\ applied' = {} /\ cycle' = Resting
    /\ work' = [a \in Actors |-> Idle]
    /\ UNCHANGED <<desiredState, newest, requests>>

-----------------------------------------------------------------------------
Init ==
    /\ row \in {Absent, [revision |-> 1, enabled |-> TRUE], [revision |-> 1, enabled |-> FALSE]}
    /\ tombstone = 0 /\ runtime = 0 /\ newest = 0
    /\ work = [a \in Actors |-> Idle] /\ cycle = Resting /\ applied = {}
    /\ requests = 0 /\ faults = 0

Projects(a) ==
    \/ ReadForRestore(a) \/ ReadOne(a) \/ ReadAll(a) \/ ReadFails(a)
    \/ Clear(a) \/ Load(a) \/ LoadFails(a) \/ Activate(a) \/ ActivateFails(a)
    \/ Undo(a) \/ Confirm(a) \/ ConfirmFails(a) \/ Withdraw(a) \/ Reply(a)

Works == Retire \/ Commit \/ CommitFails \/ \E a \in Actors : Projects(a)

Cycles == LoadDesired \/ ProjectCurrent \/ Decide \/ ReconcileTargets \/ TakeReceipt
          \/ Close \/ Reload

Requested ==
    \/ \E enabled \in BOOLEAN : Create(enabled) \/ SetEnabled(enabled)
    \/ Update \/ Delete \/ ChangePoints
    \/ \E how \in {"one", "all"} : Reconcile(how)

Next == Works \/ Cycles \/ Requested \/ Drop \/ Restart

Spec == Init /\ [][Next]_vars

(* Tokio runs every operation that can go on, and the reconciler's ticker  *)
(* starts the next cycle.                                                  *)
FairSpec == Spec /\ WF_vars(Works) /\ WF_vars(Cycles)

-----------------------------------------------------------------------------
(* A channel whose row is disabled or gone has no runtime, at any moment:  *)
(* set_enabled and delete fence before they commit, and what they restore  *)
(* after a failed commit is never a channel that was committed away.       *)
DisabledNeverRuns == ~row.enabled => runtime = 0

(* The projection a receipt reports is the projection there is: Active     *)
(* means that the runtime was built from the reported revision, Stopped    *)
(* and Removed that there is none.                                         *)
ReceiptHonest ==
    \A a \in Actors : At(a, "done") =>
        /\ work[a].result = "active" => runtime = work[a].target.revision
        /\ work[a].result \in {"stopped", "removed"} => runtime = 0

(* A revision that has been superseded in the runtime never runs again:    *)
(* the snapshot an activation carries is not older than what already ran,  *)
(* whichever of the mutator and the reconcilers loaded it.                 *)
NewestWins == [][runtime' \notin {0, runtime} => runtime' >= newest]_vars

(* Between operations, a runtime built from another revision than the      *)
(* row's differs from what the automatic reconciler remembers as applied,  *)
(* so that its next cycle replaces it: the cache hides no stale runtime.   *)
StaleIsVisible ==
    (cycle.pc = "idle" /\ \A a \in Actors : work[a].pc = "idle") =>
        (runtime \in {0, row.revision} \/ applied # {row})

(* Once requests and failures cease, the runtime becomes and stays what    *)
(* the row asks for.                                                       *)
Converges == <>[](runtime = IF row.enabled THEN row.revision ELSE 0)

(***************************************************************************)
(* What is reported of the runtime is true, and what is remembered of it   *)
(* hides nothing stale.                                                    *)
(***************************************************************************)
ProjectionKnown == TypeOK /\ ReceiptHonest /\ StaleIsVisible
=============================================================================
