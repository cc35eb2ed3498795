--------------------------- MODULE RuleScheduler ---------------------------
(***************************************************************************)
(* The rule scheduler of automation (libs/aether-rules/src/scheduler.rs)   *)
(* with the mutations and reloads that replace its rules                   *)
(* (services/automation/src/infra/rule_mutation.rs and rule_runtime.rs).   *)
(*                                                                         *)
(* One rule and the point it subscribes to are modelled.  The scheduler    *)
(* loop runs it after a tick or a PointWatch hint; operators run it by     *)
(* hand at the same time.  A run that may have reached a device without    *)
(* succeeding leaves a retry hold, so that the loop does not repeat it for *)
(* the same input.  Rules are behind an RwLock: what is done under one     *)
(* guard is one step, and any other task may run between two of them.      *)
(*                                                                         *)
(* Clocks are left out, and with them last_execution, last_cooldown_start  *)
(* and last_trigger: a tick before the interval, cooldown or deadband of   *)
(* the rule is over changes nothing, so the ticks modelled are the others. *)
(* The flow graph is what a run may do: read the point or not, command     *)
(* devices or not, succeed or fail.                                        *)
(***************************************************************************)
EXTENDS Integers

CONSTANTS
  Definitions,   \* trigger and flow of the rule, as same_execution_definition compares them
  OnChange,      \* definitions whose trigger is OnChange, the others are Interval
  Values,        \* finite values of the point
  Starts,        \* values the point may have when the model starts
  Missing,       \* no finite value
  Deadband,      \* ValueDeadband::Absolute threshold (0: every change counts)
  Manuals,       \* executions by hand that may run at once
  Mutations,     \* rule mutations that may run at once
  MaxEvents,     \* bound: new values, executions by hand, mutations, reloads
  MaxFaults      \* bound: unsuccessful runs, failed reloads, dropped requests

ASSUME SchedulerAssumption ==
  /\ OnChange \subseteq Definitions
  /\ Values \subseteq Nat /\ Starts \subseteq Values /\ Missing \notin Values
  /\ Deadband \in Nat /\ MaxEvents \in Nat /\ MaxFaults \in Nat
  /\ "loop" \notin Manuals /\ "watcher" \notin Mutations

VARIABLES
  row,        \* the row of table rules, and the revision of automation_rules
  value,      \* the point in SHM
  sched,      \* the ScheduledRule, {} if the rule is not loaded
  run,        \* per runner, the execution in progress
  request,    \* per mutation, and for the watcher of topology changes, where it is
  gate,       \* reload_gate: {} or the request that holds it
  arcs,       \* the Arcs made for holds so far
  loaded,     \* revision the scheduler's rules were read at
  loop,       \* the scheduler task: "on", "stopping" or "ended"
  answered,   \* highest revision a mutation answered as in force
  doubt,      \* history: an uncertain outcome was recorded and not yet superseded
  evaluated,  \* history: inputs of successful runs
  replayed,   \* history: the loop repeated an uncertain run on a stable input
  events, faults

ruleVars == <<row, value, sched, arcs, loaded>>
reloadVars == <<request, gate, answered>>
history == <<doubt, evaluated, replayed>>
vars == <<ruleVars, run, reloadVars, loop, history, events, faults>>

Runners == Manuals \cup {"loop"}
Requests == Mutations \cup {"watcher"}
Outcomes == {"succeeded", "failed", "partial", "timeout"}
Inputs == Values \cup {Missing}

\* A hold is an Arc: `id` is its identity, 0 for None, `input` what it holds.
NoHold == [id |-> 0, input |-> Missing]

Idle == [pc |-> "idle"]

Entry(def) == [def |-> def, hold |-> NoHold, last |-> Missing]

Init ==
  /\ row \in [def : Definitions, on : {TRUE}, revision : {1}]
  /\ value \in Starts
  /\ sched = {Entry(row.def)} /\ arcs = 0 /\ loaded = 1
  /\ run = [r \in Runners |-> Idle]
  /\ request = [q \in Requests |-> [pc |-> "idle"]]
  /\ gate = {} /\ answered = 0 /\ loop = "on"
  /\ doubt = "none" /\ evaluated = {} /\ replayed = FALSE
  /\ events = 0 /\ faults = 0

-----------------------------------------------------------------------------
(* Decisions on one scheduled rule *)

Exceeds(last, new) == new - last > Deadband \/ last - new > Deadband

\* Mutant: the first observation only sets the baseline.
TriggersNeedsBaseline(s, snap) ==
  snap # Missing /\ s.last # Missing /\ Exceeds(s.last, snap)

\* should_trigger_onchange: the first finite value, or one beyond the deadband.
Triggers(s, snap) ==
  /\ snap # Missing
  /\ s.last # Missing => Exceeds(s.last, snap)

\* A held OnChange rule runs again for a finite value other than the held one.
AutomaticRetryHeld(s, snap) ==
  /\ s.hold # NoHold
  /\ s.def \in OnChange => snap \in {Missing, s.hold.input}

Due(s, snap) ==
  ~AutomaticRetryHeld(s, snap) /\ (s.def \in OnChange => Triggers(s, snap))

Uncertain(outcome) == outcome \in {"partial", "timeout"}

\* The values subscribed to by a definition, as fetch_point_snapshot reads them.
Snapshot(def) == IF def \in OnChange THEN value ELSE Missing

\* Mutant: holds are compared by what they hold and not by identity.
AcceptsByContent(s, r) ==
  s.def = r.def /\ s.hold.input = r.held.input /\ (s.hold.id = 0) = (r.held.id = 0)

AcceptsCompletion(s, r) == s.def = r.def /\ s.hold.id = r.held.id

\* A new Arc.  Arc::ptr_eq tells it from every one the rule or a selection still
\* refers to; numbering them all does.
NewHold(s, input) == [id |-> arcs + 1, input |-> IF s.def \in OnChange THEN input ELSE Missing]

\* The value a run leaves as baseline: what its flow read, or else the snapshot.
Consumed(r) == IF r.seen # Missing THEN r.seen ELSE r.snap

AdvanceOnChange(s, r) ==
  IF s.def \in OnChange /\ Consumed(r) # Missing
    THEN [s EXCEPT !.last = Consumed(r)] ELSE s

\* An accepted completion of the loop.
AfterAutomatic(s, r) ==
  LET t == [s EXCEPT !.hold = IF Uncertain(r.outcome) THEN NewHold(s, r.input) ELSE NoHold]
  IN  IF r.outcome = "succeeded" THEN AdvanceOnChange(t, r) ELSE t

\* An accepted completion by hand; success reconciles a held rule only.
AfterManual(s, r) ==
  IF Uncertain(r.outcome) THEN [s EXCEPT !.hold = NewHold(s, r.input)]
  ELSE IF r.outcome = "succeeded" /\ s.hold # NoHold
    THEN AdvanceOnChange([s EXCEPT !.hold = NoHold], r)
    ELSE s

\* accept_or_hold_completion and what follows it.
Completed(s, r, automatic) ==
  IF AcceptsCompletion(s, r)
    THEN IF automatic THEN AfterAutomatic(s, r) ELSE AfterManual(s, r)
  ELSE IF Uncertain(r.outcome) /\ s.def = r.def
    THEN [s EXCEPT !.hold = NewHold(s, value)]
    ELSE s

\* preserve_schedule_state for one rule.
Preserved(new, old) ==
  [new EXCEPT !.last = old.last,
              !.hold = IF new.def = old.def THEN old.hold ELSE NoHold]

-----------------------------------------------------------------------------
(* Runs *)

Selected(def, held, known, snap) ==
  [pc |-> "selected", def |-> def, held |-> held, known |-> known, snap |-> snap,
   seen |-> Missing, outcome |-> "failed", input |-> Missing,
   steady |-> TRUE, fresh |-> TRUE]

\* A tick, or a hint for the rule: the subscribed values are fetched.  A hint
\* goes no further when the rule subscribes to nothing.
Fetch(hint) ==
  /\ loop # "ended" /\ run["loop"] = Idle
  /\ hint => \E s \in sched : s.def \in OnChange
  /\ run' = [run EXCEPT !["loop"] =
       [pc |-> "fetched", hint |-> hint, steady |-> TRUE,
        snap |-> IF \E s \in sched : s.def \in OnChange THEN value ELSE Missing]]
  /\ UNCHANGED <<ruleVars, reloadVars, loop, history, events, faults>>

\* The rules are filtered by the values fetched before.
Select ==
  LET r == run["loop"] IN
  /\ r.pc = "fetched"
  /\ \/ \E s \in sched :
          /\ Due(s, r.snap) /\ (r.hint => s.def \in OnChange)
          /\ run' = [run EXCEPT !["loop"] =
                      [Selected(s.def, s.hold, TRUE, r.snap) EXCEPT !.steady = r.steady]]
          /\ replayed' = (replayed \/ (doubt = "steady" /\ r.steady))
     \/ /\ \A s \in sched : ~Due(s, r.snap) \/ (r.hint /\ s.def \notin OnChange)
        /\ run' = [run EXCEPT !["loop"] = Idle]
        /\ UNCHANGED replayed
  /\ UNCHANGED <<ruleVars, reloadVars, loop, doubt, evaluated, events, faults>>

\* execute_rule takes the rule from the database ...
LoadRow(m) ==
  /\ run[m] = Idle /\ row.on /\ events < MaxEvents
  /\ run' = [run EXCEPT ![m] = [pc |-> "loaded", def |-> row.def]]
  /\ events' = events + 1
  /\ UNCHANGED <<ruleVars, reloadVars, loop, history, faults>>

\* ... and its hold from the scheduled rule, if that has the same definition.
SelectManual(m) ==
  /\ run[m].pc = "loaded"
  /\ LET def == run[m].def
         same == {s \in sched : s.def = def}
     IN  run' = [run EXCEPT ![m] =
           Selected(def, IF same = {} THEN NoHold ELSE (CHOOSE s \in same : TRUE).hold,
                    same # {}, Snapshot(def))]
  /\ UNCHANGED <<ruleVars, reloadVars, loop, history, events, faults>>

\* The flow reads the point, or its nodes do not use it.
Evaluate(x) ==
  /\ run[x].pc = "selected"
  /\ \E seen \in {value, Missing} :
       run' = [run EXCEPT ![x].pc = "running", ![x].seen = seen]
  /\ UNCHANGED <<ruleVars, reloadVars, loop, history, events, faults>>

\* What a finished run keeps for its completion.
Done(r, outcome, input) ==
  [r EXCEPT !.pc = "done", !.outcome = outcome, !.input = input, !.snap = Missing,
            !.seen = IF outcome = "succeeded" THEN Consumed(r) ELSE Missing,
            !.steady = @ /\ Uncertain(outcome)]

\* The run ends: with success, with no action accepted by a device, or with
\* some.  A partial result carries what the flow read unless a node returned
\* early.
Finish(x, outcome) ==
  /\ run[x].pc = "running" /\ outcome # "timeout"
  /\ outcome = "succeeded" \/ faults < MaxFaults
  /\ \E input \in IF outcome = "partial" THEN {Consumed(run[x]), run[x].snap} ELSE {Missing} :
       run' = [run EXCEPT ![x] = Done(@, outcome, input)]
  /\ faults' = IF outcome = "succeeded" THEN faults ELSE faults + 1
  /\ evaluated' = IF outcome = "succeeded"
                    THEN (evaluated \cup {Consumed(run[x])}) \ {Missing} ELSE evaluated
  /\ UNCHANGED <<ruleVars, reloadVars, loop, doubt, replayed, events>>

\* RULE_EXECUTION_TIMEOUT: the values are sampled once more.
TimeOut(x) ==
  /\ run[x].pc \in {"selected", "running"} /\ faults < MaxFaults
  /\ run' = [run EXCEPT ![x] =
       [Done(@, "timeout", Snapshot(@.def)) EXCEPT !.steady = TRUE]]
  /\ faults' = faults + 1
  /\ UNCHANGED <<ruleVars, reloadVars, loop, history, events>>

\* The history of holds: a recorded uncertain outcome is superseded by a run
\* that was selected after it.
DoubtAfter(s, r, automatic) ==
  IF s.def # r.def THEN doubt
  ELSE IF Uncertain(r.outcome)
    THEN IF r.steady \/ ~AcceptsCompletion(s, r) THEN "steady" ELSE "moved"
  ELSE IF r.fresh /\ (automatic \/ r.outcome = "succeeded") THEN "none" ELSE doubt

\* The completion is recorded under the write lock, if the rule is there.
Record(x) ==
  LET r == run[x]
      here == {s \in sched : r.known}
  IN
  /\ r.pc = "done"
  /\ sched' = IF here = {} THEN sched ELSE {Completed(s, r, x = "loop") : s \in here}
  /\ doubt' = IF here = {} THEN doubt
              ELSE DoubtAfter(CHOOSE s \in here : TRUE, r, x = "loop")
  /\ LET recorded == Uncertain(r.outcome) /\ \E s \in here : s.def = r.def
     IN  /\ arcs' = IF recorded THEN arcs + 1 ELSE arcs
         /\ run' = [y \in Runners |->
              IF y = x THEN Idle
              ELSE IF recorded /\ "fresh" \in DOMAIN run[y] THEN [run[y] EXCEPT !.fresh = FALSE]
              ELSE run[y]]
  /\ UNCHANGED <<row, value, loaded, reloadVars, loop, evaluated, replayed, events, faults>>

\* The client of an execution by hand goes away and its future is dropped.
DropManual(m) ==
  /\ run[m] # Idle /\ faults < MaxFaults
  /\ run' = [run EXCEPT ![m] = Idle]
  /\ faults' = faults + 1
  /\ UNCHANGED <<ruleVars, reloadVars, loop, history, events>>

-----------------------------------------------------------------------------
(* Mutations and reloads *)

\* A mutation commits: another definition, enabled or disabled, or other
\* fields only.
Mutate(q) ==
  /\ request[q].pc = "idle" /\ events < MaxEvents
  /\ \E def \in Definitions, on \in BOOLEAN :
       row' = [def |-> def, on |-> on, revision |-> row.revision + 1]
  /\ request' = [request EXCEPT ![q] = [pc |-> "waiting", revision |-> row'.revision]]
  /\ events' = events + 1
  /\ UNCHANGED <<value, sched, arcs, loaded, run, gate, answered, loop, history, faults>>

\* The watcher of topology changes reloads without a mutation.
WatchTopology ==
  /\ request["watcher"].pc = "idle" /\ events < MaxEvents
  /\ request' = [request EXCEPT !["watcher"] = [pc |-> "waiting", revision |-> 0]]
  /\ events' = events + 1
  /\ UNCHANGED <<ruleVars, run, gate, answered, loop, history, faults>>

\* Mutant: reload without reload_gate.
BeginReloadUngated(q) ==
  /\ request[q].pc = "waiting"
  /\ request' = [request EXCEPT ![q] = [pc |-> "read", revision |-> @.revision, row |-> row]]
  /\ UNCHANGED <<ruleVars, run, gate, answered, loop, history, events, faults>>

\* The reload has the gate and has read the rules.
BeginReload(q) ==
  /\ request[q].pc = "waiting" /\ gate = {}
  /\ gate' = {q}
  /\ request' = [request EXCEPT ![q] = [pc |-> "read", revision |-> @.revision, row |-> row]]
  /\ UNCHANGED <<ruleVars, run, answered, loop, history, events, faults>>

\* The enabled rules, with the state of those that were there before.
Reloaded(new) ==
  IF ~new.on THEN {}
  ELSE IF sched = {} THEN {Entry(new.def)}
  ELSE {Preserved(Entry(new.def), s) : s \in sched}

Install(q) ==
  /\ request[q].pc = "read"
  /\ sched' = Reloaded(request[q].row) /\ loaded' = request[q].row.revision
  /\ doubt' = IF \E s \in sched : request[q].row.on /\ s.def = request[q].row.def
              THEN doubt ELSE "none"
  /\ answered' = IF request[q].revision > answered THEN request[q].revision ELSE answered
  /\ request' = [request EXCEPT ![q] = [pc |-> "idle"]] /\ gate' = gate \ {q}
  /\ UNCHANGED <<row, value, arcs, run, loop, evaluated, replayed, events, faults>>

\* The rules cannot be read: a mutation then stops the scheduler.
FailReload(q) ==
  /\ request[q].pc = "waiting" /\ gate = {} /\ faults < MaxFaults
  /\ loop' = IF request[q].revision > 0 /\ loop = "on" THEN "stopping" ELSE loop
  /\ request' = [request EXCEPT ![q] = [pc |-> "idle"]]
  /\ faults' = faults + 1
  /\ UNCHANGED <<ruleVars, run, gate, answered, history, events>>

\* The client of a mutation goes away after the commit.
DropRequest(q) ==
  /\ request[q].pc # "idle" /\ faults < MaxFaults
  /\ request' = [request EXCEPT ![q] = [pc |-> "idle"]] /\ gate' = gate \ {q}
  /\ faults' = faults + 1
  /\ UNCHANGED <<ruleVars, run, answered, loop, history, events>>

\* select! sees the cancelled token; it may have taken more ticks before.
EndLoop ==
  /\ loop = "stopping" /\ run["loop"] = Idle
  /\ loop' = "ended"
  /\ UNCHANGED <<ruleVars, run, reloadVars, history, events, faults>>

-----------------------------------------------------------------------------
(* Environment *)

SetValue ==
  /\ events < MaxEvents
  /\ value' \in Inputs \ {value}
  /\ run' = [r \in Runners |->
       IF "steady" \in DOMAIN run[r] THEN [run[r] EXCEPT !.steady = FALSE] ELSE run[r]]
  /\ doubt' = IF doubt = "steady" THEN "moved" ELSE doubt
  /\ events' = events + 1
  /\ UNCHANGED <<row, sched, arcs, loaded, reloadVars, loop, evaluated, replayed, faults>>

RunStep(x) == Evaluate(x) \/ (\E outcome \in Outcomes : Finish(x, outcome)) \/ TimeOut(x) \/ Record(x)

LoopStep == (\E hint \in BOOLEAN : Fetch(hint)) \/ Select \/ RunStep("loop")

Next ==
  \/ LoopStep
  \/ \E m \in Manuals : LoadRow(m) \/ SelectManual(m) \/ RunStep(m) \/ DropManual(m)
  \/ \E q \in Mutations : Mutate(q) \/ DropRequest(q)
  \/ \E q \in Requests : BeginReload(q) \/ Install(q) \/ FailReload(q)
  \/ WatchTopology \/ EndLoop \/ SetValue

Spec == Init /\ [][Next]_vars

\* The loop is a task that is polled, its interval ticks and the times it
\* compares run out.
FairSpec == Spec /\ WF_vars(LoopStep)

-----------------------------------------------------------------------------
TypeOK ==
  /\ row \in [def : Definitions, on : BOOLEAN, revision : 1 .. MaxEvents + 1]
  /\ value \in Inputs /\ loaded \in 1 .. MaxEvents + 1 /\ answered \in 0 .. MaxEvents + 1
  /\ \A s, t \in sched : s = t
  /\ \A s \in sched :
       /\ s.def \in Definitions /\ s.hold.id \in 0 .. arcs /\ s.hold.input \in Inputs
       /\ s.last \in Inputs
  /\ \A r \in Runners :
       run[r].pc \in {"idle", "fetched", "loaded", "selected", "running", "done"}
  /\ \A q \in Requests : request[q].pc \in {"idle", "waiting", "read"}
  /\ gate \subseteq Requests /\ loop \in {"on", "stopping", "ended"}
  /\ doubt \in {"none", "moved", "steady"} /\ evaluated \subseteq Values
  /\ arcs \in Nat /\ replayed \in BOOLEAN /\ events \in 0 .. MaxEvents /\ faults \in 0 .. MaxFaults

(***************************************************************************)
(* Once an uncertain outcome is recorded the rule stays held until a run   *)
(* selected after it completes or the definition changes: the late success *)
(* of an older run, by hand or automatic, lifts no hold, and no reload     *)
(* does (accepts_completion, accept_or_hold_completion).                   *)
(***************************************************************************)
HoldKept == doubt # "none" => \E s \in sched : s.hold # NoHold

(***************************************************************************)
(* "An accepted physical action must not be sent again": while the point   *)
(* keeps the value an uncertain run was held for, the loop selects the     *)
(* rule no more, whatever runs, reloads and edits happen meanwhile.  A     *)
(* tick that fetched an older value before is excepted.                    *)
(***************************************************************************)
StableInputNotReplayed == ~replayed

(***************************************************************************)
(* The baseline is an input some successful run was given, so a change     *)
(* that arrives during a run is not taken as seen (advance_onchange).      *)
(***************************************************************************)
BaselineEvaluated == \A s \in sched : s.last # Missing => s.last \in evaluated

(***************************************************************************)
(* A mutation answered as in force is in the scheduler's rules from then   *)
(* on: a slower reload never puts older rules back (reload_gate).          *)
(***************************************************************************)
AnsweredInForce == answered <= loaded

(***************************************************************************)
(* No change is lost: in the end the baseline of an OnChange rule is       *)
(* within the deadband of the point's value, unless the rule is held, the  *)
(* scheduler was stopped or there is no value.  Failed runs are retried.   *)
(***************************************************************************)
Settled ==
  \/ loop # "on" \/ value = Missing
  \/ \A s \in sched :
       \/ s.def \notin OnChange \/ s.hold # NoHold
       \/ (s.last # Missing /\ ~Exceeds(s.last, value))

ChangesConsumed == <>[]Settled

(***************************************************************************)
(* A held rule stays held and is not run again on the input it was held    *)
(* for.                                                                    *)
(***************************************************************************)
HoldsPreventReplay == TypeOK /\ HoldKept /\ StableInputNotReplayed

(***************************************************************************)
(* The scheduler's rules are not older than what was answered, and its     *)
(* baseline not newer than what a run was given.                           *)
(***************************************************************************)
ScheduleTruthful == AnsweredInForce /\ BaselineEvaluated
=============================================================================
