------------------------ MODULE RuleSchedulerProofs ------------------------
(***************************************************************************)
(* Proofs, for every deadband, every number of runs by hand, of mutations  *)
(* and of faults, that a held rule stays held and is not run again on the  *)
(* input it was held for, and that the scheduler's rules are never older   *)
(* than what was answered.                                                 *)
(*                                                                         *)
(* HoldKept needs that a run selected before an uncertain outcome was      *)
(* recorded refers to another hold than the rule has since (Apart);        *)
(* StableInputNotReplayed needs what the values a run has fetched, read or *)
(* sampled say of the point (Faithful); AnsweredInForce needs the gate.    *)
(***************************************************************************)
EXTENDS RuleScheduler, TLAPS

Holds == [id : Nat, input : Inputs]
Entries == [def : Definitions, hold : Holds, last : Inputs]

Fetched == [pc : {"fetched"}, hint : BOOLEAN, steady : BOOLEAN, snap : Inputs]
Opened == [pc : {"loaded"}, def : Definitions]
Selections ==
  [pc : {"selected", "running", "done"}, def : Definitions, held : Holds, known : BOOLEAN,
   snap : Inputs, seen : Inputs, outcome : Outcomes, input : Inputs,
   steady : BOOLEAN, fresh : BOOLEAN]
Runs == {Idle} \cup Fetched \cup Opened \cup Selections

Chosen(r) == r.pc \in {"selected", "running", "done"}

Rows == [def : Definitions, on : BOOLEAN, revision : Nat]
Reloads == {Idle} \cup [pc : {"waiting"}, revision : Nat]
                  \cup [pc : {"read"}, revision : Nat, row : Rows]

(* What the values a run has fetched, read or sampled say of the point, as *)
(* long as it has not changed since; and what a success leaves as baseline *)
(* was evaluated.                                                          *)
Faithful(r, v, seen) ==
  /\ r.pc = "fetched" /\ r.steady => r.snap \in {v, Missing}
  /\ r.pc \in {"selected", "running"} /\ r.steady /\ r.def \in OnChange =>
       r.snap = v /\ r.seen \in {v, Missing}
  /\ r.pc = "done" /\ r.steady /\ r.def \in OnChange => Uncertain(r.outcome) /\ r.input = v
  /\ r.pc = "done" /\ r.outcome = "succeeded" /\ Consumed(r) # Missing => Consumed(r) \in seen

\* A run that was selected before the last uncertain outcome was recorded
\* refers to another hold.
Apart(r, s) == Chosen(r) /\ ~r.fresh => r.held.id # s.hold.id

ScheduleInv ==
  /\ sched = {} \/ \E s \in Entries : sched = {s}
  /\ arcs \in Nat /\ \A s \in sched : s.hold.id <= arcs
  /\ value \in Inputs /\ evaluated \subseteq Values
  /\ BaselineEvaluated

RunInv ==
  /\ run \in [Runners -> Runs]
  /\ \A x \in Runners : Faithful(run[x], value, evaluated) /\ (Chosen(run[x]) => run[x].held.id <= arcs)
  /\ \A m \in Manuals : run[m].pc # "fetched"

DoubtInv ==
  /\ doubt \in {"none", "moved", "steady"}
  /\ doubt # "none" =>
       \E s \in sched : s.hold.id # 0 /\ \A x \in Runners : Apart(run[x], s)
  /\ doubt = "steady" => \A s \in sched : s.def \in OnChange => s.hold.input = value
  /\ replayed = FALSE

ReloadInv ==
  /\ row \in Rows /\ loaded \in Nat /\ answered \in Nat
  /\ request \in [Requests -> Reloads] /\ gate \subseteq Requests
  /\ answered <= loaded /\ loaded <= row.revision /\ 1 <= loaded
  /\ \A q \in Requests :
       /\ request[q].pc = "waiting" => request[q].revision <= row.revision
       /\ request[q].pc = "read" =>
            /\ gate = {q}
            /\ request[q].revision <= request[q].row.revision
            /\ loaded <= request[q].row.revision /\ request[q].row.revision <= row.revision

CountInv ==
  /\ events \in 0 .. MaxEvents /\ faults \in 0 .. MaxFaults
  /\ row.revision <= events + 1
  /\ loop \in {"on", "stopping", "ended"}

IInv == ScheduleInv /\ RunInv /\ DoubtInv /\ ReloadInv /\ CountInv

-----------------------------------------------------------------------------
(* Runs *)

LEMMA Shape ==
  ASSUME NEW r \in Runs
  PROVE  /\ r.pc \in {"idle", "fetched", "loaded", "selected", "running", "done"}
         /\ r.pc = "idle" <=> r = Idle
         /\ r.pc = "fetched" => r \in Fetched
         /\ r.pc = "loaded" => r \in Opened
         /\ Chosen(r) => r \in Selections
         /\ "fresh" \in DOMAIN r <=> Chosen(r)
         /\ "steady" \in DOMAIN r <=> Chosen(r) \/ r.pc = "fetched"
<1>1. CASE r = Idle
  BY <1>1 DEF Idle, Chosen
<1>2. CASE r \in Fetched
  BY <1>2 DEF Fetched, Idle, Chosen
<1>3. CASE r \in Opened
  BY <1>3 DEF Opened, Idle, Chosen
<1>4. CASE r \in Selections
  BY <1>4 DEF Selections, Idle, Chosen
<1>5. QED
  BY <1>1, <1>2, <1>3, <1>4 DEF Runs

LEMMA IdleRun ==
  ASSUME NEW v, NEW e
  PROVE  Idle \in Runs /\ Faithful(Idle, v, e) /\ ~Chosen(Idle) /\ Idle.pc # "fetched"
BY DEF Runs, Idle, Faithful, Chosen

LEMMA InitHolds == Init => IInv
<1> SUFFICES ASSUME Init PROVE IInv
  OBVIOUS
<1>1. row \in Rows /\ row.revision = 1
  <2> DEFINE On == {TRUE}
  <2>1. On \subseteq BOOLEAN
    BY Zenon
  <2>2. row \in [def : Definitions, on : On, revision : {1}]
    BY ZenonT(30) DEF Init
  <2> HIDE DEF On
  <2>3. QED
    BY <2>1, <2>2 DEF Rows
<1>2. Entry(row.def) \in Entries /\ Entry(row.def).hold.id = 0 /\ Entry(row.def).last = Missing
  BY <1>1, SMTT(30) DEF Rows, Entry, Entries, NoHold, Holds, Inputs
<1>3. ScheduleInv
  BY <1>2, SchedulerAssumption, SMTT(30) DEF Init, ScheduleInv, BaselineEvaluated, Inputs
<1>4. RunInv
  BY IdleRun, SMTT(30) DEF Init, RunInv, Runners
<1>5. DoubtInv
  BY SMTT(30) DEF Init, DoubtInv
<1>6. request \in [Requests -> Reloads] /\ \A q \in Requests : request[q].pc = "idle"
  BY SMTT(30) DEF Init, Reloads, Idle
<1>7. ReloadInv
  BY <1>1, <1>6, SMTT(30) DEF Init, ReloadInv
<1>8. CountInv
  BY <1>1, SchedulerAssumption DEF Init, CountInv
<1>9. QED
  BY <1>3, <1>4, <1>5, <1>7, <1>8 DEF IInv

\* A run moves on; the rule, the point and what is held are left alone.
LEMMA OneRun ==
  ASSUME IInv, NEW x \in Runners, NEW r \in Runs, run' = [run EXCEPT ![x] = r],
         Faithful(r, value, evaluated'), Chosen(r) => r.held.id <= arcs,
         r.pc = "fetched" => x = "loop",
         Chosen(r) /\ ~r.fresh => Chosen(run[x]) /\ ~run[x].fresh /\ run[x].held = r.held,
         UNCHANGED <<sched, arcs, value, doubt>>, evaluated \subseteq evaluated', evaluated' \subseteq Values,
         replayed' = FALSE
  PROVE  ScheduleInv' /\ RunInv' /\ DoubtInv'
<1>1. ScheduleInv'
  BY ZenonT(30) DEF IInv, ScheduleInv, BaselineEvaluated
<1>2. run' \in [Runners -> Runs] /\ run'[x] = r /\ \A y \in Runners : y # x => run'[y] = run[y]
  BY ZenonT(30) DEF IInv, RunInv
<1>3. ASSUME NEW y \in Runners
      PROVE  Faithful(run'[y], value', evaluated') /\ (Chosen(run'[y]) => run'[y].held.id <= arcs')
  <2>1. CASE y = x
    BY <1>2, <2>1, ZenonT(30)
  <2>2. CASE y # x
    <3>1. Faithful(run[y], value, evaluated) /\ (Chosen(run[y]) => run[y].held.id <= arcs) /\ run'[y] = run[y]
      BY <1>2, <2>2, ZenonT(30) DEF IInv, RunInv
    <3>2. Faithful(run[y], value, evaluated')
      BY <3>1, ZenonT(30) DEF Faithful
    <3>3. QED
      BY <3>1, <3>2, ZenonT(30)
  <2>3. QED
    BY <2>1, <2>2, ZenonT(30)
<1>4. \A m \in Manuals : run'[m].pc # "fetched"
  BY <1>2, SchedulerAssumption, ZenonT(30) DEF IInv, RunInv, Runners
<1>5. RunInv'
  BY <1>2, <1>3, <1>4, ZenonT(30) DEF RunInv
<1>6. DoubtInv'
  <2>1. ASSUME NEW s \in sched, NEW y \in Runners, Apart(run[y], s), Apart(run[x], s)
        PROVE  Apart(run'[y], s)
    BY <1>2, <2>1 DEF Apart
  <2>2. QED
    BY <2>1, ZenonT(30) DEF IInv, DoubtInv
<1>7. QED
  BY <1>1, <1>5, <1>6, ZenonT(30)

LEMMA NewSelection ==
  ASSUME NEW def \in Definitions, NEW held \in Holds, NEW known \in BOOLEAN, NEW snap \in Inputs,
         NEW v, NEW e, def \in OnChange => snap = v,
         NEW r, r = Selected(def, held, known, snap)
  PROVE  r \in Runs /\ Faithful(r, v, e) /\ r.fresh /\ r.held = held /\ r.pc # "fetched"
<1>1. r \in Selections
  BY DEF Selections, Selected, Inputs, Outcomes
<1>2. r.pc = "selected" /\ r.fresh = TRUE /\ r.held = held /\ r.snap = snap /\ r.seen = Missing /\ r.def = def
  BY ZenonT(30) DEF Selected
<1>3. r \in Runs /\ Faithful(r, v, e)
  BY <1>1, <1>2, SMTT(30) DEF Runs, Faithful
<1>4. QED
  BY <1>2, <1>3, ZenonT(30)

LEMMA FetchKeeps ==
  ASSUME IInv, NEW hint \in BOOLEAN, Fetch(hint)
  PROVE  ScheduleInv' /\ RunInv' /\ DoubtInv'
<1> DEFINE r == [pc |-> "fetched", hint |-> hint, steady |-> TRUE,
                 snap |-> IF \E s \in sched : s.def \in OnChange THEN value ELSE Missing]
<1>1. r.snap \in {value, Missing} /\ r.snap \in Inputs
  BY ZenonT(30) DEF IInv, ScheduleInv, Inputs
<1>2. r \in Runs /\ Faithful(r, value, evaluated) /\ ~Chosen(r) /\ r.pc = "fetched"
  BY <1>1 DEF Runs, Fetched, Faithful, Chosen
<1>3. /\ run' = [run EXCEPT !["loop"] = r] /\ "loop" \in Runners
      /\ UNCHANGED <<sched, arcs, value, doubt, evaluated, replayed>>
  BY ZenonT(30) DEF Fetch, ruleVars, history, Runners
<1>4. replayed' = FALSE /\ evaluated' \subseteq Values
  BY <1>3 DEF IInv, DoubtInv, ScheduleInv
<1>5. QED
  BY <1>2, <1>3, <1>4, OneRun, ZenonT(30)

\* The loop passes by a rule that is held for the value the point still has.
LEMMA SelectKeeps ==
  ASSUME IInv, Select
  PROVE  ScheduleInv' /\ RunInv' /\ DoubtInv'
<1> DEFINE r == run["loop"]
<1>1. /\ "loop" \in Runners /\ r \in Fetched /\ Faithful(r, value, evaluated)
      /\ UNCHANGED <<sched, arcs, value, doubt, evaluated>>
  BY Shape, ZenonT(30) DEF IInv, RunInv, Select, Runners, ruleVars
<1>2. replayed = FALSE /\ evaluated \subseteq Values /\ value \in Inputs /\ r.snap \in Inputs
  BY <1>1 DEF IInv, DoubtInv, ScheduleInv, Fetched
<1>3. CASE run' = [run EXCEPT !["loop"] = Idle] /\ UNCHANGED replayed
  BY <1>1, <1>2, <1>3, IdleRun, OneRun, ZenonT(30)
<1>4. ASSUME NEW s \in sched, Due(s, r.snap),
             run' = [run EXCEPT !["loop"] = [Selected(s.def, s.hold, TRUE, r.snap) EXCEPT !.steady = r.steady]],
             replayed' = (replayed \/ (doubt = "steady" /\ r.steady))
      PROVE  ScheduleInv' /\ RunInv' /\ DoubtInv'
  <2> DEFINE n == [Selected(s.def, s.hold, TRUE, r.snap) EXCEPT !.steady = r.steady]
  <2>1. s \in Entries /\ sched = {s} /\ s.hold.id <= arcs
    BY DEF IInv, ScheduleInv
  <2>2. n \in Selections
    BY <1>1, <1>2, <2>1, ZenonT(30) DEF Selections, Selected, Inputs, Outcomes, Entries, Fetched
  <2>3. /\ n.pc = "selected" /\ n.fresh = TRUE /\ n.held = s.hold /\ n.snap = r.snap /\ n.seen = Missing
        /\ n.def = s.def /\ n.steady = r.steady
    BY DEF Selected
  <2>4. n.steady /\ n.def \in OnChange => n.snap = value
    <3>1. s.def \in OnChange => r.snap # Missing
      BY <1>4, ZenonT(30) DEF Due, Triggers
    <3>2. r.steady => r.snap \in {value, Missing}
      BY <1>1 DEF Faithful, Fetched
    <3>3. QED
      BY <2>3, <3>1, <3>2, ZenonT(30)
  <2>5. n \in Runs /\ Faithful(n, value, evaluated) /\ Chosen(n) /\ n.pc # "fetched"
    BY <2>2, <2>3, <2>4, ZenonT(30) DEF Runs, Faithful, Chosen
  <2>6. ~(doubt = "steady" /\ r.steady)
    <3>1. SUFFICES ASSUME doubt = "steady", r.steady PROVE FALSE
      BY ZenonT(30)
    <3>2. s.hold.id # 0 /\ (s.def \in OnChange => s.hold.input = value)
      BY <2>1, <3>1 DEF IInv, DoubtInv
    <3>3. r.snap \in {value, Missing}
      BY <1>1, <3>1, ZenonT(30) DEF Faithful, Fetched
    <3>4. s.hold # NoHold
      BY <3>2 DEF NoHold
    <3>5. QED
      BY <1>4, <3>2, <3>3, <3>4 DEF Due, AutomaticRetryHeld
  <2>7. replayed' = FALSE
    BY <1>2, <1>4, <2>6, Zenon
  <2>8. QED
    BY <1>1, <1>2, <1>4, <2>1, <2>3, <2>5, <2>7, OneRun, ZenonT(30)
<1>5. QED
  BY <1>3, <1>4, ZenonT(30) DEF Select

LEMMA ManualStartKeeps ==
  ASSUME IInv, NEW m \in Manuals, LoadRow(m) \/ SelectManual(m) \/ DropManual(m)
  PROVE  ScheduleInv' /\ RunInv' /\ DoubtInv'
<1>1. m \in Runners /\ run[m] \in Runs /\ value \in Inputs
  BY ZenonT(30) DEF IInv, RunInv, ScheduleInv, Runners
<1>2. UNCHANGED <<sched, arcs, value, doubt, evaluated, replayed>>
  BY ZenonT(30) DEF LoadRow, SelectManual, DropManual, ruleVars, history
<1>3. replayed' = FALSE /\ evaluated' \subseteq Values
  BY <1>2, SMTT(30) DEF IInv, DoubtInv, ScheduleInv
<1>4. CASE LoadRow(m)
  <2> DEFINE n == [pc |-> "loaded", def |-> row.def]
  <2>1. n \in Runs /\ Faithful(n, value, evaluated) /\ ~Chosen(n) /\ n.pc # "fetched"
    BY ZenonT(30) DEF IInv, ReloadInv, Rows, Runs, Opened, Faithful, Chosen
  <2>2. run' = [run EXCEPT ![m] = n]
    BY <1>4 DEF LoadRow
  <2>3. QED
    BY <1>1, <1>2, <1>3, <2>1, <2>2, OneRun, ZenonT(30)
<1>5. CASE DropManual(m)
  <2>1. run' = [run EXCEPT ![m] = Idle]
    BY <1>5 DEF DropManual
  <2>2. QED
    BY <1>1, <1>2, <1>3, <2>1, IdleRun, OneRun, ZenonT(30)
<1>6. CASE SelectManual(m)
  <2> DEFINE def == run[m].def
             same == {s \in sched : s.def = def}
             held == IF same = {} THEN NoHold ELSE (CHOOSE s \in same : TRUE).hold
             n == Selected(def, held, same # {}, Snapshot(def))
  <2>1. def \in Definitions
    BY <1>1, <1>6, Shape, ZenonT(30) DEF SelectManual, Opened
  <2>2. held \in Holds /\ held.id <= arcs
    <3>1. CASE same = {}
      BY <3>1 DEF IInv, ScheduleInv, NoHold, Holds, Inputs
    <3>2. CASE same # {}
      <4>1. PICK s \in same : s = CHOOSE t \in same : TRUE
        BY <3>2, ZenonT(30)
      <4>2. s \in Entries /\ s.hold.id <= arcs
        BY ZenonT(30) DEF IInv, ScheduleInv
      <4>3. QED
        BY <3>2, <4>1, <4>2, ZenonT(30) DEF Entries
    <3>3. QED
      BY <3>1, <3>2, ZenonT(30)
  <2>3. Snapshot(def) \in Inputs /\ (def \in OnChange => Snapshot(def) = value)
    BY <1>1 DEF Snapshot, Inputs
  <2>4. (same # {}) \in BOOLEAN
    BY Zenon
  <2>5. n \in Runs /\ Faithful(n, value, evaluated) /\ n.fresh /\ n.held = held /\ n.pc # "fetched"
    <3>1. n = Selected(def, held, same # {}, Snapshot(def))
      OBVIOUS
    <3>2. PICK known \in BOOLEAN, snap \in Inputs : known = (same # {}) /\ snap = Snapshot(def)
      BY <2>3, <2>4, Zenon
    <3>3. n = Selected(def, held, known, snap) /\ (def \in OnChange => snap = value)
      BY <2>3, <3>1, <3>2, Zenon
    <3> HIDE DEF n, def, same, held
    <3>4. QED
      BY <2>1, <2>2, <3>3, NewSelection
  <2>6. run' = [run EXCEPT ![m] = n]
    BY <1>6, ZenonT(30) DEF SelectManual
  <2>7. QED
    BY <1>1, <1>2, <1>3, <2>2, <2>5, <2>6, OneRun, ZenonT(30)
<1>7. QED
  BY <1>4, <1>5, <1>6

LEMMA EvaluateKeeps ==
  ASSUME IInv, NEW x \in Runners, Evaluate(x)
  PROVE  ScheduleInv' /\ RunInv' /\ DoubtInv'
<1> DEFINE r == run[x]
<1>1. /\ r \in Selections /\ r.pc = "selected" /\ Faithful(r, value, evaluated) /\ r.held.id <= arcs
      /\ value \in Inputs
  BY Shape DEF IInv, RunInv, ScheduleInv, Evaluate, Chosen
<1>2. PICK seen \in {value, Missing} : run' = [run EXCEPT ![x].pc = "running", ![x].seen = seen]
  BY ZenonT(30) DEF Evaluate
<1> DEFINE n == [r EXCEPT !.pc = "running", !.seen = seen]
<1>3. n \in Selections /\ n.pc = "running" /\ n.seen = seen /\ n.snap = r.snap /\ n.steady = r.steady
      /\ n.def = r.def /\ n.fresh = r.fresh /\ n.held = r.held
  BY <1>1, ZenonT(30) DEF Selections, Inputs
<1>4. n \in Runs /\ Faithful(n, value, evaluated) /\ n.pc # "fetched"
  BY <1>1, <1>3 DEF Runs, Faithful
<1>5. run' = [run EXCEPT ![x] = n]
  BY <1>2, ZenonT(30) DEF IInv, RunInv
<1>6. UNCHANGED <<sched, arcs, value, doubt, evaluated, replayed>>
  BY ZenonT(30) DEF Evaluate, ruleVars, history
<1>7. replayed' = FALSE /\ evaluated' \subseteq Values
  BY <1>6, ZenonT(30) DEF IInv, DoubtInv, ScheduleInv
<1>8. Chosen(r)
  BY <1>1 DEF Chosen
<1>9. QED
  BY <1>1, <1>3, <1>4, <1>5, <1>6, <1>7, <1>8, OneRun, ZenonT(30)

\* What a finished run keeps.
LEMMA DoneRun ==
  ASSUME NEW r \in Selections, NEW outcome \in Outcomes, NEW input \in Inputs
  PROVE  LET n == Done(r, outcome, input)
         IN  /\ n \in Selections /\ n.pc = "done" /\ n.outcome = outcome /\ n.input = input /\ n.def = r.def
             /\ n.held = r.held /\ n.fresh = r.fresh /\ n.snap = Missing
             /\ n.seen = IF outcome = "succeeded" THEN Consumed(r) ELSE Missing
             /\ n.steady = (r.steady /\ Uncertain(outcome))
<1>1. Consumed(r) \in Inputs /\ Missing \in Inputs
  BY DEF Consumed, Selections, Inputs
<1>2. (r.steady /\ Uncertain(outcome)) \in BOOLEAN
  OBVIOUS
<1>3. PICK st \in BOOLEAN : st = (r.steady /\ Uncertain(outcome))
  BY <1>2, Zenon
<1>4. PICK sn \in Inputs : sn = IF outcome = "succeeded" THEN Consumed(r) ELSE Missing
  BY <1>1
<1> DEFINE n == [r EXCEPT !.pc = "done", !.outcome = outcome, !.input = input, !.snap = Missing, !.seen = sn,
                          !.steady = st]
<1>5. Done(r, outcome, input) = n
  BY <1>3, <1>4, Zenon DEF Done
<1>6. /\ n \in Selections /\ n.pc = "done" /\ n.outcome = outcome /\ n.input = input /\ n.def = r.def
      /\ n.held = r.held /\ n.fresh = r.fresh /\ n.snap = Missing /\ n.seen = sn /\ n.steady = st
  BY <1>1, ZenonT(30) DEF Selections
<1>7. QED
  BY <1>3, <1>4, <1>5, <1>6, Zenon

LEMMA FinishKeeps ==
  ASSUME IInv, NEW x \in Runners, NEW outcome \in Outcomes, Finish(x, outcome)
  PROVE  ScheduleInv' /\ RunInv' /\ DoubtInv'
<1> DEFINE r == run[x]
<1>1. /\ r \in Selections /\ r.pc = "running" /\ Faithful(r, value, evaluated) /\ r.held.id <= arcs
      /\ value \in Inputs /\ evaluated \subseteq Values /\ Chosen(r)
  BY Shape DEF IInv, RunInv, ScheduleInv, Finish, Chosen
<1>2. PICK input \in IF outcome = "partial" THEN {Consumed(r), r.snap} ELSE {Missing} :
        run' = [run EXCEPT ![x] = Done(r, outcome, input)]
  BY ZenonT(30) DEF Finish
<1>3. Consumed(r) \in Inputs /\ input \in Inputs
  BY <1>1, ZenonT(30) DEF Consumed, Selections, Inputs
<1> DEFINE n == Done(r, outcome, input)
<1>4. /\ n \in Selections /\ n.pc = "done" /\ n.outcome = outcome /\ n.input = input /\ n.def = r.def
      /\ n.held = r.held /\ n.fresh = r.fresh /\ n.snap = Missing
      /\ n.seen = IF outcome = "succeeded" THEN Consumed(r) ELSE Missing
      /\ n.steady = (r.steady /\ Uncertain(outcome))
  BY <1>1, <1>3, DoneRun, SMTT(30)
<1> HIDE DEF n
<1>5. /\ evaluated \subseteq evaluated' /\ evaluated' \subseteq Values
      /\ outcome = "succeeded" /\ Consumed(r) # Missing => Consumed(r) \in evaluated'
  BY <1>1, <1>3, SchedulerAssumption, ZenonT(30) DEF Finish, Inputs
<1>6. n.steady /\ n.def \in OnChange => Uncertain(outcome) /\ input = value
  <2>1. SUFFICES ASSUME r.steady, Uncertain(outcome), r.def \in OnChange PROVE input = value
    BY <1>4, Zenon
  <2>2. r.snap = value /\ r.seen \in {value, Missing}
    BY <1>1, <2>1, ZenonT(30) DEF Faithful
  <2>3. outcome = "partial"
    BY <2>1, ZenonT(30) DEF Finish, Uncertain
  <2>4. QED
    BY <1>2, <2>2, <2>3 DEF Consumed
<1>7. Faithful(n, value, evaluated')
  BY <1>4, <1>5, <1>6, ZenonT(30) DEF Faithful, Consumed
<1>8. UNCHANGED <<sched, arcs, value, doubt, replayed>> /\ replayed' = FALSE
  BY ZenonT(30) DEF Finish, ruleVars, IInv, DoubtInv
<1>9. n \in Runs /\ run' = [run EXCEPT ![x] = n]
  BY <1>2, <1>4 DEF Runs, n
<1>10. QED
  BY <1>1, <1>4, <1>5, <1>7, <1>8, <1>9, OneRun, ZenonT(30)

LEMMA TimeOutKeeps ==
  ASSUME IInv, NEW x \in Runners, TimeOut(x)
  PROVE  ScheduleInv' /\ RunInv' /\ DoubtInv'
<1> DEFINE r == run[x]
           input == Snapshot(r.def)
           d == Done(r, "timeout", input)
           n == [d EXCEPT !.steady = TRUE]
<1>1. /\ r \in Selections /\ r.held.id <= arcs /\ Chosen(r)
      /\ value \in Inputs /\ evaluated \subseteq Values
  BY Shape DEF IInv, RunInv, ScheduleInv, TimeOut, Chosen
<1>2. input \in Inputs /\ (r.def \in OnChange => input = value)
  BY <1>1 DEF Snapshot, Inputs
<1>3. run' = [run EXCEPT ![x] = n]
  BY ZenonT(30) DEF TimeOut
<1>4. /\ d \in Selections /\ d.pc = "done" /\ d.outcome = "timeout" /\ d.input = input /\ d.def = r.def
      /\ d.held = r.held /\ d.fresh = r.fresh
  <2>1. "timeout" \in Outcomes
    BY DEF Outcomes
  <2> HIDE DEF input
  <2>2. QED
    BY <1>1, <1>2, <2>1, DoneRun
<1> HIDE DEF d, input
<1>5. /\ n \in Selections /\ n.pc = "done" /\ n.outcome = "timeout" /\ n.input = input /\ n.def = r.def
      /\ n.held = r.held /\ n.fresh = r.fresh
  BY <1>4, ZenonT(30) DEF Selections
<1>6. Faithful(n, value, evaluated) /\ n \in Runs
  BY <1>2, <1>5 DEF Faithful, Uncertain, Runs
<1>7. UNCHANGED <<sched, arcs, value, doubt, evaluated, replayed>> /\ replayed' = FALSE
  BY DEF TimeOut, ruleVars, history, IInv, DoubtInv
<1>8. QED
  BY <1>1, <1>3, <1>5, <1>6, <1>7, OneRun, ZenonT(30)

\* The point changes: nothing that was read of it is steady any more.
LEMMA SetValueKeeps ==
  ASSUME IInv, SetValue
  PROVE  ScheduleInv' /\ RunInv' /\ DoubtInv'
<1>1. UNCHANGED <<sched, arcs, evaluated, replayed>> /\ value' \in Inputs
  BY ZenonT(30) DEF SetValue
<1>2. ScheduleInv'
  BY <1>1, ZenonT(30) DEF IInv, ScheduleInv, BaselineEvaluated
<1>3. ASSUME NEW x \in Runners
      PROVE  /\ run'[x] \in Runs /\ Faithful(run'[x], value', evaluated) /\ run'[x].pc = run[x].pc
             /\ Chosen(run[x]) => run'[x].held = run[x].held /\ run'[x].fresh = run[x].fresh
  <2> DEFINE r == run[x]
             n == [r EXCEPT !.steady = FALSE]
  <2>1. r \in Runs /\ Faithful(r, value, evaluated)
    BY DEF IInv, RunInv
  <2>2. run'[x] = IF "steady" \in DOMAIN r THEN n ELSE r
    BY DEF SetValue
  <2>3. CASE Chosen(r)
    <3>1. r \in Selections /\ run'[x] = n
      BY <2>1, <2>2, <2>3, Shape
    <3>2. /\ n \in Selections /\ n.steady = FALSE /\ n.pc = r.pc /\ n.held = r.held /\ n.fresh = r.fresh
          /\ n.outcome = r.outcome /\ n.seen = r.seen /\ n.snap = r.snap
      BY <3>1, ZenonT(30) DEF Selections
    <3>3. Faithful(n, value', evaluated)
      BY <2>1, <2>3, <3>2 DEF Faithful, Consumed, Chosen
    <3>4. QED
      BY <3>1, <3>2, <3>3 DEF Runs
  <2>4. CASE r.pc = "fetched"
    <3>1. r \in Fetched /\ run'[x] = n
      BY <2>1, <2>2, <2>4, Shape
    <3>2. n \in Fetched /\ n.steady = FALSE /\ n.pc = "fetched"
      BY <2>4, <3>1, ZenonT(30) DEF Fetched
    <3>3. QED
      BY <2>4, <3>1, <3>2 DEF Runs, Faithful, Chosen
  <2>5. CASE ~Chosen(r) /\ r.pc # "fetched"
    <3>1. run'[x] = r
      BY <2>1, <2>2, <2>5, Shape
    <3>2. QED
      BY <2>1, <2>5, <3>1 DEF Faithful, Chosen
  <2>6. QED
    BY <2>3, <2>4, <2>5, ZenonT(30)
<1>4. run' \in [Runners -> Runs]
  BY <1>3, ZenonT(30) DEF SetValue
<1>5. RunInv'
  BY <1>1, <1>3, <1>4 DEF IInv, RunInv, Chosen, Runners
<1>6. doubt' \in {"none", "moved"} /\ (doubt' # "none" => doubt # "none")
  BY ZenonT(30) DEF SetValue, IInv, DoubtInv
<1>7. \A s \in sched, x \in Runners : Apart(run[x], s) => Apart(run'[x], s)
  BY <1>3, ZenonT(30) DEF Apart, Chosen
<1>8. DoubtInv'
  BY <1>1, <1>6, <1>7 DEF IInv, DoubtInv
<1>9. QED
  BY <1>2, <1>5, <1>8

-----------------------------------------------------------------------------
(* Completions *)

\* A completion that leaves the rule as it was, or ends the doubt about it.
LEMMA Completion ==
  ASSUME IInv, NEW x \in Runners, NEW s \in sched, NEW t \in Entries, sched' = {t},
         run' = [run EXCEPT ![x] = Idle], t.hold.id <= arcs, t.last # Missing => t.last \in evaluated,
         doubt' = "none" \/ (doubt' = doubt /\ t = s),
         UNCHANGED <<arcs, value, evaluated, replayed>>
  PROVE  ScheduleInv' /\ RunInv' /\ DoubtInv'
<1>1. ScheduleInv'
  BY ZenonT(30) DEF IInv, ScheduleInv, BaselineEvaluated
<1>2. \A y \in Runners : run'[y] = IF y = x THEN Idle ELSE run[y]
  BY ZenonT(30) DEF IInv, RunInv
<1>3. RunInv'
  <2>1. run' \in [Runners -> Runs]
    BY IdleRun, ZenonT(30) DEF IInv, RunInv
  <2>2. \A y \in Runners : Faithful(run'[y], value, evaluated) /\ (Chosen(run'[y]) => run'[y].held.id <= arcs)
    BY <1>2, IdleRun, ZenonT(30) DEF IInv, RunInv
  <2>3. \A m \in Manuals : run'[m].pc # "fetched"
    BY <1>2, IdleRun, ZenonT(30) DEF IInv, RunInv, Runners
  <2>4. QED
    BY <2>1, <2>2, <2>3 DEF RunInv
<1>4. DoubtInv'
  <2>1. CASE doubt' = "none"
    BY <2>1 DEF IInv, DoubtInv
  <2>2. CASE doubt' = doubt /\ t = s
    <3>1. sched = {s}
      BY ZenonT(30) DEF IInv, ScheduleInv
    <3>2. \A y \in Runners : Apart(run[y], s) => Apart(run'[y], s)
      BY <1>2, IdleRun DEF Apart
    <3>3. QED
      BY <2>2, <3>1, <3>2, ZenonT(30) DEF IInv, DoubtInv
  <2>3. QED
    BY <2>1, <2>2, ZenonT(30)
<1>5. QED
  BY <1>1, <1>3, <1>4, ZenonT(30)

LEMMA OneEntry ==
  ASSUME NEW t \in Entries, sched' = {t}, arcs' \in Nat, t.hold.id <= arcs', value' \in Inputs,
         evaluated' \subseteq Values, t.last # Missing => t.last \in evaluated'
  PROVE  ScheduleInv'
BY DEF ScheduleInv, BaselineEvaluated

LEMMA RunsFollow ==
  ASSUME run' \in [Runners -> Runs], \A m \in Manuals : run'[m].pc # "fetched",
         \A y \in Runners : /\ Faithful(run'[y], value', evaluated')
                            /\ Chosen(run'[y]) => run'[y].held.id <= arcs'
  PROVE  RunInv'
BY ZenonT(30) DEF RunInv

\* An uncertain outcome is recorded: a new hold, which no run refers to.
LEMMA HoldRecorded ==
  ASSUME IInv, NEW x \in Runners, NEW s \in sched, NEW input \in Inputs,
         sched' = {[s EXCEPT !.hold = NewHold(s, input)]}, arcs' = arcs + 1,
         run' = [y \in Runners |-> IF y = x THEN Idle
                                   ELSE IF "fresh" \in DOMAIN run[y] THEN [run[y] EXCEPT !.fresh = FALSE]
                                   ELSE run[y]],
         doubt' \in {"moved", "steady"}, doubt' = "steady" /\ s.def \in OnChange => input = value,
         UNCHANGED <<value, evaluated, replayed>>
  PROVE  ScheduleInv' /\ RunInv' /\ DoubtInv'
<1> DEFINE h == NewHold(s, input)
           t == [s EXCEPT !.hold = h]
<1>1. s \in Entries /\ arcs \in Nat
  BY DEF IInv, ScheduleInv
<1>2. h \in Holds /\ h.id = arcs + 1 /\ (s.def \in OnChange => h.input = input)
  BY <1>1 DEF NewHold, Holds, Inputs
<1> HIDE DEF h
<1>3. t \in Entries /\ t.hold = h /\ t.last = s.last /\ t.def = s.def
  BY <1>1, <1>2 DEF Entries
<1>4. sched' = {t}
  BY DEF h
<1> HIDE DEF t
<1>5. ScheduleInv'
  <2>1. t.hold.id <= arcs' /\ arcs' \in Nat
    BY <1>1, <1>2, <1>3
  <2>2. /\ s.last # Missing => s.last \in evaluated'
        /\ value' \in Inputs /\ evaluated' \subseteq Values
    BY DEF IInv, ScheduleInv, BaselineEvaluated
  <2>3. QED
    BY <1>3, <1>4, <2>1, <2>2, OneEntry, Zenon
<1>6. ASSUME NEW y \in Runners
      PROVE  /\ run'[y] \in Runs /\ Faithful(run'[y], value, evaluated)
             /\ Chosen(run'[y]) => run'[y].held.id <= arcs
             /\ run'[y].pc = "fetched" => run[y].pc = "fetched"
  <2> DEFINE r == run[y]
             n == [r EXCEPT !.fresh = FALSE]
  <2>1. r \in Runs /\ Faithful(r, value, evaluated) /\ (Chosen(r) => r.held.id <= arcs)
    BY DEF IInv, RunInv
  <2>2. CASE y = x
    BY <2>2, IdleRun
  <2>3. CASE y # x /\ Chosen(r)
    <3>1. r \in Selections /\ run'[y] = n
      BY <2>1, <2>3, Shape
    <3>2. /\ n \in Selections /\ n.pc = r.pc /\ n.held = r.held /\ n.steady = r.steady /\ n.def = r.def
          /\ n.outcome = r.outcome /\ n.seen = r.seen /\ n.snap = r.snap /\ n.input = r.input
      BY <3>1, ZenonT(30) DEF Selections
    <3>3. Faithful(n, value, evaluated)
      BY <2>1, <2>3, <3>2 DEF Faithful, Consumed, Chosen
    <3>4. QED
      BY <2>1, <2>3, <3>1, <3>2, <3>3 DEF Runs
  <2>4. CASE y # x /\ ~Chosen(r)
    <3>1. run'[y] = r
      BY <2>1, <2>4, Shape
    <3>2. QED
      BY <2>1, <3>1
  <2>5. QED
    BY <2>2, <2>3, <2>4
<1>7. run' \in [Runners -> Runs]
  BY <1>6
<1>8. RunInv'
  <2>1. \A m \in Manuals : m \in Runners /\ run[m].pc # "fetched"
    BY DEF IInv, RunInv, Runners
  <2>2. ASSUME NEW y \in Runners, Chosen(run'[y]) PROVE run'[y].held.id <= arcs'
    <3>1. run'[y].held.id <= arcs /\ run'[y].held.id \in Nat
      BY <1>6, <2>2, Shape DEF Selections, Holds
    <3>2. QED
      BY <1>1, <3>1
  <2>3. QED
    BY <1>6, <1>7, <2>1, <2>2, RunsFollow, Zenon
<1>9. \A y \in Runners : Apart(run'[y], t)
  BY <1>1, <1>2, <1>3, <1>6 DEF Apart
<1>10. DoubtInv'
  <2>1. t \in sched' /\ t.hold.id # 0
    BY <1>1, <1>2, <1>3, <1>4
  <2>2. doubt' = "steady" => \A q \in sched' : q.def \in OnChange => q.hold.input = value'
    BY <1>2, <1>3, <1>4
  <2>3. replayed' = FALSE /\ doubt' \in {"none", "moved", "steady"}
    BY DEF IInv, DoubtInv
  <2>4. QED
    BY <1>9, <2>1, <2>2, <2>3, Zenon DEF DoubtInv
<1>11. QED
  BY <1>5, <1>8, <1>10

\* A certain outcome leaves the rule alone or lifts its hold.
LEMMA HoldLifted ==
  ASSUME NEW s \in Entries, NEW r \in Selections, NEW auto \in BOOLEAN, ~Uncertain(r.outcome),
         AcceptsCompletion(s, r)
  PROVE  LET t == Completed(s, r, auto)
         IN  \/ t = s
             \/ /\ t \in Entries /\ t.hold = NoHold /\ (auto \/ r.outcome = "succeeded")
                /\ t.last = s.last \/ (r.outcome = "succeeded" /\ Consumed(r) # Missing /\ t.last = Consumed(r))
<1> DEFINE u == [s EXCEPT !.hold = NoHold]
<1>1. Consumed(r) \in Inputs /\ NoHold \in Holds
  BY DEF Consumed, Selections, Inputs, NoHold, Holds
<1>2. u \in Entries /\ u.hold = NoHold /\ u.last = s.last /\ u.def = s.def
  BY <1>1 DEF Entries
<1> HIDE DEF u
<1>3. LET t == AdvanceOnChange(u, r)
      IN  /\ t \in Entries /\ t.hold = NoHold
          /\ t.last = s.last \/ (Consumed(r) # Missing /\ t.last = Consumed(r))
  BY <1>1, <1>2 DEF AdvanceOnChange, Entries
<1>4. CASE auto
  <2>1. Completed(s, r, auto) = IF r.outcome = "succeeded" THEN AdvanceOnChange(u, r) ELSE u
    BY <1>4, Zenon DEF Completed, AfterAutomatic, u
  <2>2. QED
    BY <1>2, <1>3, <1>4, <2>1, Zenon
<1>5. CASE ~auto
  <2>1. Completed(s, r, auto) = IF r.outcome = "succeeded" /\ s.hold # NoHold THEN AdvanceOnChange(u, r) ELSE s
    BY <1>5, Zenon DEF Completed, AfterManual, u
  <2>2. QED
    BY <1>3, <2>1, Zenon
<1>6. QED
  BY <1>4, <1>5, Zenon

\* A run that may settle the doubt was selected after it arose.
LEMMA RecordKeeps ==
  ASSUME IInv, NEW x \in Runners, Record(x)
  PROVE  ScheduleInv' /\ RunInv' /\ DoubtInv'
<1> DEFINE r == run[x]
           here == {s \in sched : r.known}
           recorded == Uncertain(r.outcome) /\ \E s \in here : s.def = r.def
           auto == (x = "loop")
<1>1. /\ r \in Selections /\ r.pc = "done" /\ Chosen(r) /\ Faithful(r, value, evaluated) /\ r.held.id <= arcs
      /\ value \in Inputs /\ evaluated \subseteq Values /\ arcs \in Nat /\ auto \in BOOLEAN
  BY Shape DEF IInv, RunInv, ScheduleInv, Record, Chosen
<1>2. UNCHANGED <<value, evaluated, replayed>> /\ replayed' = FALSE
  BY DEF Record, IInv, DoubtInv
<1>3. /\ sched' = IF here = {} THEN sched ELSE {Completed(s, r, auto) : s \in here}
      /\ doubt' = IF here = {} THEN doubt ELSE DoubtAfter(CHOOSE s \in here : TRUE, r, auto)
      /\ arcs' = IF recorded THEN arcs + 1 ELSE arcs
      /\ run' = [y \in Runners |->
           IF y = x THEN Idle
           ELSE IF recorded /\ "fresh" \in DOMAIN run[y] THEN [run[y] EXCEPT !.fresh = FALSE]
           ELSE run[y]]
  BY Zenon DEF Record
<1>4. ~recorded => arcs' = arcs /\ run' = [run EXCEPT ![x] = Idle]
  <2>1. SUFFICES ASSUME ~recorded PROVE run' = [run EXCEPT ![x] = Idle]
    BY <1>3
  <2> HIDE DEF recorded
  <2>2. run' = [y \in Runners |-> IF y = x THEN Idle ELSE run[y]]
    BY <1>3, <2>1, ZenonT(30)
  <2>3. run \in [Runners -> Runs]
    BY DEF IInv, RunInv
  <2>4. QED
    BY <2>2, <2>3, ZenonT(30)
<1>5. CASE here = {}
  <2>1. ~recorded /\ UNCHANGED <<sched, doubt>>
    BY <1>3, <1>5, ZenonT(30)
  <2>2. QED
    BY <1>1, <1>2, <1>4, <2>1, IdleRun, OneRun, ZenonT(30)
<1>6. ASSUME NEW s \in here PROVE ScheduleInv' /\ RunInv' /\ DoubtInv'
  <2>1. s \in Entries /\ s \in sched /\ sched = {s} /\ s.hold.id <= arcs
    BY ZenonT(30) DEF IInv, ScheduleInv
  <2>2. here = {s}
    BY <2>1
  <2> HIDE DEF here
  <2>3. /\ sched' = {Completed(s, r, auto)} /\ doubt' = DoubtAfter(s, r, auto)
        /\ recorded <=> Uncertain(r.outcome) /\ s.def = r.def
    BY <1>3, <2>2, ZenonT(30)
  <2>4. s.last # Missing => s.last \in evaluated
    BY <2>1 DEF IInv, ScheduleInv, BaselineEvaluated
  <2>5. CASE recorded
    <3>1. PICK input \in Inputs :
            /\ Completed(s, r, auto) = [s EXCEPT !.hold = NewHold(s, input)]
            /\ input = IF AcceptsCompletion(s, r) THEN r.input ELSE value
      <4>1. r.input \in Inputs
        BY <1>1, ZenonT(30) DEF Selections
      <4>2. Uncertain(r.outcome) /\ s.def = r.def /\ r.outcome # "succeeded"
        BY <2>3, <2>5 DEF Uncertain
      <4>3. CASE AcceptsCompletion(s, r)
        BY <4>1, <4>2, <4>3, Zenon DEF Completed, AfterAutomatic, AfterManual
      <4>4. CASE ~AcceptsCompletion(s, r)
        BY <1>1, <4>2, <4>4, Zenon DEF Completed
      <4>5. QED
        BY <4>3, <4>4
    <3>2. doubt' = IF r.steady \/ ~AcceptsCompletion(s, r) THEN "steady" ELSE "moved"
      BY <2>3, <2>5, Zenon DEF DoubtAfter
    <3>3. doubt' \in {"moved", "steady"} /\ (doubt' = "steady" /\ s.def \in OnChange => input = value)
      <4>1. r.steady /\ r.def \in OnChange => r.input = value
        BY <1>1 DEF Faithful
      <4>2. QED
        BY <2>3, <2>5, <3>1, <3>2, <4>1, ZenonT(30)
    <3>4. /\ arcs' = arcs + 1
          /\ run' = [y \in Runners |-> IF y = x THEN Idle
                                       ELSE IF "fresh" \in DOMAIN run[y] THEN [run[y] EXCEPT !.fresh = FALSE]
                                       ELSE run[y]]
      <4> HIDE DEF recorded
      <4>1. QED
        BY <1>3, <2>5
    <3>5. QED
      BY <1>2, <2>1, <2>3, <3>1, <3>3, <3>4, HoldRecorded
  <2>6. CASE ~recorded
    <3> DEFINE t == Completed(s, r, auto)
    <3>1. /\ t \in Entries /\ t.hold.id <= arcs /\ (t.last # Missing => t.last \in evaluated)
          /\ doubt' = "none" \/ (doubt' = doubt /\ t = s)
      <4>1. CASE s.def # r.def
        <5>1. t = s /\ doubt' = doubt
          BY <2>3, <4>1, Zenon DEF Completed, AcceptsCompletion, DoubtAfter
        <5>2. QED
          BY <2>1, <2>4, <5>1
      <4>2. CASE s.def = r.def /\ ~AcceptsCompletion(s, r)
        <5>1. ~Uncertain(r.outcome)
          BY <2>3, <2>6, <4>2
        <5>2. t = s
          BY <4>2, <5>1, Zenon DEF Completed
        <5>3. doubt' \in {"none", doubt}
          BY <2>3, <4>2, <5>1, ZenonT(30) DEF DoubtAfter
        <5>4. QED
          BY <2>1, <2>4, <5>2, <5>3, ZenonT(30)
      <4>3. CASE s.def = r.def /\ AcceptsCompletion(s, r)
        <5>1. ~Uncertain(r.outcome)
          BY <2>3, <2>6, <4>3
        <5>2. doubt' = IF r.fresh /\ (auto \/ r.outcome = "succeeded") THEN "none" ELSE doubt
          BY <2>3, <4>3, <5>1, Zenon DEF DoubtAfter
        <5>3. CASE t = s
          BY <2>1, <2>4, <5>2, <5>3
        <5>4. CASE t # s
          <6>1. /\ t \in Entries /\ t.hold = NoHold /\ (auto \/ r.outcome = "succeeded")
                /\ t.last = s.last \/ (r.outcome = "succeeded" /\ Consumed(r) # Missing /\ t.last = Consumed(r))
            BY <1>1, <2>1, <4>3, <5>1, <5>4, HoldLifted, ZenonT(30)
          <6>2. r.outcome = "succeeded" /\ Consumed(r) # Missing => Consumed(r) \in evaluated
            BY <1>1, ZenonT(30) DEF Faithful
          <6>3. ~r.fresh => doubt = "none"
            <7>1. SUFFICES ASSUME ~r.fresh, doubt # "none" PROVE FALSE
              BY ZenonT(30)
            <7>2. Apart(r, s)
              BY <2>1, <7>1 DEF IInv, DoubtInv
            <7>3. QED
              BY <1>1, <4>3, <7>1, <7>2 DEF Apart, AcceptsCompletion
          <6>4. doubt' = "none"
            BY <5>2, <6>1, <6>3, ZenonT(30)
          <6>5. t.hold.id <= arcs
            BY <1>1, <6>1, SMTT(30) DEF NoHold
          <6>6. QED
            <7> HIDE DEF t
            <7>1. QED
              BY <2>4, <6>1, <6>2, <6>4, <6>5, Zenon
        <5>5. QED
          BY <5>3, <5>4, ZenonT(30)
      <4>4. QED
        BY <4>1, <4>2, <4>3, ZenonT(30)
    <3>2. sched' = {t}
      BY <2>3, ZenonT(30)
    <3> HIDE DEF t
    <3>3. arcs' = arcs /\ run' = [run EXCEPT ![x] = Idle]
      BY <1>4, <2>6, ZenonT(30)
    <3>4. QED
      BY <1>2, <2>1, <3>1, <3>2, <3>3, Completion, ZenonT(30)
  <2>7. QED
    BY <2>5, <2>6, ZenonT(30)
<1>7. QED
  BY <1>5, <1>6

-----------------------------------------------------------------------------
(* Reloads *)

LEMMA ReloadShape ==
  ASSUME NEW q \in Reloads
  PROVE  /\ q.pc \in {"idle", "waiting", "read"}
         /\ q.pc = "waiting" => q.revision \in Nat
         /\ q.pc = "read" => q.revision \in Nat /\ q.row \in Rows
BY DEF Reloads, Idle

\* Reloads wait for the gate, so each installs rules at least as new as those
\* the one before it has read.
LEMMA ReloadKept ==
  ASSUME IInv, Next
  PROVE  ReloadInv' /\ row'.revision \in {row.revision, row.revision + 1}
         /\ (row'.revision # row.revision => events' = events + 1)
<1>1. ASSUME NEW q \in Mutations, Mutate(q)
      PROVE  ReloadInv' /\ row'.revision \in {row.revision, row.revision + 1} /\ events' = events + 1
  <2>1. q \in Requests /\ row \in Rows /\ row.revision \in Nat
    BY SMTT(30) DEF Requests, IInv, ReloadInv, Rows
  <2>2. row' \in Rows /\ row'.revision = row.revision + 1
    BY <1>1, <2>1, SMTT(30) DEF Mutate, Rows
  <2>3. request' = [request EXCEPT ![q] = [pc |-> "waiting", revision |-> row'.revision]]
        /\ UNCHANGED <<loaded, answered, gate>> /\ events' = events + 1
    BY <1>1, SMTT(30) DEF Mutate
  <2>4. [pc |-> "waiting", revision |-> row'.revision] \in Reloads
    BY <2>1, <2>2, SMTT(30) DEF Reloads
  <2>5. request' \in [Requests -> Reloads]
    BY <2>3, <2>4, ZenonT(30) DEF IInv, ReloadInv
  <2>6. ASSUME NEW p \in Requests
        PROVE  /\ request'[p].pc = "waiting" => request'[p].revision <= row'.revision
               /\ request'[p].pc = "read" =>
                    /\ gate' = {p}
                    /\ request'[p].revision <= request'[p].row.revision
                    /\ loaded' <= request'[p].row.revision /\ request'[p].row.revision <= row'.revision
    <3>1. CASE p = q
      BY <2>1, <2>2, <2>3, <3>1, SMTT(30) DEF IInv, ReloadInv
    <3>2. CASE p # q
      <4>1. request'[p] = request[p] /\ request[p] \in Reloads
        BY <2>3, <3>2, SMTT(30) DEF IInv, ReloadInv
      <4>2. QED
        BY <2>1, <2>2, <2>3, <4>1, ReloadShape, SMTT(30) DEF IInv, ReloadInv, Rows
    <3>3. QED
      BY <3>1, <3>2, SMTT(30)
  <2>7. loaded' <= row'.revision /\ answered' <= loaded' /\ 1 <= loaded'
    BY <2>1, <2>2, <2>3, SMTT(30) DEF IInv, ReloadInv
  <2>8. QED
    BY <2>2, <2>3, <2>5, <2>6, <2>7, SMTT(30) DEF IInv, ReloadInv
<1>2. ASSUME NEW q \in Requests, NEW n \in Reloads, request' = [request EXCEPT ![q] = n],
             UNCHANGED <<row, loaded, answered>>, gate' \subseteq Requests,
             \A p \in Requests : p # q /\ gate = {p} => gate' = {p},
             n.pc = "waiting" => n.revision <= row.revision,
             n.pc = "read" => gate' = {q} /\ n.revision <= n.row.revision /\ loaded <= n.row.revision
                              /\ n.row.revision <= row.revision
      PROVE  ReloadInv'
  <2>1. request' \in [Requests -> Reloads] /\ request'[q] = n
        /\ \A p \in Requests : p # q => request'[p] = request[p]
    BY <1>2 DEF IInv, ReloadInv
  <2>2. QED
    BY <1>2, <2>1, SMTT(30) DEF IInv, ReloadInv
<1>3. Idle \in Reloads /\ Idle.pc = "idle"
  BY ZenonT(30) DEF Reloads, Idle
<1>4. CASE WatchTopology
  <2>1. "watcher" \in Requests /\ [pc |-> "waiting", revision |-> 0] \in Reloads /\ 0 <= row.revision
    BY DEF Requests, Reloads, IInv, ReloadInv, Rows
  <2>2. /\ request' = [request EXCEPT !["watcher"] = [pc |-> "waiting", revision |-> 0]]
        /\ UNCHANGED <<row, loaded, answered, gate>>
    BY <1>4 DEF WatchTopology, ruleVars
  <2>3. QED
    BY <1>2, <2>1, <2>2, SMTT(30) DEF IInv, ReloadInv
<1>5. ASSUME NEW q \in Requests, BeginReload(q) PROVE ReloadInv' /\ UNCHANGED row
  <2> DEFINE n == [pc |-> "read", revision |-> request[q].revision, row |-> row]
  <2>1. /\ request' = [request EXCEPT ![q] = n] /\ gate = {} /\ gate' = {q}
        /\ UNCHANGED <<row, loaded, answered>> /\ request[q].pc = "waiting"
    BY <1>5, SMTT(30) DEF BeginReload, ruleVars
  <2>2. n \in Reloads /\ n.pc = "read" /\ n.revision <= n.row.revision /\ n.row = row
    BY <2>1, ReloadShape DEF IInv, ReloadInv, Reloads
  <2> HIDE DEF n
  <2>3. row.revision \in Nat /\ loaded <= row.revision
    BY SMTT(30) DEF IInv, ReloadInv, Rows
  <2>4. /\ gate' \subseteq Requests /\ \A p \in Requests : p # q /\ gate = {p} => gate' = {p}
        /\ n.pc # "waiting" /\ loaded <= n.row.revision /\ n.row.revision <= row.revision
    BY <2>1, <2>2, <2>3, SMTT(30)
  <2>5. QED
    BY <1>2, <2>1, <2>2, <2>4, Zenon
<1>6. ASSUME NEW q \in Requests, FailReload(q) \/ DropRequest(q) PROVE ReloadInv' /\ UNCHANGED row
  <2>1. /\ request' = [request EXCEPT ![q] = Idle] /\ gate' \in {gate, gate \ {q}}
        /\ UNCHANGED <<row, loaded, answered>>
    BY <1>6 DEF FailReload, DropRequest, ruleVars, Idle
  <2>2. gate' \subseteq Requests
    BY <2>1, ZenonT(30) DEF IInv, ReloadInv
  <2>3. QED
    BY <1>2, <1>3, <2>1, <2>2, ZenonT(30)
<1>7. ASSUME NEW q \in Requests, Install(q) PROVE ReloadInv' /\ UNCHANGED row
  <2>1. /\ request' = [request EXCEPT ![q] = Idle] /\ gate' = gate \ {q} /\ UNCHANGED row
        /\ loaded' = request[q].row.revision /\ answered' \in {answered, request[q].revision}
        /\ request[q].pc = "read"
    BY <1>7, ZenonT(30) DEF Install, Idle
  <2>2. /\ gate = {q} /\ request[q].revision <= loaded' /\ loaded <= loaded' /\ loaded' <= row.revision
        /\ loaded' \in Nat /\ request[q].revision \in Nat
    BY <2>1, ReloadShape, ZenonT(30) DEF IInv, ReloadInv, Rows
  <2>3. answered' \in Nat /\ answered' <= loaded' /\ 1 <= loaded'
    BY <2>1, <2>2, SMTT(30) DEF IInv, ReloadInv
  <2>4. request' \in [Requests -> Reloads] /\ request'[q].pc = "idle"
        /\ \A p \in Requests : p # q => request'[p] = request[p]
    BY <1>3, <2>1, SMTT(30) DEF IInv, ReloadInv
  <2>5. \A p \in Requests : request'[p].pc # "read"
    BY <2>2, <2>4, ZenonT(30) DEF IInv, ReloadInv
  <2>6. QED
    BY <2>1, <2>2, <2>3, <2>4, <2>5, ZenonT(30) DEF IInv, ReloadInv
<1>8. CASE UNCHANGED <<row, loaded, request, gate, answered>>
  BY <1>8 DEF IInv, ReloadInv
<1>9. row.revision \in Nat
  BY DEF IInv, ReloadInv, Rows
<1>10. WatchTopology => UNCHANGED row
  BY DEF WatchTopology, ruleVars
<1>11. \/ \E q \in Mutations : Mutate(q) \/ DropRequest(q)
       \/ \E q \in Requests : BeginReload(q) \/ Install(q) \/ FailReload(q)
       \/ WatchTopology
       \/ UNCHANGED <<row, loaded, request, gate, answered>>
  <2>1. ASSUME NEW x, RunStep(x) PROVE UNCHANGED <<row, loaded, request, gate, answered>>
    <3>1. CASE Evaluate(x) \/ TimeOut(x)
      BY <3>1, SMTT(30) DEF Evaluate, TimeOut, ruleVars, reloadVars
    <3>2. ASSUME NEW outcome \in Outcomes, Finish(x, outcome)
          PROVE  UNCHANGED <<row, loaded, request, gate, answered>>
      BY <3>2 DEF Finish, ruleVars, reloadVars
    <3>3. CASE Record(x)
      BY <3>3 DEF Record, reloadVars
    <3>4. QED
      BY <2>1, <3>1, <3>2, <3>3 DEF RunStep
  <2>2. CASE LoopStep
    BY <2>1, <2>2, ZenonT(30) DEF LoopStep, Fetch, Select, ruleVars, reloadVars
  <2>3. ASSUME NEW m \in Manuals, LoadRow(m) \/ SelectManual(m) \/ RunStep(m) \/ DropManual(m)
        PROVE  UNCHANGED <<row, loaded, request, gate, answered>>
    BY <2>1, <2>3 DEF LoadRow, SelectManual, DropManual, ruleVars, reloadVars
  <2>4. CASE EndLoop \/ SetValue
    BY <2>4 DEF EndLoop, SetValue, ruleVars, reloadVars
  <2>5. QED
    BY <2>2, <2>3, <2>4, Zenon DEF Next
<1>12. Mutations \subseteq Requests
  BY DEF Requests
<1>13. QED
  BY <1>1, <1>4, <1>5, <1>6, <1>7, <1>8, <1>9, <1>10, <1>11, <1>12, ZenonT(30)

\* A reload keeps the hold of a rule that keeps its definition.
LEMMA InstallKeeps ==
  ASSUME IInv, NEW q \in Requests, Install(q)
  PROVE  ScheduleInv' /\ RunInv' /\ DoubtInv'
<1> DEFINE new == request[q].row
<1>1. new \in Rows
  BY ReloadShape, ZenonT(30) DEF IInv, ReloadInv, Install
<1>2. UNCHANGED <<arcs, value, run, evaluated, replayed>> /\ sched' = Reloaded(new)
  BY ZenonT(30) DEF Install
<1>3. RunInv'
  BY <1>2 DEF IInv, RunInv
<1>4. /\ value' \in Inputs /\ evaluated' \subseteq Values /\ arcs' \in Nat /\ replayed' = FALSE
  BY <1>2, ZenonT(30) DEF IInv, ScheduleInv, DoubtInv
<1>5. Entry(new.def) \in Entries /\ Entry(new.def).hold.id <= arcs' /\ Entry(new.def).last = Missing
  BY <1>1, <1>4 DEF Rows, Entry, Entries, NoHold, Holds, Inputs
<1>6. CASE ~new.on \/ sched = {}
  <2>1. doubt' = "none"
    BY <1>6, ZenonT(30) DEF Install
  <2>2. sched' = {} \/ sched' = {Entry(new.def)}
    BY <1>2, <1>6, ZenonT(30) DEF Reloaded
  <2>3. ScheduleInv'
    BY <1>4, <1>5, <2>2, OneEntry DEF ScheduleInv, BaselineEvaluated
  <2>4. QED
    BY <1>3, <1>4, <2>1, <2>3, ZenonT(30) DEF DoubtInv
<1>7. ASSUME NEW s \in sched, new.on PROVE ScheduleInv' /\ RunInv' /\ DoubtInv'
  <2> DEFINE e == Entry(new.def)
             t == Preserved(e, s)
  <2>1. s \in Entries /\ sched = {s} /\ s.hold.id <= arcs /\ (s.last # Missing => s.last \in evaluated)
    BY DEF IInv, ScheduleInv, BaselineEvaluated
  <2>2. sched' = {t}
    BY <1>2, <1>7, <2>1 DEF Reloaded
  <2>3. PICK h \in Holds : h = IF e.def = s.def THEN s.hold ELSE NoHold
    BY <2>1, ZenonT(30) DEF Entries, NoHold, Holds, Inputs
  <2>4. e \in Entries /\ e.def = new.def
    BY <1>5 DEF Entry
  <2>5. t \in Entries /\ t.def = e.def /\ t.last = s.last /\ t.hold = h
    <3> HIDE DEF e
    <3>1. t = [e EXCEPT !.last = s.last, !.hold = h]
      BY <2>3, ZenonT(30) DEF Preserved
    <3>2. QED
      BY <2>1, <2>3, <2>4, <3>1, ZenonT(30) DEF Entries
  <2>6. t.hold.id <= arcs'
    BY <1>2, <1>4, <2>1, <2>3, <2>5, SMTT(30) DEF NoHold
  <2> HIDE DEF t, e
  <2>7. ScheduleInv'
    BY <1>2, <1>4, <2>1, <2>2, <2>5, <2>6, OneEntry, SMTT(30)
  <2>8. DoubtInv'
    <3>1. CASE s.def = new.def
      <4>1. doubt' = doubt
        BY <1>7, <3>1, ZenonT(30) DEF Install
      <4>2. t.hold = s.hold /\ t.def = s.def
        BY <2>3, <2>4, <2>5, <3>1, ZenonT(30)
      <4>3. \A x \in Runners : Apart(run[x], s) => Apart(run'[x], t)
        BY <1>2, <4>2, ZenonT(30) DEF Apart
      <4>4. QED
        BY <1>2, <2>1, <2>2, <4>1, <4>2, <4>3, SMTT(30) DEF IInv, DoubtInv
    <3>2. CASE s.def # new.def
      <4>1. doubt' = "none"
        BY <2>1, <3>2 DEF Install
      <4>2. QED
        BY <1>4, <4>1, ZenonT(30) DEF DoubtInv
    <3>3. QED
      BY <3>1, <3>2, ZenonT(30)
  <2>9. QED
    BY <1>3, <2>7, <2>8, ZenonT(30)
<1>8. QED
  BY <1>6, <1>7, ZenonT(30)

LEMMA CountKept ==
  ASSUME IInv, Next
  PROVE  CountInv'
<1> DEFINE Counted == /\ events' = events \/ (events' = events + 1 /\ events < MaxEvents)
                      /\ faults' = faults \/ (faults' = faults + 1 /\ faults < MaxFaults)
                      /\ loop' \in {loop, "stopping", "ended"}
<1>1. ASSUME NEW x, RunStep(x) PROVE Counted
  <2>1. CASE Evaluate(x) \/ Record(x)
    BY <2>1 DEF Evaluate, Record
  <2>2. CASE TimeOut(x)
    BY <2>2, ZenonT(30) DEF TimeOut
  <2>3. ASSUME NEW outcome \in Outcomes, Finish(x, outcome) PROVE Counted
    BY <2>3 DEF Finish
  <2>4. QED
    BY <1>1, <2>1, <2>2, <2>3 DEF RunStep
<1>2. ASSUME LoopStep PROVE Counted
  BY <1>1, <1>2, ZenonT(30) DEF LoopStep, Fetch, Select
<1>3. ASSUME NEW m \in Manuals, LoadRow(m) \/ SelectManual(m) \/ RunStep(m) \/ DropManual(m) PROVE Counted
  BY <1>1, <1>3, ZenonT(30) DEF LoadRow, SelectManual, DropManual
<1>4. ASSUME NEW q \in Mutations, Mutate(q) \/ DropRequest(q) PROVE Counted
  BY <1>4, ZenonT(30) DEF Mutate, DropRequest
<1>5. ASSUME NEW q \in Requests, BeginReload(q) \/ Install(q) \/ FailReload(q) PROVE Counted
  BY <1>5 DEF BeginReload, Install, FailReload
<1>6. ASSUME WatchTopology \/ EndLoop \/ SetValue PROVE Counted
  BY <1>6 DEF WatchTopology, EndLoop, SetValue
<1>7. Counted
  <2> HIDE DEF Counted
  <2>1. QED
    BY <1>2, <1>3, <1>4, <1>5, <1>6, Zenon DEF Next
<1>8. events' \in 0 .. MaxEvents /\ faults' \in 0 .. MaxFaults /\ loop' \in {"on", "stopping", "ended"}
  BY <1>7, SchedulerAssumption, SMTT(30) DEF IInv, CountInv
<1>9. row'.revision <= events' + 1
  BY <1>7, ReloadKept DEF IInv, CountInv, ReloadInv, Rows
<1>10. QED
  BY <1>8, <1>9 DEF CountInv

\* Steps that leave the rule, the runs and the point alone.
LEMMA ScheduleStays ==
  ASSUME IInv, UNCHANGED <<sched, arcs, value, evaluated, run, doubt, replayed>>
  PROVE  ScheduleInv' /\ RunInv' /\ DoubtInv'
<1>1. ScheduleInv'
  BY ZenonT(30) DEF IInv, ScheduleInv, BaselineEvaluated
<1>2. RunInv'
  BY ZenonT(30) DEF IInv, RunInv
<1>3. DoubtInv'
  BY ZenonT(30) DEF IInv, DoubtInv
<1>4. QED
  BY <1>1, <1>2, <1>3, ZenonT(30)

-----------------------------------------------------------------------------
(* The theorems *)

LEMMA StepHolds ==
  ASSUME IInv, [Next]_vars
  PROVE  IInv'
<1>1. CASE UNCHANGED vars
  <2>1. ScheduleInv' /\ RunInv' /\ DoubtInv'
    BY <1>1, ScheduleStays, SMTT(30) DEF vars, ruleVars, history
  <2>2. ReloadInv'
    BY <1>1, ZenonT(30) DEF vars, ruleVars, reloadVars, IInv, ReloadInv
  <2>3. CountInv'
    BY <1>1 DEF vars, ruleVars, IInv, CountInv
  <2>4. QED
    BY <2>1, <2>2, <2>3, ZenonT(30) DEF IInv
<1>2. ASSUME Next PROVE ScheduleInv' /\ RunInv' /\ DoubtInv'
  <2>1. ASSUME NEW x \in Runners, RunStep(x) PROVE ScheduleInv' /\ RunInv' /\ DoubtInv'
    BY <2>1, EvaluateKeeps, FinishKeeps, TimeOutKeeps, RecordKeeps, Zenon DEF RunStep
  <2>2. "loop" \in Runners /\ Manuals \subseteq Runners
    BY DEF Runners
  <2>3. CASE LoopStep
    BY <2>1, <2>2, <2>3, FetchKeeps, SelectKeeps, Zenon DEF LoopStep
  <2>4. ASSUME NEW m \in Manuals, LoadRow(m) \/ SelectManual(m) \/ RunStep(m) \/ DropManual(m)
        PROVE  ScheduleInv' /\ RunInv' /\ DoubtInv'
    BY <2>1, <2>2, <2>4, ManualStartKeeps, ZenonT(30)
  <2>5. ASSUME NEW q, Mutate(q) \/ DropRequest(q) \/ BeginReload(q) \/ FailReload(q)
        PROVE  ScheduleInv' /\ RunInv' /\ DoubtInv'
    BY <2>5, ScheduleStays, ZenonT(30) DEF Mutate, DropRequest, BeginReload, FailReload, ruleVars, history
  <2>6. CASE WatchTopology \/ EndLoop
    BY <2>6, ScheduleStays, ZenonT(30) DEF WatchTopology, EndLoop, ruleVars, history
  <2>7. QED
    BY <1>2, <2>3, <2>4, <2>5, <2>6, InstallKeeps, SetValueKeeps, Zenon DEF Next
<1>3. CASE Next
  BY <1>2, <1>3, ReloadKept, CountKept DEF IInv
<1>4. QED
  BY <1>1, <1>3

\* Holds, runs, reloads and the point agree in every state the scheduler reaches.
THEOREM SchedulerInvariant == Spec => []IInv
BY InitHolds, StepHolds, PTL DEF Spec

\* Once an uncertain outcome is recorded, a rule stays held until a run selected
\* after it completes or its definition changes, and the loop does not repeat it
\* on the input it was held for (accepts_completion, accept_or_hold_completion,
\* automatic_retry_held), whatever runs by hand, reloads, edits and new values
\* come in between.
THEOREM HoldsAlwaysPreventReplay == Spec => []HoldsPreventReplay
<1>1. IInv => HoldsPreventReplay
  <2> SUFFICES ASSUME IInv PROVE HoldsPreventReplay
    BY ZenonT(30)
  <2>1. HoldKept /\ StableInputNotReplayed
    BY SMTT(30) DEF IInv, DoubtInv, HoldKept, StableInputNotReplayed, NoHold
  <2>2. row \in [def : Definitions, on : BOOLEAN, revision : 1 .. MaxEvents + 1]
    <3>1. row.revision \in 1 .. MaxEvents + 1
      BY SchedulerAssumption, SMTT(30) DEF IInv, ReloadInv, CountInv, Rows
    <3>2. QED
      BY <3>1, ZenonT(30) DEF IInv, ReloadInv, Rows
  <2>3. loaded \in 1 .. MaxEvents + 1 /\ answered \in 0 .. MaxEvents + 1
    BY SchedulerAssumption DEF IInv, ReloadInv, CountInv, Rows
  <2>4. /\ \A s, t \in sched : s = t
        /\ \A s \in sched :
             /\ s.def \in Definitions /\ s.hold.id \in 0 .. arcs /\ s.hold.input \in Inputs
             /\ s.last \in Inputs
    BY SMTT(30) DEF IInv, ScheduleInv, Entries, Holds
  <2>5. \A x \in Runners : run[x].pc \in {"idle", "fetched", "loaded", "selected", "running", "done"}
    BY Shape, ZenonT(30) DEF IInv, RunInv
  <2>6. \A q \in Requests : request[q].pc \in {"idle", "waiting", "read"}
    BY ReloadShape, SMTT(30) DEF IInv, ReloadInv
  <2>7. TypeOK
    BY <2>2, <2>3, <2>4, <2>5, <2>6, ZenonT(30) DEF TypeOK, IInv, ScheduleInv, ReloadInv, DoubtInv, CountInv
  <2>8. QED
    BY <2>1, <2>7 DEF HoldsPreventReplay
<1>2. QED
  BY <1>1, SchedulerInvariant, PTL

\* A mutation answered as in force is in the scheduler's rules from then on
\* (reload_gate), and the baseline of a rule is an input some successful run was
\* given (advance_onchange).
THEOREM ScheduleAlwaysTruthful == Spec => []ScheduleTruthful
<1>1. IInv => ScheduleTruthful
  BY DEF IInv, ScheduleInv, ReloadInv, ScheduleTruthful, AnsweredInForce
<1>2. QED
  BY <1>1, SchedulerInvariant, PTL
=============================================================================
