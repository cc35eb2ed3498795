---------------------------- MODULE AlarmService ----------------------------
(***************************************************************************)
(* The alarm service (services/alarm): the monitor, which checks the       *)
(* enabled rules against live values and starts and ends alert episodes;   *)
(* the governed requests that change rules or resolve alerts; and the      *)
(* count broadcaster.                                                      *)
(*                                                                         *)
(* They share one SQLite database.  Every transaction is atomic, and what  *)
(* a check read before its transaction may be stale when it commits.       *)
(* Notifications go out after the commit, one HTTP post at a time, and are *)
(* not retried.  A rule fires while the value is above its threshold; a    *)
(* row of trail counts the alert_event rows of one episode.  One consumer  *)
(* stands for the API and the uplink, which are sent the same posts.       *)
(***************************************************************************)
EXTENDS Naturals, FiniteSets, Sequences

CONSTANTS
  Points,        \* what rules may watch
  NoData,        \* a point without a live value
  MaxRules,      \* bound on the rules ever created
  MaxChanges,    \* bound on changes of live values
  MaxRequests,   \* bound on requests
  MaxFaults,     \* bound on failed calls, lost posts, cancelled requests, crashes
  MaxEvents      \* bound on all of these together

ASSUME AlarmAssumption ==
  /\ Points # {} /\ MaxRules \in Nat \ {0} /\ MaxChanges \in Nat
  /\ MaxRequests \in Nat /\ MaxFaults \in Nat /\ MaxEvents \in Nat

VARIABLES
  rules,      \* alert_rule, by id; a deleted row keeps its place
  alerts,     \* the rows of alert
  trail,      \* alert_event: per alert id, its trigger and recovery rows
  live,       \* the live value of each point
  checks,     \* the monitor's task for each rule
  out,        \* per sender, the notifications and the count it has to post
  request,    \* the request that is waiting for its transaction
  shown,      \* the alarm count the consumer was last told
  changes, requests, faults

db == <<rules, alerts, trail>>
budgets == <<changes, requests, faults>>
vars == <<db, live, checks, out, request, shown, budgets>>

Values == 0 .. 1
Thresholds == 0 .. 1
Tasks == 1 .. 2 * MaxRules   \* room for two rounds of checks; process_rules uses one

NewRule(point, threshold, enabled) ==
  [exists |-> TRUE, point |-> point, threshold |-> threshold, enabled |-> enabled]

\* get_all_enabled_rules
Enabled == {r \in DOMAIN rules : rules[r].exists /\ rules[r].enabled}
AlertsOf(r) == {a \in alerts : a.rule = r}
Active == {a.id : a \in alerts}

CheckOf(t) == <<"check", t>>
Requester == <<"request", 0>>
Broadcaster == <<"broadcaster", 0>>
Senders == {CheckOf(t) : t \in Tasks} \cup {Requester, Broadcaster}

Quiet == [notes |-> {}, counts |-> "none", n |-> 0]
IdleCheck == [pc |-> "idle"]
NoRequest == [kind |-> "none"]

Init ==
  /\ rules \in {<<>>, <<NewRule(CHOOSE p \in Points : TRUE, 0, TRUE)>>}
  /\ alerts = {} /\ trail = <<>>
  /\ live = [p \in Points |-> 0]
  /\ checks = [t \in Tasks |-> IdleCheck]
  /\ out = [s \in Senders |-> Quiet]
  /\ request = NoRequest
  /\ shown = 0
  /\ changes = 0 /\ requests = 0 /\ faults = 0

EventAllowed == changes + requests + faults < MaxEvents

Fault == EventAllowed /\ faults < MaxFaults /\ faults' = faults + 1

-----------------------------------------------------------------------------
(* Live values *)

ValueChanges(p, v) ==
  /\ EventAllowed /\ changes < MaxChanges
  /\ v # live[p]
  /\ live' = [live EXCEPT ![p] = v]
  /\ changes' = changes + 1
  /\ UNCHANGED <<db, checks, out, request, shown, requests, faults>>

-----------------------------------------------------------------------------
(* The monitor *)

\* process_rules joins its tasks: nothing is checked while a check is under way.
Joined == \A t \in Tasks : checks[t] = IdleCheck /\ out[CheckOf(t)] = Quiet

Loaded(r) == [pc |-> "loaded", id |-> r, rule |-> rules[r]]

\* process_rules: a task for each rule, with the rule as loaded.
Spawn(loaded) ==
  checks' = [t \in Tasks |-> IF t \in loaded THEN Loaded(t) ELSE checks[t]]

\* Mutant of CheckAllRules: a tick does not wait for the last one's tasks.
CheckAllRulesUnjoined ==
  /\ \E r \in Enabled :
       LET t == IF checks[r] = IdleCheck THEN r ELSE MaxRules + r
       IN  /\ checks[t] = IdleCheck /\ out[CheckOf(t)] = Quiet
           /\ checks' = [checks EXCEPT ![t] = Loaded(r)]
  /\ UNCHANGED <<db, live, out, request, shown, budgets>>

\* Mutant of CheckAllRules: rules with an active alert are taken as checked.
CheckAllRulesOnce ==
  /\ Joined
  /\ \E r \in Enabled : AlertsOf(r) = {}
  /\ Spawn({r \in Enabled : AlertsOf(r) = {}})
  /\ UNCHANGED <<db, live, out, request, shown, budgets>>

\* run_monitor, check_all_rules: a tick.
CheckAllRules ==
  /\ Joined
  /\ Enabled # {}
  /\ Spawn(Enabled)
  /\ UNCHANGED <<db, live, out, request, shown, budgets>>

\* run_monitor, check_event_batch: PointWatch events for the points of some rules.
CheckEventBatch(matching) ==
  /\ Joined
  /\ matching # {} /\ matching \subseteq Enabled
  /\ Spawn(matching)
  /\ UNCHANGED <<db, live, out, request, shown, budgets>>

CheckEnds(t) == checks' = [checks EXCEPT ![t] = IdleCheck]

Triggered(check) == check.value > check.rule.threshold

\* check_single_rule: the live value is read and evaluated; without one it ends.
ReadValue(t) ==
  LET value == live[checks[t].rule.point]
  IN  /\ checks[t].pc = "loaded"
      /\ IF value = NoData
           THEN CheckEnds(t)
           ELSE checks' = [checks EXCEPT ![t] =
                             [pc |-> "read", id |-> @.id, rule |-> @.rule, value |-> value]]
      /\ UNCHANGED <<db, live, out, request, shown, budgets>>

\* check_single_rule: get_alert_by_rule_id
FindAlert(t) ==
  /\ checks[t].pc = "read"
  /\ \E found \in IF AlertsOf(checks[t].id) = {} THEN {0} ELSE {a.id : a \in AlertsOf(checks[t].id)} :
       IF found = 0 /\ ~Triggered(checks[t])
         THEN CheckEnds(t)
         ELSE checks' = [checks EXCEPT ![t] = [pc |-> "found", id |-> @.id, rule |-> @.rule,
                                               value |-> @.value, alert |-> found]]
  /\ UNCHANGED <<db, live, out, request, shown, budgets>>

\* update_alert_value: nothing happens if the row is gone by now.
UpdateAlertValue(t) ==
  /\ checks[t].pc = "found" /\ Triggered(checks[t]) /\ checks[t].alert # 0
  /\ alerts' = {IF a.id = checks[t].alert THEN [a EXCEPT !.value = checks[t].value] ELSE a :
                  a \in alerts}
  /\ CheckEnds(t)
  /\ UNCHANGED <<rules, trail, live, out, request, shown, budgets>>

Notify(sender, notes) ==
  out' = [out EXCEPT ![sender] = [notes |-> notes, counts |-> "due", n |-> 0]]

(***************************************************************************)
(* insert_alert: "Starts an alarm episode only while its rule remains      *)
(* enabled"; the trigger event is part of the transaction, the             *)
(* notification and the count follow it.                                   *)
(***************************************************************************)
InsertAlert(t) ==
  /\ checks[t].pc = "found" /\ Triggered(checks[t]) /\ checks[t].alert = 0
  /\ LET id == Len(trail) + 1
     IN  IF checks[t].id \in Enabled
           THEN /\ alerts' = alerts \cup {[id |-> id, rule |-> checks[t].id, value |-> checks[t].value]}
                /\ trail' = Append(trail, [trigger |-> 1, recovery |-> 0])
                /\ Notify(CheckOf(t), {<<"triggered", id>>})
           ELSE UNCHANGED <<alerts, trail, out>>
  /\ CheckEnds(t)
  /\ UNCHANGED <<rules, live, request, shown, budgets>>

(***************************************************************************)
(* resolve_alert of db.rs, called by the monitor: the recovery event is    *)
(* inserted whether or not the row is still there to be deleted.           *)
(***************************************************************************)
ResolveAlert(t) ==
  /\ checks[t].pc = "found" /\ ~Triggered(checks[t])
  /\ trail' = [trail EXCEPT ![checks[t].alert].recovery = @ + 1]
  /\ alerts' = {a \in alerts : a.id # checks[t].alert}
  /\ Notify(CheckOf(t), {<<"recovered", checks[t].alert>>})
  /\ CheckEnds(t)
  /\ UNCHANGED <<rules, live, request, shown, budgets>>

\* The SHM read, the query or the transaction of a check fails: logged, given up.
CheckFails(t) ==
  /\ Fault
  /\ checks[t] # IdleCheck
  /\ CheckEnds(t)
  /\ UNCHANGED <<db, live, out, request, shown, changes, requests>>

-----------------------------------------------------------------------------
(* Posting notifications *)

\* publish_alarm, replay_alarm: one post; nobody is told whether it arrived.
PublishAlarm(s) ==
  /\ \E note \in out[s].notes : out' = [out EXCEPT ![s].notes = @ \ {note}]
  /\ UNCHANGED <<db, live, checks, request, shown, budgets>>

\* send_alarm_count_broadcast, broadcast_resolved: get_active_alarm_counts
ReadCounts(s) ==
  /\ out[s].notes = {} /\ out[s].counts = "due"
  /\ out' = [out EXCEPT ![s] = [notes |-> {}, counts |-> "read", n |-> Cardinality(alerts)]]
  /\ UNCHANGED <<db, live, checks, request, shown, budgets>>

\* publish_counts
PublishCounts(s) ==
  /\ out[s].counts = "read"
  /\ shown' = out[s].n
  /\ out' = [out EXCEPT ![s] = Quiet]
  /\ UNCHANGED <<db, live, checks, request, budgets>>

\* The count cannot be read, or its post is lost.
CountsLost(s) ==
  /\ Fault
  /\ out[s].notes = {} /\ out[s] # Quiet
  /\ out' = [out EXCEPT ![s] = Quiet]
  /\ UNCHANGED <<db, live, checks, request, shown, changes, requests>>

\* run_alarm_count_broadcaster, every 30 seconds
BroadcastCounts ==
  /\ out[Broadcaster] = Quiet
  /\ Notify(Broadcaster, {})
  /\ UNCHANGED <<db, live, checks, request, shown, budgets>>

-----------------------------------------------------------------------------
(***************************************************************************)
(* Requests, one at a time.  A rule mutation or a resolution is applied in *)
(* one transaction, which also resolves the alerts of a rule it disables   *)
(* or deletes, and is then announced.                                      *)
(***************************************************************************)
Patches ==
  [field : {"point"}, to : Points] \cup [field : {"threshold"}, to : Thresholds]
    \cup [field : {"enabled"}, to : BOOLEAN]

\* AlarmRulePatch: the fields given replace those of the row, one is modelled.
Patched(rule, patch) ==
  CASE patch.field = "point" -> [rule EXCEPT !.point = patch.to]
    [] patch.field = "threshold" -> [rule EXCEPT !.threshold = patch.to]
    [] patch.field = "enabled" -> [rule EXCEPT !.enabled = patch.to]

Operations ==
  [kind : {"create"}, rule : {NewRule(p, v, e) : p \in Points, v \in Thresholds, e \in BOOLEAN}]
    \cup [kind : {"update"}, id : DOMAIN rules, patch : Patches]
    \cup [kind : {"delete"}, id : DOMAIN rules]
    \cup [kind : {"resolve"}, alert : DOMAIN trail]

\* A request that is not authorized, or whose attempt cannot be audited, ends
\* here without effect.
Accept(op) ==
  /\ EventAllowed /\ requests < MaxRequests
  /\ request = NoRequest /\ out[Requester] = Quiet
  /\ request' = op
  /\ requests' = requests + 1
  /\ UNCHANGED <<db, live, checks, out, shown, changes, faults>>

\* AlarmRuleApplication::mutate
AskMutation(op) == op.kind # "resolve" /\ Accept(op)

\* AlertResolutionApplication::resolve
AskResolution(op) == op.kind = "resolve" /\ Accept(op)

\* find_rule
Found(r) == r \in DOMAIN rules /\ rules[r].exists

\* reject_duplicate_target: disabled rules count, the rule itself does not.
TargetTaken(p, except) ==
  \E r \in DOMAIN rules \ except : rules[r].exists /\ rules[r].point = p

\* Mutant of ResolveAlerts: the rows are deleted without a recovery event.
ResolveAlertsSilently(gone) ==
  /\ alerts' = {a \in alerts : a.id \notin gone}
  /\ UNCHANGED trail
  /\ IF gone = {} THEN UNCHANGED out ELSE Notify(Requester, {<<"recovered", id>> : id \in gone})

\* resolve_alerts, and broadcast_resolved once it has committed
ResolveAlerts(gone) ==
  /\ alerts' = {a \in alerts : a.id \notin gone}
  /\ trail' = [id \in DOMAIN trail |->
                 IF id \in gone THEN [trail[id] EXCEPT !.recovery = @ + 1] ELSE trail[id]]
  /\ IF gone = {} THEN UNCHANGED out ELSE Notify(Requester, {<<"recovered", id>> : id \in gone})

CreateRule(op) ==
  /\ op.kind = "create"
  /\ ~TargetTaken(op.rule.point, {})
  /\ Len(rules) < MaxRules
  /\ rules' = Append(rules, op.rule)
  /\ UNCHANGED <<alerts, trail, out>>

\* update; set_enabled is the update of that one field.
UpdateRule(op) ==
  /\ op.kind = "update"
  /\ Found(op.id)
  /\ LET rule == Patched(rules[op.id], op.patch)
     IN  /\ ~TargetTaken(rule.point, {op.id})
         /\ rules' = [rules EXCEPT ![op.id] = rule]
         /\ ResolveAlerts(IF rule.enabled THEN {} ELSE {a.id : a \in AlertsOf(op.id)})

DeleteRule(op) ==
  /\ op.kind = "delete"
  /\ Found(op.id)
  /\ rules' = [rules EXCEPT ![op.id].exists = FALSE]
  /\ ResolveAlerts({a.id : a \in AlertsOf(op.id)})

\* AlertResolver::resolve: DELETE ... RETURNING finds the row or fails.
ResolveManually(op) ==
  /\ op.kind = "resolve"
  /\ op.alert \in Active
  /\ ResolveAlerts({op.alert})
  /\ UNCHANGED rules

Effect(op) == CreateRule(op) \/ UpdateRule(op) \/ DeleteRule(op) \/ ResolveManually(op)

Apply ==
  /\ Effect(request)
  /\ request' = NoRequest
  /\ UNCHANGED <<live, checks, shown, budgets>>

\* The row is not found, or another rule has the target.
Refused(op) ==
  \/ op.kind = "create" /\ TargetTaken(op.rule.point, {})
  \/ op.kind \in {"update", "delete"} /\ ~Found(op.id)
  \/ /\ op.kind = "update" /\ Found(op.id)
     /\ TargetTaken(Patched(rules[op.id], op.patch).point, {op.id})
  \/ op.kind = "resolve" /\ op.alert \notin Active

ApplyRefused ==
  /\ Refused(request)
  /\ request' = NoRequest
  /\ UNCHANGED <<db, live, checks, out, shown, budgets>>

\* call_data: the active alerts are posted again, then the count.
CallData ==
  /\ EventAllowed /\ requests < MaxRequests
  /\ request = NoRequest /\ out[Requester] = Quiet
  /\ requests' = requests + 1
  /\ Notify(Requester, {<<"triggered", id>> : id \in Active})
  /\ UNCHANGED <<db, live, checks, request, shown, changes, faults>>

\* The transaction fails, or the client goes away and the handler is dropped
\* where it waits.
RequestDropped ==
  /\ Fault
  /\ request # NoRequest \/ out[Requester] # Quiet
  /\ request' = NoRequest
  /\ out' = [out EXCEPT ![Requester] = Quiet]
  /\ UNCHANGED <<db, live, checks, shown, changes, requests>>

\* The service dies and is started again; the database and the consumer go on.
Restart ==
  /\ Fault
  /\ checks' = [t \in Tasks |-> IdleCheck]
  /\ out' = [s \in Senders |-> Quiet]
  /\ request' = NoRequest
  /\ UNCHANGED <<db, live, shown, changes, requests>>

Check(t) ==
  \/ ReadValue(t) \/ FindAlert(t) \/ UpdateAlertValue(t) \/ InsertAlert(t) \/ ResolveAlert(t)

Post(s) == PublishAlarm(s) \/ ReadCounts(s) \/ PublishCounts(s)

Next ==
  \/ \E p \in Points, v \in Values \cup {NoData} : ValueChanges(p, v)
  \/ CheckAllRules
  \/ \E matching \in SUBSET Enabled : CheckEventBatch(matching)
  \/ \E t \in Tasks : Check(t) \/ CheckFails(t)
  \/ \E s \in Senders : Post(s) \/ CountsLost(s)
  \/ BroadcastCounts
  \/ \E op \in Operations : AskMutation(op) \/ AskResolution(op)
  \/ Apply \/ ApplyRefused
  \/ CallData
  \/ RequestDropped
  \/ Restart

(***************************************************************************)
(* The monitor and the broadcaster run on timers and their tasks on a      *)
(* runtime that polls every task that is ready; a post ends within three   *)
(* seconds.  The select! of run_monitor is not biased, so that PointWatch  *)
(* events cannot keep a tick that is due from being taken for ever.        *)
(* Nothing makes values change or clients ask.                             *)
(***************************************************************************)
Fairness ==
  /\ SF_vars(CheckAllRules) /\ WF_vars(BroadcastCounts)
  /\ WF_vars(\E t \in Tasks : Check(t))
  /\ \A s \in Senders : WF_vars(Post(s))

Spec == Init /\ [][Next]_vars /\ Fairness

-----------------------------------------------------------------------------
TypeOK ==
  /\ Len(rules) <= MaxRules
  /\ \A r \in DOMAIN rules : rules[r] \in
       [exists : BOOLEAN, point : Points, threshold : Thresholds, enabled : BOOLEAN]
  /\ alerts \subseteq [id : DOMAIN trail, rule : DOMAIN rules, value : Values]
  /\ live \in [Points -> Values \cup {NoData}]
  /\ \A s \in Senders :
       out[s].notes \subseteq {"triggered", "recovered"} \X Nat /\ out[s].counts \in {"none", "due", "read"}
  /\ faults \in 0 .. MaxFaults

(***************************************************************************)
(* A rule has at most one active alert.  No constraint of the table says   *)
(* so: it rests on insert_alert being reached by one check at a time.      *)
(***************************************************************************)
OneAlertPerRule ==
  \A a, b \in alerts : a.rule = b.rule => a = b

(***************************************************************************)
(* "An in-flight monitor snapshot cannot recreate an alert after           *)
(* disable/delete reconciliation": every active alert is one of a rule     *)
(* that exists and is enabled.                                             *)
(***************************************************************************)
AlertsOfEnabledRules ==
  \A a \in alerts : a.rule \in Enabled

(***************************************************************************)
(* An episode has one trigger event; it has a recovery event exactly when  *)
(* its alert is no longer active, and one more at most, from a check that  *)
(* had found the alert before a request resolved it.                       *)
(***************************************************************************)
EpisodesRecorded ==
  \A id \in DOMAIN trail :
    /\ trail[id].trigger = 1
    /\ trail[id].recovery = 0 <=> id \in Active
    /\ trail[id].recovery <= 2

(***************************************************************************)
(* "The active row and trigger history commit together before              *)
(* notification": whatever waits to be posted is in the database by then.  *)
(* A recovery is posted only for an alert that will not be active again.   *)
(***************************************************************************)
NotifiedAfterCommit ==
  \A s \in Senders : \A note \in out[s].notes :
    /\ note[2] \in DOMAIN trail
    /\ note[1] = "recovered" => note[2] \notin Active

(***************************************************************************)
(* Once rules and values keep still, the alerts come to say what the       *)
(* rules say of the values, whatever was lost or raced before: a rule with *)
(* a live value has an alert exactly while it fires, with that value.      *)
(***************************************************************************)
AlertsFollowRules ==
  <>[](\A r \in Enabled :
         LET value == live[rules[r].point]
         IN  value # NoData =>
               IF value > rules[r].threshold
                 THEN \E a \in AlertsOf(r) : a.value = value
                 ELSE AlertsOf(r) = {})

(***************************************************************************)
(* The alarm count the consumers show comes to be the number of active     *)
(* alerts, although posts are lost and overtake one another: the           *)
(* broadcaster repeats it.                                                 *)
(***************************************************************************)
CountsConverge ==
  <>[](shown = Cardinality(alerts))

(***************************************************************************)
(* The alert table follows the rules: one alert per rule, of rules that are*)
(* enabled.                                                                *)
(***************************************************************************)
AlertsConsistent == TypeOK /\ OneAlertPerRule /\ AlertsOfEnabledRules

(***************************************************************************)
(* What was recorded and what is announced agree with the alert table.     *)
(***************************************************************************)
EpisodesConsistent == EpisodesRecorded /\ NotifiedAfterCommit

(***************************************************************************)
(* Alerts and announced counts converge.                                   *)
(***************************************************************************)
AlarmsConverge == AlertsFollowRules /\ CountsConverge
=============================================================================
