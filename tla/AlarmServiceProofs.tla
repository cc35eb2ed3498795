------------------------- MODULE AlarmServiceProofs -------------------------
(***************************************************************************)
(* Proofs, for every set of points and every bound on rules, value         *)
(* changes, requests and failures, that the alert table follows the rules  *)
(* and that what is recorded and announced agrees with it.                 *)
(*                                                                         *)
(* No constraint of the table keeps a second alert of a rule out, and a    *)
(* check acts on an alert, or on the absence of one, that it looked up     *)
(* earlier.  The inductive invariant says what such a check may rely on    *)
(* (CheckInv): it is the only one of its rule; while it believes that      *)
(* there is no alert there is none; and the alert it found was of its own  *)
(* rule and has been resolved by at most one request since.                *)
(***************************************************************************)
EXTENDS AlarmService, TLAPS

RuleRows == [exists : BOOLEAN, point : Points, threshold : Thresholds, enabled : BOOLEAN]
Episodes == [trigger : Nat, recovery : Nat]

CheckStates ==
  {IdleCheck} \cup [pc : {"loaded"}, id : Nat, rule : RuleRows]
    \cup [pc : {"read"}, id : Nat, rule : RuleRows, value : Values]
    \cup [pc : {"found"}, id : Nat, rule : RuleRows, value : Values, alert : Nat]

Counts == {0} \cup {Cardinality(S) : S \in SUBSET [id : Nat, rule : Nat, value : Values]}
Outs == [notes : SUBSET ({"triggered", "recovered"} \X Nat), counts : {"none", "due", "read"}, n : Counts]

Requests ==
  {NoRequest} \cup [kind : {"create"}, rule : RuleRows] \cup [kind : {"update"}, id : Nat, patch : Patches]
    \cup [kind : {"delete"}, id : Nat] \cup [kind : {"resolve"}, alert : Nat]

DbTypes ==
  /\ rules \in Seq(RuleRows) /\ Len(rules) <= MaxRules
  /\ trail \in Seq(Episodes)
  /\ alerts \subseteq [id : DOMAIN trail, rule : DOMAIN rules, value : Values]

UniqueIds == \A a, b \in alerts : a.id = b.id => a = b

DbInv == DbTypes /\ UniqueIds /\ OneAlertPerRule /\ AlertsOfEnabledRules /\ EpisodesRecorded

\* What check c of rule t may rely on.
Relies(t, c) ==
  c # IdleCheck =>
    /\ c.id = t /\ t \in DOMAIN rules
    /\ c.pc = "found" =>
         /\ c.alert = 0 => AlertsOf(t) = {} /\ Triggered(c)
         /\ c.alert # 0 => /\ c.alert \in DOMAIN trail /\ trail[c.alert].recovery <= 1
                           /\ \A a \in alerts : a.id = c.alert => a.rule = t

CheckInv ==
  /\ checks \in [Tasks -> CheckStates]
  /\ \A t \in Tasks : Relies(t, checks[t])
  /\ \A t, u \in Tasks :
       checks[t].pc = "found" /\ checks[u].pc = "found" /\ checks[t].alert # 0 /\ checks[t].alert = checks[u].alert
         => t = u

OutInv == out \in [Senders -> Outs] /\ NotifiedAfterCommit

RestInv ==
  /\ live \in [Points -> Values \cup {NoData}] /\ request \in Requests
  /\ shown \in Counts /\ faults \in 0 .. MaxFaults

IInv == DbInv /\ CheckInv /\ OutInv /\ RestInv

-----------------------------------------------------------------------------
(* Sequences *)

\* A sequence is a function on the first Len(s) numbers.
LEMMA SeqShape ==
  ASSUME NEW S, NEW s \in Seq(S)
  PROVE  Len(s) \in Nat /\ DOMAIN s = 1 .. Len(s) /\ s \in [1 .. Len(s) -> S]
OBVIOUS

\* Such a function is a sequence.
LEMMA SeqOfFunction ==
  ASSUME NEW S, NEW n \in Nat, NEW f \in [1 .. n -> S]
  PROVE  f \in Seq(S)
OBVIOUS

\* What appending an element keeps and adds.
LEMMA SeqAppend ==
  ASSUME NEW S, NEW s \in Seq(S), NEW e \in S
  PROVE  /\ Append(s, e) \in Seq(S) /\ Len(Append(s, e)) = Len(s) + 1
         /\ \A i \in 1 .. Len(s) : Append(s, e)[i] = s[i]
         /\ Append(s, e)[Len(s) + 1] = e
OBVIOUS

\* What replacing an element keeps.
LEMMA SeqReplace ==
  ASSUME NEW S, NEW s \in Seq(S), NEW i \in 1 .. Len(s), NEW e \in S
  PROVE  /\ [s EXCEPT ![i] = e] \in Seq(S) /\ Len([s EXCEPT ![i] = e]) = Len(s)
         /\ \A j \in 1 .. Len(s) : [s EXCEPT ![i] = e][j] = IF j = i THEN e ELSE s[j]
<1>1. s \in [1 .. Len(s) -> S] /\ Len(s) \in Nat
  BY SeqShape
<1>2. [s EXCEPT ![i] = e] \in [1 .. Len(s) -> S] 
  BY <1>1
<1>3. QED
  BY <1>1, <1>2

-----------------------------------------------------------------------------
(* The database *)

LEMMA SeqFacts ==
  ASSUME DbTypes
  PROVE  /\ Len(rules) \in Nat /\ DOMAIN rules = 1 .. Len(rules) /\ DOMAIN rules \subseteq Tasks
         /\ \A r \in DOMAIN rules : rules[r] \in RuleRows
         /\ Len(trail) \in Nat /\ DOMAIN trail = 1 .. Len(trail)
         /\ \A id \in DOMAIN trail : trail[id] \in Episodes
<1>1. /\ Len(rules) \in Nat /\ DOMAIN rules = 1 .. Len(rules) /\ rules \in [1 .. Len(rules) -> RuleRows]
  BY SeqShape DEF DbTypes
<1>2. /\ Len(trail) \in Nat /\ DOMAIN trail = 1 .. Len(trail) /\ trail \in [1 .. Len(trail) -> Episodes]
  BY SeqShape DEF DbTypes
<1>3. DOMAIN rules \subseteq Tasks
  BY <1>1, AlarmAssumption DEF DbTypes, Tasks
<1>4. QED
  BY <1>1, <1>2, <1>3

LEMMA DbSame ==
  ASSUME DbInv, UNCHANGED db
  PROVE  DbInv'
BY DEF db, DbInv, DbTypes, UniqueIds, OneAlertPerRule, AlertsOfEnabledRules, EpisodesRecorded, Enabled, Active

\* No alert appears that was not there, but for one whose id is new.
Later ==
  /\ DOMAIN rules \subseteq DOMAIN rules' /\ DOMAIN trail \subseteq DOMAIN trail'
  /\ \A a \in alerts' : a.id \in DOMAIN trail => \E b \in alerts : b.id = a.id /\ b.rule = a.rule

\* insert_alert: the rule is enabled and has no alert, and the id is new.
LEMMA InsertDb ==
  ASSUME DbInv, NEW r \in Enabled, AlertsOf(r) = {}, NEW v \in Values, UNCHANGED rules,
         alerts' = alerts \cup {[id |-> Len(trail) + 1, rule |-> r, value |-> v]},
         trail' = Append(trail, [trigger |-> 1, recovery |-> 0])
  PROVE  /\ DbInv' /\ Later /\ Len(trail) + 1 \in DOMAIN trail'
         /\ \A id \in DOMAIN trail : trail'[id] = trail[id]
<1> DEFINE new == [id |-> Len(trail) + 1, rule |-> r, value |-> v]
           first == [trigger |-> 1, recovery |-> 0]
<1>1. /\ Len(trail) \in Nat /\ DOMAIN trail = 1 .. Len(trail) /\ first \in Episodes /\ r \in DOMAIN rules
  BY SeqFacts, ZenonT(30) DEF DbInv, Episodes, Enabled
<1>2. /\ trail' \in Seq(Episodes) /\ Len(trail') = Len(trail) + 1
      /\ \A id \in 1 .. Len(trail) : trail'[id] = trail[id]
      /\ trail'[Len(trail) + 1] = first
  BY <1>1, SeqAppend DEF DbInv, DbTypes
<1>3. DOMAIN trail' = 1 .. Len(trail) + 1
  BY <1>2, SeqShape
<1>4. new.id = Len(trail) + 1 /\ new.rule = r /\ new \in [id : DOMAIN trail', rule : DOMAIN rules, value : Values]
  BY <1>1, <1>3
<1>5. \A a \in alerts : a.id \in 1 .. Len(trail) /\ a.rule \in DOMAIN rules /\ a.value \in Values /\ a.rule # r
  BY <1>1, ZenonT(30) DEF DbInv, DbTypes, AlertsOf
<1>6. DbTypes'
  <2>1. alerts \subseteq [id : DOMAIN trail', rule : DOMAIN rules, value : Values]
    BY <1>1, <1>3 DEF DbInv, DbTypes
  <2>2. QED
    BY <1>2, <1>4, <2>1, ZenonT(30) DEF DbInv, DbTypes
<1>7. UniqueIds' /\ OneAlertPerRule'
  <2>1. \A a \in alerts : a.id # new.id /\ a.rule # new.rule
    BY <1>1, <1>4, <1>5
  <2> HIDE DEF new
  <2>2. alerts' = alerts \cup {new}
    BY DEF new
  <2>3. QED
    BY <2>1, <2>2 DEF DbInv, UniqueIds, OneAlertPerRule
<1>8. AlertsOfEnabledRules'
  BY <1>4 DEF DbInv, AlertsOfEnabledRules, Enabled
<1>9. Active' = Active \cup {Len(trail) + 1}
  BY <1>4, ZenonT(30) DEF Active
<1>10. EpisodesRecorded'
  <2>1. ASSUME NEW id \in DOMAIN trail'
        PROVE  /\ trail'[id].trigger = 1 /\ (trail'[id].recovery = 0 <=> id \in Active')
               /\ trail'[id].recovery <= 2
    <3>1. CASE id = Len(trail) + 1
      BY <1>2, <1>9, <3>1
    <3>2. CASE id \in 1 .. Len(trail)
      BY <1>1, <1>2, <1>9, <3>2 DEF DbInv, EpisodesRecorded
    <3>3. QED
      BY <1>1, <1>3, <3>1, <3>2
  <2>2. QED
    BY <2>1 DEF EpisodesRecorded
<1>11. Later
  BY <1>1, <1>3, <1>4 DEF Later
<1>12. QED
  BY <1>1, <1>2, <1>3, <1>6, <1>7, <1>8, <1>10, <1>11 DEF DbInv

\* update_alert_value: only a value changes.
LEMMA UpdateDb ==
  ASSUME DbInv, NEW k, NEW v \in Values, UNCHANGED <<rules, trail>>,
         alerts' = {IF a.id = k THEN [a EXCEPT !.value = v] ELSE a : a \in alerts}
  PROVE  DbInv' /\ Later
<1> DEFINE f == [a \in alerts |-> IF a.id = k THEN [a EXCEPT !.value = v] ELSE a]
<1>1. \A a \in alerts : a \in [id : DOMAIN trail, rule : DOMAIN rules, value : Values]
  BY DEF DbInv, DbTypes
<1>2. \A a \in alerts : /\ f[a].id = a.id /\ f[a].rule = a.rule
                        /\ f[a] \in [id : DOMAIN trail, rule : DOMAIN rules, value : Values]
  BY <1>1
<1>3. alerts' = {f[a] : a \in alerts}
  OBVIOUS
<1> HIDE DEF f
<1>6. DbTypes'
  BY <1>2, <1>3 DEF DbInv, DbTypes
<1>7. UniqueIds' /\ OneAlertPerRule'
  BY <1>2, <1>3 DEF DbInv, UniqueIds, OneAlertPerRule
<1>8. AlertsOfEnabledRules'
  BY <1>2, <1>3 DEF DbInv, AlertsOfEnabledRules, Enabled
<1>9. Active' = Active
  BY <1>2, <1>3 DEF Active
<1>10. EpisodesRecorded'
  BY <1>9 DEF DbInv, EpisodesRecorded
<1>11. Later
  BY <1>2, <1>3 DEF Later
<1>12. QED
  BY <1>6, <1>7, <1>8, <1>10, <1>11 DEF DbInv

\* The alerts in gone end, each with a recovery event; the rules that still
\* have an alert are enabled.
Ends(gone) ==
  /\ alerts' = {a \in alerts : a.id \notin gone}
  /\ trail' = [id \in DOMAIN trail |->
                 IF id \in gone THEN [trail[id] EXCEPT !.recovery = @ + 1] ELSE trail[id]]

LEMMA EndDb ==
  ASSUME DbInv, NEW gone \in SUBSET DOMAIN trail, Ends(gone), \A id \in gone : trail[id].recovery <= 1,
         rules' \in Seq(RuleRows), Len(rules') <= MaxRules, DOMAIN rules \subseteq DOMAIN rules',
         \A a \in alerts : a.id \notin gone => a.rule \in Enabled'
  PROVE  /\ DbInv' /\ Later /\ Active' = Active \ gone /\ DOMAIN trail' = DOMAIN trail
         /\ \A id \in DOMAIN trail : /\ id \in gone => trail'[id].recovery = trail[id].recovery + 1
                                     /\ id \notin gone => trail'[id] = trail[id]
<1>1. /\ Len(trail) \in Nat /\ DOMAIN trail = 1 .. Len(trail)
      /\ \A id \in DOMAIN trail : trail[id] \in Episodes
  BY SeqFacts DEF DbInv
<1>2. \A id \in DOMAIN trail :
        /\ trail'[id] \in Episodes /\ trail'[id].trigger = trail[id].trigger
        /\ id \in gone => trail'[id].recovery = trail[id].recovery + 1
        /\ id \notin gone => trail'[id] = trail[id]
  BY <1>1, SMTT(30) DEF Ends, Episodes
<1>3. trail' \in [1 .. Len(trail) -> Episodes]
  BY <1>1, <1>2, Zenon DEF Ends
<1>4. trail' \in Seq(Episodes) /\ DOMAIN trail' = DOMAIN trail
  BY <1>1, <1>3, SeqOfFunction, ZenonT(30)
<1>5. alerts' \subseteq alerts
  BY DEF Ends
<1>6. DbTypes'
  <2>1. alerts' \subseteq [id : DOMAIN trail', rule : DOMAIN rules', value : Values]
    BY <1>4, <1>5, ZenonT(30) DEF DbInv, DbTypes
  <2>2. QED
    BY <1>4, <2>1, ZenonT(30) DEF DbTypes
<1>7. UniqueIds' /\ OneAlertPerRule'
  BY <1>5, ZenonT(30) DEF DbInv, UniqueIds, OneAlertPerRule
<1>8. AlertsOfEnabledRules'
  BY ZenonT(30) DEF AlertsOfEnabledRules, Ends
<1>9. Active' = Active \ gone
  BY DEF Active, Ends
<1>10. EpisodesRecorded'
  <2>1. ASSUME NEW id \in DOMAIN trail
        PROVE  /\ trail'[id].trigger = 1 /\ (trail'[id].recovery = 0 <=> id \in Active')
               /\ trail'[id].recovery <= 2
    <3>1. /\ trail[id].trigger = 1 /\ (trail[id].recovery = 0 <=> id \in Active)
          /\ trail[id].recovery <= 2 /\ trail[id].recovery \in Nat
      BY <1>1, ZenonT(30) DEF DbInv, EpisodesRecorded, Episodes
    <3>2. QED
      BY <1>2, <1>9, <3>1
  <2>2. QED
    BY <1>4, <2>1, ZenonT(30) DEF EpisodesRecorded
<1>11. Later
  BY <1>4, <1>5, ZenonT(30) DEF Later
<1>12. QED
  BY <1>2, <1>4, <1>6, <1>7, <1>8, <1>9, <1>10, <1>11 DEF DbInv

-----------------------------------------------------------------------------
(* The checks *)

LEMMA CheckFields ==
  ASSUME CheckInv, NEW t \in Tasks
  PROVE  LET c == checks[t] IN
         /\ c.pc \in {"idle", "loaded", "read", "found"} /\ (c.pc = "idle" <=> c = IdleCheck)
         /\ c.pc # "idle" => c.id = t /\ t \in DOMAIN rules /\ c.rule \in RuleRows
         /\ c.pc \in {"read", "found"} => c.value \in Values
         /\ c.pc = "found" => c.alert \in Nat
<1>1. checks[t] \in CheckStates /\ Relies(t, checks[t])
  BY DEF CheckInv
<1>2. QED
  BY <1>1 DEF CheckStates, Relies, IdleCheck

\* A check that does not change may rely on what it did, if its alert was not
\* resolved twice and it is not of the rule whose alert appears.
LEMMA ReliesStill ==
  ASSUME DbInv, CheckInv, Later, NEW t \in Tasks, checks'[t] = checks[t],
         checks[t].pc = "found" /\ checks[t].alert # 0 => trail'[checks[t].alert].recovery <= 1,
         checks[t].pc = "found" => \A a \in alerts' : a.id \notin DOMAIN trail => a.rule # t
  PROVE  Relies(t, checks[t])'
<1>1. Relies(t, checks[t])
  BY ZenonT(30) DEF CheckInv
<1>2. CASE checks[t] = IdleCheck
  BY <1>2, ZenonT(30) DEF Relies
<1>3. CASE checks[t] # IdleCheck /\ checks[t].pc # "found"
  BY <1>1, <1>3, ZenonT(30) DEF Relies, Later
<1>4. CASE checks[t] # IdleCheck /\ checks[t].pc = "found"
  <2>1. checks[t].id = t /\ t \in DOMAIN rules'
    BY <1>1, <1>4, ZenonT(30) DEF Relies, Later
  <2>2. ASSUME checks[t].alert = 0
        PROVE  AlertsOf(t)' = {} /\ Triggered(checks[t])
    <3>1. AlertsOf(t) = {} /\ Triggered(checks[t])
      BY <1>1, <1>4, <2>2, ZenonT(30) DEF Relies
    <3>2. ASSUME NEW a \in alerts', a.rule = t PROVE FALSE
      BY <1>4, <3>1, <3>2, ZenonT(30) DEF AlertsOf, Later
    <3>3. QED
      BY <3>1, <3>2, ZenonT(30) DEF AlertsOf
  <2>3. ASSUME checks[t].alert # 0
        PROVE  /\ checks[t].alert \in DOMAIN trail' /\ trail'[checks[t].alert].recovery <= 1
               /\ \A a \in alerts' : a.id = checks[t].alert => a.rule = t
    <3>1. /\ checks[t].alert \in DOMAIN trail
          /\ \A a \in alerts : a.id = checks[t].alert => a.rule = t
      BY <1>1, <1>4, <2>3, ZenonT(30) DEF Relies
    <3>2. QED
      BY <1>4, <2>3, <3>1, ZenonT(30) DEF Later
  <2>4. QED
    BY <1>4, <2>1, <2>2, <2>3, ZenonT(30) DEF Relies, Triggered
<1>5. QED
  BY <1>2, <1>3, <1>4

\* One check moves on, the database as it is.
LEMMA CheckMoves ==
  ASSUME DbInv, CheckInv, UNCHANGED db, NEW t \in Tasks, NEW c \in CheckStates,
         checks' = [checks EXCEPT ![t] = c], Relies(t, c),
         c.pc = "found" /\ c.alert # 0 => \A u \in Tasks : u # t /\ checks[u].pc = "found" => checks[u].alert # c.alert
  PROVE  CheckInv'
<1>1. checks' \in [Tasks -> CheckStates] /\ checks'[t] = c /\ \A u \in Tasks : u # t => checks'[u] = checks[u]
  BY ZenonT(30) DEF CheckInv
<1>2. ASSUME NEW u \in Tasks PROVE Relies(u, checks[u])'
  BY <1>1 DEF CheckInv, Relies, AlertsOf, Triggered, db
<1>3. QED
  BY <1>1, <1>2 DEF CheckInv

\* One check ends, having changed the database or not.
LEMMA CheckStops ==
  ASSUME DbInv, CheckInv, Later, NEW t \in Tasks, CheckEnds(t),
         \A u \in Tasks : u # t /\ checks[u].pc = "found" =>
            /\ checks[u].alert # 0 => trail'[checks[u].alert].recovery <= 1
            /\ \A a \in alerts' : a.id \notin DOMAIN trail => a.rule # u
  PROVE  CheckInv'
<1>1. /\ checks' \in [Tasks -> CheckStates] /\ checks'[t] = IdleCheck
      /\ \A u \in Tasks : u # t => checks'[u] = checks[u]
  BY ZenonT(30) DEF CheckInv, CheckEnds, CheckStates
<1>2. ASSUME NEW u \in Tasks PROVE Relies(u, checks[u])'
  <2>1. CASE u = t
    BY <1>1, <2>1, ZenonT(30) DEF Relies
  <2>2. CASE u # t
    BY <1>1, <2>2, ReliesStill, ZenonT(30)
  <2>3. QED
    BY <2>1, <2>2, ZenonT(30)
<1>3. IdleCheck.pc # "found"
  BY DEF IdleCheck
<1>4. QED
  BY <1>1, <1>2, <1>3, ZenonT(30) DEF CheckInv

LEMMA SameIsLater ==
  ASSUME DbInv, UNCHANGED db
  PROVE  Later
BY DEF Later, db

\* Nothing is looked up or changed by a check that ends early.
LEMMA CheckGivesUp ==
  ASSUME DbInv, CheckInv, UNCHANGED db, NEW t \in Tasks, CheckEnds(t)
  PROVE  CheckInv'
<1>1. IdleCheck \in CheckStates /\ Relies(t, IdleCheck) /\ IdleCheck.pc # "found"
  BY ZenonT(30) DEF CheckStates, Relies, IdleCheck
<1>2. QED
  BY <1>1, CheckMoves, ZenonT(30) DEF CheckEnds

\* The checks go on while a request changes the database.
LEMMA ChecksStay ==
  ASSUME DbInv, CheckInv, Later, UNCHANGED checks, \A a \in alerts' : a.id \in DOMAIN trail,
         \A t \in Tasks : checks[t].pc = "found" /\ checks[t].alert # 0 => trail'[checks[t].alert].recovery <= 1
  PROVE  CheckInv'
<1>1. ASSUME NEW t \in Tasks PROVE Relies(t, checks[t])'
  BY ReliesStill, ZenonT(30)
<1>2. QED
  BY <1>1, ZenonT(30) DEF CheckInv

\* process_rules
LEMMA SpawnChecks ==
  ASSUME DbInv, CheckInv, UNCHANGED db, Joined, NEW loaded \in SUBSET Enabled, Spawn(loaded)
  PROVE  CheckInv'
<1>1. loaded \subseteq DOMAIN rules /\ DOMAIN rules \subseteq Nat /\ \A r \in DOMAIN rules : rules[r] \in RuleRows
  BY SeqFacts DEF DbInv, Enabled
<1>2. \A t \in Tasks : checks[t] = IdleCheck
  BY ZenonT(30) DEF Joined
<1>3. ASSUME NEW t \in Tasks
      PROVE  /\ checks'[t] \in CheckStates /\ checks'[t].pc # "found"
             /\ checks'[t] # IdleCheck => checks'[t].id = t /\ t \in DOMAIN rules
  <2>1. CASE t \in loaded
    <3>1. checks'[t] = [pc |-> "loaded", id |-> t, rule |-> rules[t]]
      BY <2>1, ZenonT(30) DEF Spawn, Loaded
    <3>2. QED
      BY <1>1, <2>1, <3>1 DEF CheckStates
  <2>2. CASE t \notin loaded
    <3>1. checks'[t] = IdleCheck
      BY <1>2, <2>2 DEF Spawn
    <3>2. QED
      BY <3>1 DEF CheckStates, IdleCheck
  <2>3. QED
    BY <2>1, <2>2, ZenonT(30)
<1>4. checks' \in [Tasks -> CheckStates]
  BY <1>3, ZenonT(30) DEF Spawn
<1>5. ASSUME NEW t \in Tasks PROVE Relies(t, checks[t])'
  BY <1>3 DEF Relies, db
<1>6. QED
  BY <1>3, <1>4, <1>5 DEF CheckInv

-----------------------------------------------------------------------------
(* What waits to be posted *)

\* What may be announced now.
Announceable(note) == note[2] \in DOMAIN trail /\ (note[1] = "recovered" => note[2] \notin Active)

LEMMA StillAnnounceable ==
  ASSUME Later, NEW note, Announceable(note)
  PROVE  Announceable(note)'
<1>1. \A id \in DOMAIN trail : id \in Active' => id \in Active
  BY ZenonT(30) DEF Later, Active
<1>2. QED
  BY <1>1 DEF Announceable, Later

LEMMA OutMoves ==
  ASSUME OutInv, Later, NEW s \in Senders, NEW o \in Outs, out' = [out EXCEPT ![s] = o],
         \A note \in o.notes : note \in out[s].notes \/ Announceable(note)'
  PROVE  OutInv'
<1>1. out' \in [Senders -> Outs] /\ out'[s] = o /\ \A u \in Senders : u # s => out'[u] = out[u]
  BY DEF OutInv
<1>2. ASSUME NEW u \in Senders, NEW note \in out[u].notes PROVE Announceable(note)'
  <2>1. Announceable(note)
    BY DEF OutInv, NotifiedAfterCommit, Announceable
  <2>2. QED
    BY <2>1, StillAnnounceable
<1>3. ASSUME NEW u \in Senders, NEW note \in out'[u].notes PROVE Announceable(note)'
  BY <1>1, <1>2, <1>3
<1>4. NotifiedAfterCommit'
  BY <1>3 DEF NotifiedAfterCommit, Announceable
<1>5. QED
  BY <1>1, <1>4, ZenonT(30) DEF OutInv

LEMMA OutStays ==
  ASSUME OutInv, Later, UNCHANGED out
  PROVE  OutInv'
<1>1. ASSUME NEW u \in Senders, NEW note \in out[u].notes PROVE Announceable(note)'
  <2>1. Announceable(note)
    BY DEF OutInv, NotifiedAfterCommit, Announceable
  <2>2. QED
    BY <2>1, StillAnnounceable
<1>2. NotifiedAfterCommit'
  BY <1>1 DEF NotifiedAfterCommit, Announceable
<1>3. QED
  BY <1>2 DEF OutInv

\* A notification and the count are queued behind a commit.
LEMMA NotifyOut ==
  ASSUME OutInv, Later, NEW s \in Senders, NEW kind \in {"triggered", "recovered"}, NEW ids \in SUBSET Nat,
         Notify(s, {<<kind, id>> : id \in ids}), ids \subseteq DOMAIN trail',
         kind = "recovered" => ids \cap Active' = {}
  PROVE  OutInv'
<1> DEFINE o == [notes |-> {<<kind, id>> : id \in ids}, counts |-> "due", n |-> 0]
<1>1. o \in Outs
  <2>1. {<<kind, id>> : id \in ids} \in SUBSET ({"triggered", "recovered"} \X Nat)
    <3>1. \A id \in ids : <<kind, id>> \in {"triggered", "recovered"} \X Nat
      BY ZenonT(30)
    <3>2. QED
      BY <3>1, Zenon
  <2>2. QED
    BY <2>1 DEF Outs, Counts
<1>2. \A note \in o.notes : Announceable(note)'
  BY DEF Announceable
<1>3. out' = [out EXCEPT ![s] = o]
  BY ZenonT(30) DEF Notify
<1> HIDE DEF o
<1>4. QED
  BY <1>1, <1>2, <1>3, OutMoves, ZenonT(30)

LEMMA Sending ==
  /\ Requester \in Senders /\ Broadcaster \in Senders /\ Quiet \in Outs /\ Quiet.notes = {}
  /\ \A t \in Tasks : CheckOf(t) \in Senders
BY DEF Senders, Requester, Broadcaster, Quiet, Outs, Counts

-----------------------------------------------------------------------------
(* The steps of a check *)

LEMMA ReadValueKeeps ==
  ASSUME IInv, NEW t \in Tasks, ReadValue(t)
  PROVE  IInv'
<1>1. UNCHANGED <<db, live, out, request, shown, faults>> /\ checks[t].pc = "loaded"
  BY DEF ReadValue, budgets
<1>2. DbInv' /\ OutInv' /\ RestInv'
  BY <1>1, DbSame, SameIsLater, OutStays, ZenonT(30) DEF IInv, RestInv
<1>3. /\ checks[t].id = t /\ t \in DOMAIN rules /\ checks[t].rule \in RuleRows /\ t \in Nat
  BY <1>1, CheckFields DEF IInv, Tasks
<1>4. CASE CheckEnds(t)
  BY <1>1, <1>2, <1>4, CheckGivesUp DEF IInv
<1>5. CASE ~CheckEnds(t)
  <2> DEFINE value == live[checks[t].rule.point]
             c == [pc |-> "read", id |-> checks[t].id, rule |-> checks[t].rule, value |-> value]
  <2>1. value \in Values /\ checks' = [checks EXCEPT ![t] = c]
    <3>1. checks[t].rule.point \in Points
      BY <1>3, ZenonT(30) DEF RuleRows
    <3>2. value \in Values \cup {NoData}
      BY <3>1, ZenonT(30) DEF IInv, RestInv
    <3>3. QED
      BY <1>5, <3>2, ZenonT(30) DEF ReadValue, IInv, CheckInv
  <2>2. c \in CheckStates /\ c.pc # "found" /\ c # IdleCheck /\ c.id = t
    BY <1>3, <2>1, ZenonT(30) DEF CheckStates, IdleCheck
  <2>3. Relies(t, c)
    BY <1>3, <2>2 DEF Relies
  <2> HIDE DEF c
  <2>4. CheckInv'
    BY <1>1, <2>1, <2>2, <2>3, CheckMoves, ZenonT(30) DEF IInv
  <2>5. QED
    BY <1>2, <2>4, ZenonT(30) DEF IInv
<1>6. QED
  BY <1>4, <1>5, ZenonT(30)

LEMMA FindAlertKeeps ==
  ASSUME IInv, NEW t \in Tasks, FindAlert(t)
  PROVE  IInv'
<1>1. UNCHANGED <<db, live, out, request, shown, faults>> /\ checks[t].pc = "read"
  BY ZenonT(30) DEF FindAlert, budgets
<1>2. DbInv' /\ OutInv' /\ RestInv'
  BY <1>1, DbSame, SameIsLater, OutStays, ZenonT(30) DEF IInv, RestInv
<1>3. /\ checks[t].id = t /\ t \in DOMAIN rules /\ checks[t].rule \in RuleRows /\ t \in Nat
      /\ checks[t].value \in Values
  BY <1>1, CheckFields DEF IInv, Tasks
<1>4. CASE CheckEnds(t)
  BY <1>1, <1>2, <1>4, CheckGivesUp DEF IInv
<1>5. CASE ~CheckEnds(t)
  <2>1. PICK found \in IF AlertsOf(t) = {} THEN {0} ELSE {a.id : a \in AlertsOf(t)} :
          /\ found # 0 \/ Triggered(checks[t])
          /\ checks' = [checks EXCEPT ![t] = [pc |-> "found", id |-> checks[t].id, rule |-> checks[t].rule,
                                              value |-> checks[t].value, alert |-> found]]
    BY <1>3, <1>5, ZenonT(30) DEF FindAlert, IInv, CheckInv
  <2> DEFINE c == [pc |-> "found", id |-> checks[t].id, rule |-> checks[t].rule,
                   value |-> checks[t].value, alert |-> found]
  <2>2. DOMAIN trail \subseteq Nat \ {0} /\ \A a \in alerts : a.id \in DOMAIN trail
    BY SeqFacts DEF IInv, DbInv, DbTypes
  <2>3. found \in Nat /\ (found = 0 => AlertsOf(t) = {})
    BY <2>1, <2>2, SMTT(30) DEF AlertsOf
  <2>4. /\ c \in CheckStates /\ c.pc = "found" /\ c # IdleCheck /\ c.id = t /\ c.alert = found
        /\ (Triggered(c) <=> Triggered(checks[t]))
    BY <1>3, <2>3, ZenonT(30) DEF CheckStates, IdleCheck, Triggered
  <2>5. ASSUME found # 0
        PROVE  /\ found \in DOMAIN trail /\ trail[found].recovery = 0
               /\ \E a \in alerts : a.id = found /\ a.rule = t
               /\ \A a \in alerts : a.id = found => a.rule = t
    <3>1. PICK a \in alerts : a.id = found /\ a.rule = t
      BY <2>1, <2>5 DEF AlertsOf
    <3>2. found \in DOMAIN trail /\ found \in Active
      BY <2>2, <3>1, ZenonT(30) DEF Active
    <3>3. QED
      BY <3>1, <3>2, ZenonT(30) DEF IInv, DbInv, UniqueIds, EpisodesRecorded
  <2> HIDE DEF c
  <2>6. Relies(t, c)
    BY <1>3, <2>1, <2>3, <2>4, <2>5 DEF Relies
  <2>7. ASSUME found # 0, NEW u \in Tasks, u # t, checks[u].pc = "found" PROVE checks[u].alert # found
    <3>1. SUFFICES ASSUME checks[u].alert = found PROVE FALSE
      BY ZenonT(30)
    <3>2. Relies(u, checks[u]) /\ checks[u] # IdleCheck
      BY <2>7, CheckFields, ZenonT(30) DEF IInv, CheckInv
    <3>3. \A a \in alerts : a.id = found => a.rule = u
      BY <2>7, <3>1, <3>2 DEF Relies
    <3>4. QED
      BY <2>5, <2>7, <3>3
  <2>8. CheckInv'
    BY <1>1, <2>1, <2>4, <2>6, <2>7, CheckMoves, ZenonT(30) DEF IInv, c
  <2>9. QED
    BY <1>2, <2>8, ZenonT(30) DEF IInv
<1>6. QED
  BY <1>4, <1>5

LEMMA UpdateAlertValueKeeps ==
  ASSUME IInv, NEW t \in Tasks, UpdateAlertValue(t)
  PROVE  IInv'
<1>1. /\ UNCHANGED <<rules, trail, live, out, request, shown, faults>> /\ checks[t].pc = "found" /\ CheckEnds(t)
      /\ alerts' = {IF a.id = checks[t].alert THEN [a EXCEPT !.value = checks[t].value] ELSE a : a \in alerts}
  BY ZenonT(30) DEF UpdateAlertValue, budgets
<1>2. checks[t].value \in Values
  BY <1>1, CheckFields DEF IInv
<1>3. DbInv' /\ Later
  BY <1>1, <1>2, UpdateDb, ZenonT(30) DEF IInv
<1>4. OutInv' /\ RestInv'
  BY <1>1, <1>3, OutStays, ZenonT(30) DEF IInv, RestInv
<1>5. ASSUME NEW u \in Tasks, u # t, checks[u].pc = "found"
      PROVE  /\ checks[u].alert # 0 => trail'[checks[u].alert].recovery <= 1
             /\ \A a \in alerts' : a.id \notin DOMAIN trail => a.rule # u
  <2>1. Relies(u, checks[u]) /\ checks[u] # IdleCheck
    BY <1>5, CheckFields, ZenonT(30) DEF IInv, CheckInv
  <2>2. \A a \in alerts' : a.id \in DOMAIN trail
    BY <1>1, <1>3, ZenonT(30) DEF DbInv, DbTypes
  <2>3. QED
    BY <1>1, <1>5, <2>1, <2>2, ZenonT(30) DEF Relies
<1>6. CheckInv'
  BY <1>1, <1>3, <1>5, CheckStops, ZenonT(30) DEF IInv
<1>7. QED
  BY <1>3, <1>4, <1>6 DEF IInv

LEMMA InsertAlertKeeps ==
  ASSUME IInv, NEW t \in Tasks, InsertAlert(t)
  PROVE  IInv'
<1>1. /\ UNCHANGED <<rules, live, request, shown, faults>> /\ checks[t].pc = "found" /\ CheckEnds(t)
      /\ checks[t].alert = 0
  BY ZenonT(30) DEF InsertAlert, budgets
<1>2. /\ checks[t].value \in Values /\ checks[t].id = t /\ checks[t] # IdleCheck
      /\ Relies(t, checks[t])
  BY <1>1, CheckFields, ZenonT(30) DEF IInv, CheckInv
<1>3. RestInv'
  BY <1>1, ZenonT(30) DEF IInv, RestInv
<1>4. CASE t \in Enabled
  <2> DEFINE id == Len(trail) + 1
  <2>1. /\ alerts' = alerts \cup {[id |-> id, rule |-> t, value |-> checks[t].value]}
        /\ trail' = Append(trail, [trigger |-> 1, recovery |-> 0])
        /\ Notify(CheckOf(t), {<<"triggered", id>>})
    BY <1>2, <1>4, ZenonT(30) DEF InsertAlert
  <2>2. AlertsOf(t) = {}
    BY <1>1, <1>2, ZenonT(30) DEF Relies
  <2>3. /\ DbInv' /\ Later /\ id \in DOMAIN trail'
        /\ \A k \in DOMAIN trail : trail'[k] = trail[k]
    BY <1>1, <1>2, <1>4, <2>1, <2>2, InsertDb, ZenonT(30) DEF IInv
  <2>4. id \in Nat
    BY SeqFacts, SMTT(30) DEF IInv, DbInv
  <2>5. OutInv'
    <3>1. {<<"triggered", id>>} = {<<"triggered", k>> : k \in {id}}
      BY ZenonT(30)
    <3>2. Notify(CheckOf(t), {<<"triggered", k>> : k \in {id}})
      BY <2>1, <3>1, ZenonT(30)
    <3> HIDE DEF id
    <3>3. QED
      BY <2>3, <2>4, <3>2, NotifyOut, Sending, ZenonT(30) DEF IInv
  <2>6. ASSUME NEW u \in Tasks, u # t, checks[u].pc = "found"
        PROVE  /\ checks[u].alert # 0 => trail'[checks[u].alert].recovery <= 1
               /\ \A a \in alerts' : a.id \notin DOMAIN trail => a.rule # u
    <3>1. Relies(u, checks[u]) /\ checks[u] # IdleCheck
      BY <2>6, CheckFields DEF IInv, CheckInv
    <3>2. \A a \in alerts : a.id \in DOMAIN trail
      BY ZenonT(30) DEF IInv, DbInv, DbTypes
    <3>3. \A a \in alerts' : a.id \notin DOMAIN trail => a.rule = t
      BY <2>1, <3>2
    <3>4. checks[u].alert # 0 => trail'[checks[u].alert].recovery <= 1
      BY <2>3, <2>6, <3>1, ZenonT(30) DEF Relies
    <3>5. QED
      BY <2>6, <3>3, <3>4, ZenonT(30)
  <2>7. CheckInv'
    BY <1>1, <2>3, <2>6, CheckStops, ZenonT(30) DEF IInv
  <2>8. QED
    BY <1>3, <2>3, <2>5, <2>7, ZenonT(30) DEF IInv
<1>5. CASE t \notin Enabled
  <2>1. UNCHANGED <<db, out>>
    BY <1>1, <1>2, <1>5, ZenonT(30) DEF InsertAlert, db
  <2>2. DbInv' /\ OutInv' /\ CheckInv'
    BY <1>1, <2>1, DbSame, SameIsLater, OutStays, CheckGivesUp, ZenonT(30) DEF IInv
  <2>3. QED
    BY <1>3, <2>2, ZenonT(30) DEF IInv
<1>6. QED
  BY <1>4, <1>5, ZenonT(30)

LEMMA ResolveAlertKeeps ==
  ASSUME IInv, NEW t \in Tasks, ResolveAlert(t)
  PROVE  IInv'
<1> DEFINE k == checks[t].alert
<1>1. /\ UNCHANGED <<rules, live, request, shown, faults>> /\ checks[t].pc = "found" /\ CheckEnds(t)
      /\ ~Triggered(checks[t])
      /\ trail' = [trail EXCEPT ![k].recovery = @ + 1]
      /\ alerts' = {a \in alerts : a.id # k}
      /\ Notify(CheckOf(t), {<<"recovered", k>>})
  BY ZenonT(30) DEF ResolveAlert, budgets
<1>2. checks[t] # IdleCheck /\ Relies(t, checks[t]) /\ k \in Nat
  BY <1>1, CheckFields, ZenonT(30) DEF IInv, CheckInv
<1>3. k # 0 /\ k \in DOMAIN trail /\ trail[k].recovery <= 1
  BY <1>1, <1>2, ZenonT(30) DEF Relies
<1>4. RestInv'
  BY <1>1 DEF IInv, RestInv
<1> HIDE DEF k
<1>5. Ends({k})
  <2>1. trail' = [id \in DOMAIN trail |->
                    IF id \in {k} THEN [trail[id] EXCEPT !.recovery = @ + 1] ELSE trail[id]]
    BY <1>1, <1>3, Zenon
  <2>2. QED
    BY <1>1, <2>1, ZenonT(30) DEF Ends
<1>6. /\ rules' \in Seq(RuleRows) /\ Len(rules') <= MaxRules /\ DOMAIN rules \subseteq DOMAIN rules'
      /\ \A a \in alerts : a.rule \in Enabled'
  BY <1>1, ZenonT(30) DEF IInv, DbInv, DbTypes, AlertsOfEnabledRules, Enabled
<1>7. /\ DbInv' /\ Later /\ Active' = Active \ {k} /\ DOMAIN trail' = DOMAIN trail
      /\ \A id \in DOMAIN trail : id # k => trail'[id] = trail[id]
  BY <1>3, <1>5, <1>6, EndDb DEF IInv
<1>8. OutInv'
  <2>1. {<<"recovered", k>>} = {<<"recovered", id>> : id \in {k}}
    OBVIOUS
  <2>2. Notify(CheckOf(t), {<<"recovered", id>> : id \in {k}})
    BY <1>1, <2>1, ZenonT(30)
  <2>3. {k} \in SUBSET Nat /\ {k} \subseteq DOMAIN trail' /\ {k} \cap Active' = {}
    BY <1>2, <1>3, <1>7, ZenonT(30)
  <2>4. QED
    BY <1>7, <2>2, <2>3, NotifyOut, Sending, ZenonT(30) DEF IInv
<1>9. ASSUME NEW u \in Tasks, u # t, checks[u].pc = "found"
      PROVE  /\ checks[u].alert # 0 => trail'[checks[u].alert].recovery <= 1
             /\ \A a \in alerts' : a.id \notin DOMAIN trail => a.rule # u
  <2>1. Relies(u, checks[u]) /\ checks[u] # IdleCheck
    BY <1>9, CheckFields DEF IInv, CheckInv
  <2>2. \A a \in alerts' : a.id \in DOMAIN trail
    BY <1>1, ZenonT(30) DEF IInv, DbInv, DbTypes
  <2>3. checks[u].alert # k
    BY <1>1, <1>3, <1>9, ZenonT(30) DEF IInv, CheckInv, k
  <2>4. QED
    BY <1>7, <1>9, <2>1, <2>2, <2>3, ZenonT(30) DEF Relies
<1>10. CheckInv'
  BY <1>1, <1>7, <1>9, CheckStops, ZenonT(30) DEF IInv
<1>11. QED
  BY <1>4, <1>7, <1>8, <1>10, ZenonT(30) DEF IInv

LEMMA CheckFailsKeeps ==
  ASSUME IInv, NEW t \in Tasks, CheckFails(t)
  PROVE  IInv'
<1>1. UNCHANGED <<db, live, out, request, shown>> /\ CheckEnds(t) /\ faults' = faults + 1 /\ faults < MaxFaults
  BY ZenonT(30) DEF CheckFails, Fault
<1>2. RestInv'
  BY <1>1, AlarmAssumption DEF IInv, RestInv
<1>3. QED
  BY <1>1, <1>2, DbSame, SameIsLater, OutStays, CheckGivesUp, ZenonT(30) DEF IInv

LEMMA SpawnKeeps ==
  ASSUME IInv, CheckAllRules \/ \E matching \in SUBSET Enabled : CheckEventBatch(matching)
  PROVE  IInv'
<1>1. UNCHANGED <<db, live, out, request, shown, faults>> /\ Joined /\ \E loaded \in SUBSET Enabled : Spawn(loaded)
  BY ZenonT(30) DEF CheckAllRules, CheckEventBatch, budgets
<1>2. RestInv'
  BY <1>1, ZenonT(30) DEF IInv, RestInv
<1>3. QED
  BY <1>1, <1>2, DbSame, SameIsLater, OutStays, SpawnChecks, ZenonT(30) DEF IInv

-----------------------------------------------------------------------------
(* Posts, requests, losses *)

\* A step that changes neither the database nor a check.
LEMMA OnlyOut ==
  ASSUME IInv, UNCHANGED <<db, checks>>, OutInv', RestInv'
  PROVE  IInv'
<1>1. DbInv' /\ Later
  BY DbSame, SameIsLater, ZenonT(30) DEF IInv
<1>2. CheckInv'
  BY ZenonT(30) DEF IInv, CheckInv, Relies, AlertsOf, Triggered, db
<1>3. QED
  BY <1>1, <1>2 DEF IInv

LEMMA PostsKeep ==
  ASSUME IInv, NEW s \in Senders, Post(s) \/ CountsLost(s)
  PROVE  IInv'
<1>1. /\ UNCHANGED <<db, checks, live, request>>
      /\ faults' = faults \/ (faults < MaxFaults /\ faults' = faults + 1)
  BY ZenonT(30) DEF Post, PublishAlarm, ReadCounts, PublishCounts, CountsLost, Fault, budgets
<1>2. out[s] \in Outs /\ out[s].n \in Counts /\ Later
  BY <1>1, SameIsLater, ZenonT(30) DEF IInv, OutInv, Outs
<1>3. CASE PublishAlarm(s)
  <2>1. PICK note \in out[s].notes : out' = [out EXCEPT ![s] = [out[s] EXCEPT !.notes = @ \ {note}]]
    BY <1>3, Zenon DEF PublishAlarm
  <2> DEFINE o == [out[s] EXCEPT !.notes = @ \ {note}]
  <2>2. o \in Outs /\ o.notes \subseteq out[s].notes
    BY <1>2 DEF Outs
  <2>3. OutInv'
    BY <1>2, <2>1, <2>2, OutMoves, ZenonT(30) DEF IInv
  <2>4. RestInv'
    BY <1>1, <1>3, ZenonT(30) DEF IInv, RestInv, PublishAlarm, budgets
  <2>5. QED
    BY <1>1, <2>3, <2>4, OnlyOut
<1>4. CASE ReadCounts(s)
  <2> DEFINE o == [notes |-> {}, counts |-> "read", n |-> Cardinality(alerts)]
  <2>1. Cardinality(alerts) \in Counts
    <3>1. DOMAIN trail \subseteq Nat /\ DOMAIN rules \subseteq Nat
      BY SeqFacts DEF IInv, DbInv
    <3>2. alerts \in SUBSET [id : Nat, rule : Nat, value : Values]
      BY <3>1, ZenonT(30) DEF IInv, DbInv, DbTypes
    <3>3. QED
      BY <3>2, Zenon DEF Counts
  <2>2. o \in Outs /\ o.notes = {} /\ out' = [out EXCEPT ![s] = o]
    BY <1>4, <2>1 DEF Outs, ReadCounts
  <2>3. OutInv'
    BY <1>2, <2>2, OutMoves, ZenonT(30) DEF IInv
  <2>4. RestInv'
    BY <1>1, <1>4 DEF IInv, RestInv, ReadCounts, budgets
  <2>5. QED
    BY <1>1, <2>3, <2>4, OnlyOut
<1>5. CASE out' = [out EXCEPT ![s] = Quiet] /\ shown' \in {shown, out[s].n}
  <2>1. OutInv'
    BY <1>2, <1>5, OutMoves, Sending, ZenonT(30) DEF IInv
  <2>2. RestInv'
    BY <1>1, <1>2, <1>5, AlarmAssumption DEF IInv, RestInv
  <2>3. QED
    BY <1>1, <2>1, <2>2, OnlyOut
<1>6. QED
  BY <1>3, <1>4, <1>5, ZenonT(30) DEF Post, PublishCounts, CountsLost

LEMMA QuietStepsKeep ==
  ASSUME IInv, \/ \E p \in Points, v \in Values \cup {NoData} : ValueChanges(p, v)
               \/ BroadcastCounts \/ CallData \/ ApplyRefused
               \/ \E op \in Operations : AskMutation(op) \/ AskResolution(op)
  PROVE  IInv'
<1>1. UNCHANGED <<db, checks, shown, faults>>
  BY ZenonT(30) DEF ValueChanges, BroadcastCounts, CallData, ApplyRefused, AskMutation, AskResolution, Accept, budgets
<1>2. Later /\ \A id \in Active : id \in DOMAIN trail /\ id \in Nat
  BY <1>1, SameIsLater, SeqFacts, SMTT(30) DEF IInv, DbInv, DbTypes, Active
<1>3. ASSUME NEW op \in Operations PROVE op \in Requests
  <2>1. DOMAIN rules \subseteq Nat /\ DOMAIN trail \subseteq Nat
    BY SeqFacts DEF IInv, DbInv
  <2>2. \A p \in Points, v \in Thresholds, e \in BOOLEAN : NewRule(p, v, e) \in RuleRows
    BY ZenonT(30) DEF NewRule, RuleRows
  <2>3. QED
    BY <2>1, <2>2 DEF Operations, Requests
<1>4. CASE \E p \in Points, v \in Values \cup {NoData} : ValueChanges(p, v)
  <2>1. OutInv' /\ RestInv'
    BY <1>1, <1>2, <1>4, OutStays, ZenonT(30) DEF IInv, RestInv, ValueChanges
  <2>2. QED
    BY <1>1, <2>1, OnlyOut, ZenonT(30)
<1>5. CASE BroadcastCounts
  <2>1. Notify(Broadcaster, {<<"triggered", id>> : id \in {}})
    BY <1>5, SMTT(30) DEF BroadcastCounts
  <2>2. {} \in SUBSET Nat /\ {} \subseteq DOMAIN trail' /\ {} \cap Active' = {}
    OBVIOUS
  <2>3. OutInv'
    BY <1>2, <2>1, <2>2, NotifyOut, Sending, ZenonT(30) DEF IInv
  <2>4. RestInv'
    BY <1>1, <1>5 DEF IInv, RestInv, BroadcastCounts
  <2>5. QED
    BY <1>1, <2>3, <2>4, OnlyOut, ZenonT(30)
<1>6. CASE CallData
  <2>1. Active \in SUBSET Nat /\ Active \subseteq DOMAIN trail'
    BY <1>1, <1>2, SMTT(30) DEF db
  <2>2. OutInv'
    <3>1. Notify(Requester, {<<"triggered", id>> : id \in Active})
      BY <1>6, ZenonT(30) DEF CallData
    <3>2. QED
      BY <1>2, <2>1, <3>1, NotifyOut, Sending, ZenonT(30) DEF IInv
  <2>3. RestInv'
    BY <1>1, <1>6, ZenonT(30) DEF IInv, RestInv, CallData
  <2>4. QED
    BY <1>1, <2>2, <2>3, OnlyOut
<1>7. CASE ApplyRefused \/ \E op \in Operations : AskMutation(op) \/ AskResolution(op)
  <2>1. UNCHANGED <<out, live>> /\ request' \in Requests
    BY <1>3, <1>7, ZenonT(30) DEF ApplyRefused, AskMutation, AskResolution, Accept, Requests
  <2>2. OutInv' /\ RestInv'
    BY <1>1, <1>2, <2>1, OutStays, ZenonT(30) DEF IInv, RestInv
  <2>3. QED
    BY <1>1, <2>2, OnlyOut
<1>8. QED
  BY <1>4, <1>5, <1>6, <1>7, ZenonT(30)

\* resolve_alerts in the transaction of a request, with what becomes of the rules.
LEMMA ResolveAlertsKeeps ==
  ASSUME IInv, NEW gone \in SUBSET Active, ResolveAlerts(gone), UNCHANGED <<live, checks, shown, faults>>,
         request' = NoRequest,
         rules' \in Seq(RuleRows), Len(rules') <= MaxRules, DOMAIN rules \subseteq DOMAIN rules',
         \A a \in alerts : a.id \notin gone => a.rule \in Enabled'
  PROVE  IInv'
<1>1. \A id \in gone : id \in DOMAIN trail /\ id \in Nat /\ trail[id].recovery = 0
  BY SeqFacts DEF IInv, DbInv, DbTypes, Active, EpisodesRecorded
<1>2. /\ DbInv' /\ Later /\ Active' = Active \ gone /\ DOMAIN trail' = DOMAIN trail
      /\ \A id \in DOMAIN trail : /\ id \in gone => trail'[id].recovery = trail[id].recovery + 1
                                  /\ id \notin gone => trail'[id] = trail[id]
  <2>1. Ends(gone)
    BY ZenonT(30) DEF Ends, ResolveAlerts
  <2>2. gone \in SUBSET DOMAIN trail /\ \A id \in gone : trail[id].recovery <= 1
    BY <1>1
  <2>3. QED
    BY <2>1, <2>2, EndDb DEF IInv
<1>3. OutInv'
  <2>1. CASE UNCHANGED out
    BY <1>2, <2>1, OutStays DEF IInv
  <2>2. CASE Notify(Requester, {<<"recovered", id>> : id \in gone})
    <3>1. gone \in SUBSET Nat /\ gone \subseteq DOMAIN trail' /\ gone \cap Active' = {}
      BY <1>1, <1>2, ZenonT(30)
    <3>2. QED
      BY <1>2, <2>2, <3>1, NotifyOut, Sending, ZenonT(30) DEF IInv
  <2>3. QED
    BY <2>1, <2>2, ZenonT(30) DEF ResolveAlerts
<1>4. CheckInv'
  <2>1. \A a \in alerts' : a.id \in DOMAIN trail
    BY ZenonT(30) DEF ResolveAlerts, IInv, DbInv, DbTypes
  <2>2. ASSUME NEW t \in Tasks, checks[t].pc = "found", checks[t].alert # 0
        PROVE  trail'[checks[t].alert].recovery <= 1
    <3>1. Relies(t, checks[t]) /\ checks[t] # IdleCheck
      BY <2>2, CheckFields, ZenonT(30) DEF IInv, CheckInv
    <3>2. checks[t].alert \in DOMAIN trail /\ trail[checks[t].alert].recovery <= 1
      BY <2>2, <3>1, ZenonT(30) DEF Relies
    <3>3. QED
      BY <1>1, <1>2, <3>2, SMTT(30)
  <2>3. QED
    BY <1>2, <2>1, <2>2, ChecksStay, ZenonT(30) DEF IInv
<1>5. RestInv'
  BY ZenonT(30) DEF IInv, RestInv, Requests
<1>6. QED
  BY <1>2, <1>3, <1>4, <1>5, ZenonT(30) DEF IInv

LEMMA CreateRuleKeeps ==
  ASSUME IInv, Apply, CreateRule(request)
  PROVE  IInv'
<1>1. /\ UNCHANGED <<alerts, trail, out, live, checks, shown, faults>> /\ request' = NoRequest
      /\ rules' = Append(rules, request.rule) /\ Len(rules) < MaxRules /\ request.kind = "create"
  BY ZenonT(30) DEF Apply, CreateRule, budgets
<1>2. request.rule \in RuleRows
  BY <1>1 DEF IInv, RestInv, Requests, NoRequest
<1>3. Len(rules) \in Nat /\ DOMAIN rules = 1 .. Len(rules) /\ rules \in Seq(RuleRows)
  BY SeqFacts, ZenonT(30) DEF IInv, DbInv, DbTypes
<1>4. /\ rules' \in Seq(RuleRows) /\ Len(rules') = Len(rules) + 1
      /\ \A r \in 1 .. Len(rules) : rules'[r] = rules[r]
  BY <1>1, <1>2, <1>3, SeqAppend
<1>5. DOMAIN rules' = 1 .. Len(rules) + 1
  BY <1>4, SeqShape, ZenonT(30)
<1>6. \A r \in Enabled : r \in Enabled'
  BY <1>3, <1>4, <1>5 DEF Enabled
<1>7. ResolveAlerts({})
  <2>1. trail = [id \in DOMAIN trail |-> trail[id]]
    BY SeqShape DEF IInv, DbInv, DbTypes
  <2>2. trail' = [id \in DOMAIN trail |->
                    IF id \in {} THEN [trail[id] EXCEPT !.recovery = @ + 1] ELSE trail[id]]
    BY <1>1, <2>1, Zenon
  <2>3. alerts' = {a \in alerts : a.id \notin {}}
    BY <1>1, ZenonT(30)
  <2>4. QED
    BY <1>1, <2>2, <2>3, ZenonT(30) DEF ResolveAlerts
<1>8. /\ Len(rules') <= MaxRules /\ DOMAIN rules \subseteq DOMAIN rules'
      /\ \A a \in alerts : a.rule \in Enabled'
  BY <1>1, <1>3, <1>4, <1>5, <1>6, AlarmAssumption, SMTT(30) DEF IInv, DbInv, AlertsOfEnabledRules
<1>9. QED
  BY <1>1, <1>4, <1>7, <1>8, ResolveAlertsKeeps, ZenonT(30)

\* A change of one rule that resolves its alerts unless it is left enabled.
LEMMA ChangeRuleKeeps ==
  ASSUME IInv, Apply, NEW r \in DOMAIN rules, NEW rule \in RuleRows,
         rules' = [rules EXCEPT ![r] = rule],
         ResolveAlerts(IF rule.exists /\ rule.enabled THEN {} ELSE {a.id : a \in AlertsOf(r)})
  PROVE  IInv'
<1> DEFINE gone == IF rule.exists /\ rule.enabled THEN {} ELSE {a.id : a \in AlertsOf(r)}
<1>1. Len(rules) \in Nat /\ DOMAIN rules = 1 .. Len(rules) /\ rules \in Seq(RuleRows) /\ Len(rules) <= MaxRules
  BY SeqFacts, ZenonT(30) DEF IInv, DbInv, DbTypes
<1>2. /\ rules' \in Seq(RuleRows) /\ Len(rules') = Len(rules)
      /\ \A j \in 1 .. Len(rules) : rules'[j] = IF j = r THEN rule ELSE rules[j]
  BY <1>1, SeqReplace
<1>3. DOMAIN rules' = DOMAIN rules
  BY <1>1, <1>2, SeqShape, ZenonT(30)
<1>4. gone \in SUBSET Active
  BY ZenonT(30) DEF Active, AlertsOf
<1>5. ASSUME NEW a \in alerts, a.id \notin gone PROVE a.rule \in Enabled'
  <2>1. a.rule \in Enabled
    BY ZenonT(30) DEF IInv, DbInv, AlertsOfEnabledRules
  <2>2. a.rule = r => rule.exists /\ rule.enabled
    BY <1>5, ZenonT(30) DEF AlertsOf
  <2>3. QED
    BY <1>1, <1>2, <1>3, <2>1, <2>2, ZenonT(30) DEF Enabled
<1>6. UNCHANGED <<live, checks, shown, faults>> /\ request' = NoRequest
  BY ZenonT(30) DEF Apply, budgets
<1> HIDE DEF gone
<1>7. ResolveAlerts(gone)
  BY ZenonT(30) DEF gone
<1>8. Len(rules') <= MaxRules
  BY <1>1, <1>2
<1>9. QED
  BY <1>2, <1>3, <1>4, <1>5, <1>6, <1>7, <1>8, ResolveAlertsKeeps, ZenonT(30)

LEMMA UpdateRuleKeeps ==
  ASSUME IInv, Apply, UpdateRule(request)
  PROVE  IInv'
<1> DEFINE r == request.id
           rule == Patched(rules[r], request.patch)
<1>1. /\ request.kind = "update" /\ r \in DOMAIN rules /\ rules[r].exists
      /\ rules' = [rules EXCEPT ![r] = rule]
      /\ ResolveAlerts(IF rule.enabled THEN {} ELSE {a.id : a \in AlertsOf(r)})
  BY ZenonT(30) DEF UpdateRule, Found
<1>2. request.patch \in Patches /\ rules[r] \in RuleRows
  BY <1>1, SeqFacts, SMTT(30) DEF IInv, DbInv, RestInv, Requests, NoRequest
<1>3. rule \in RuleRows /\ rule.exists
  <2> DEFINE old == rules[r]
             patch == request.patch
  <2>1. CASE patch.field = "point" /\ patch.to \in Points
    BY <1>1, <1>2, <2>1 DEF Patched, RuleRows
  <2>2. CASE patch.field = "threshold" /\ patch.to \in Thresholds
    BY <1>1, <1>2, <2>2, ZenonT(30) DEF Patched, RuleRows
  <2>3. CASE patch.field = "enabled" /\ patch.to \in BOOLEAN
    BY <1>1, <1>2, <2>3, ZenonT(30) DEF Patched, RuleRows
  <2>4. QED
    BY <1>2, <2>1, <2>2, <2>3, ZenonT(30) DEF Patches
<1> HIDE DEF rule
<1>4. ResolveAlerts(IF rule.exists /\ rule.enabled THEN {} ELSE {a.id : a \in AlertsOf(r)})
  BY <1>1, <1>3
<1>5. QED
  BY <1>1, <1>3, <1>4, ChangeRuleKeeps, ZenonT(30)

LEMMA DeleteRuleKeeps ==
  ASSUME IInv, Apply, DeleteRule(request)
  PROVE  IInv'
<1> DEFINE r == request.id
           rule == [rules[r] EXCEPT !.exists = FALSE]
<1>1. /\ r \in DOMAIN rules /\ ResolveAlerts({a.id : a \in AlertsOf(r)}) /\ rules[r] \in RuleRows
  BY SeqFacts DEF DeleteRule, Found, IInv, DbInv
<1>2. rules' = [rules EXCEPT ![r] = rule]
  BY DEF DeleteRule
<1>3. rule \in RuleRows /\ ~rule.exists
  BY <1>1, ZenonT(30) DEF RuleRows
<1> HIDE DEF rule
<1>4. ResolveAlerts(IF rule.exists /\ rule.enabled THEN {} ELSE {a.id : a \in AlertsOf(r)})
  BY <1>1, <1>3, ZenonT(30)
<1>5. QED
  BY <1>1, <1>2, <1>3, <1>4, ChangeRuleKeeps, ZenonT(30)

LEMMA ResolveManuallyKeeps ==
  ASSUME IInv, Apply, ResolveManually(request)
  PROVE  IInv'
<1>1. /\ request.alert \in Active /\ ResolveAlerts({request.alert})
      /\ UNCHANGED <<rules, live, checks, shown, faults>> /\ request' = NoRequest
  BY ZenonT(30) DEF ResolveManually, Apply, budgets
<1>2. /\ rules' \in Seq(RuleRows) /\ Len(rules') <= MaxRules /\ DOMAIN rules \subseteq DOMAIN rules'
      /\ \A a \in alerts : a.rule \in Enabled'
  BY <1>1, ZenonT(30) DEF IInv, DbInv, DbTypes, AlertsOfEnabledRules, Enabled
<1>3. {request.alert} \in SUBSET Active
  BY <1>1
<1>4. QED
  BY <1>1, <1>2, <1>3, ResolveAlertsKeeps, ZenonT(30)

LEMMA LossesKeep ==
  ASSUME IInv, RequestDropped \/ Restart
  PROVE  IInv'
<1>1. /\ UNCHANGED <<db, live, shown>> /\ request' = NoRequest /\ faults' = faults + 1 /\ faults < MaxFaults
  BY ZenonT(30) DEF RequestDropped, Restart, Fault
<1>2. DbInv' /\ RestInv' /\ Later
  BY <1>1, DbSame, SameIsLater, AlarmAssumption DEF IInv, RestInv, Requests
<1>3. OutInv'
  <2>1. CASE out' = [out EXCEPT ![Requester] = Quiet]
    BY <1>2, <2>1, OutMoves, Sending, ZenonT(30) DEF IInv
  <2>2. CASE out' = [s \in Senders |-> Quiet]
    BY <2>2, Sending, ZenonT(30) DEF OutInv, NotifiedAfterCommit
  <2>3. QED
    BY <2>1, <2>2 DEF RequestDropped, Restart
<1>4. CheckInv'
  <2>1. CASE UNCHANGED checks
    BY <1>1, <2>1, ZenonT(30) DEF IInv, CheckInv, Relies, AlertsOf, Triggered, db
  <2>2. CASE checks' = [t \in Tasks |-> IdleCheck]
    BY <2>2 DEF CheckInv, Relies, CheckStates, IdleCheck
  <2>3. QED
    BY <2>1, <2>2, ZenonT(30) DEF RequestDropped, Restart
<1>5. QED
  BY <1>2, <1>3, <1>4, ZenonT(30) DEF IInv

-----------------------------------------------------------------------------
LEMMA InitHolds ==
  ASSUME Init
  PROVE  IInv
<1>1. rules \in Seq(RuleRows) /\ Len(rules) <= MaxRules
  <2>1. CASE rules = <<>>
    BY <2>1, AlarmAssumption
  <2>2. CASE rules = <<NewRule(CHOOSE p \in Points : TRUE, 0, TRUE)>>
    <3>1. (CHOOSE p \in Points : TRUE) \in Points
      BY AlarmAssumption, ZenonT(30)
    <3>2. NewRule(CHOOSE p \in Points : TRUE, 0, TRUE) \in RuleRows
      BY <3>1 DEF NewRule, RuleRows, Thresholds
    <3>3. \A row \in RuleRows : <<row>> \in Seq(RuleRows) /\ Len(<<row>>) = 1
      OBVIOUS
    <3>4. rules \in Seq(RuleRows) /\ Len(rules) = 1
      BY <2>2, <3>2, <3>3, Zenon
    <3>5. QED
      BY <3>4, AlarmAssumption
  <2>3. QED
    BY <2>1, <2>2, ZenonT(30) DEF Init
<1>2. alerts = {} /\ trail = <<>> /\ DOMAIN trail = {} /\ trail \in Seq(Episodes)
  BY DEF Init
<1>3. DbInv
  BY <1>1, <1>2, ZenonT(30) DEF DbInv, DbTypes, UniqueIds, OneAlertPerRule, AlertsOfEnabledRules, EpisodesRecorded
<1>4. CheckInv
  BY ZenonT(30) DEF Init, CheckInv, Relies, CheckStates, IdleCheck
<1>5. OutInv
  BY Sending, ZenonT(30) DEF Init, OutInv, NotifiedAfterCommit
<1>6. RestInv
  BY AlarmAssumption DEF Init, RestInv, Requests, Values, Counts
<1>7. QED
  BY <1>3, <1>4, <1>5, <1>6 DEF IInv

LEMMA StepHolds ==
  ASSUME IInv, [Next]_vars
  PROVE  IInv'
<1>1. CASE UNCHANGED vars
  <2>1. UNCHANGED <<db, checks, out, live, request, shown, faults>>
    BY <1>1, ZenonT(30) DEF vars, budgets
  <2>2. OutInv' /\ RestInv'
    BY <2>1, SameIsLater, OutStays, ZenonT(30) DEF IInv, RestInv
  <2>3. QED
    BY <2>1, <2>2, OnlyOut, ZenonT(30)
<1>2. ASSUME NEW t \in Tasks, Check(t) \/ CheckFails(t) PROVE IInv'
  BY <1>2, ReadValueKeeps, FindAlertKeeps, UpdateAlertValueKeeps, InsertAlertKeeps, ResolveAlertKeeps,
     CheckFailsKeeps, ZenonT(30) DEF Check
<1>3. CASE Apply
  BY <1>3, CreateRuleKeeps, UpdateRuleKeeps, DeleteRuleKeeps, ResolveManuallyKeeps DEF Apply, Effect
<1>4. QED
  BY <1>1, <1>2, <1>3, SpawnKeeps, PostsKeep, QuietStepsKeep, LossesKeep, ZenonT(30) DEF Next

\* The inductive invariant of the alarm service.
THEOREM AlarmInvariant == Spec => []IInv
<1>1. Init => IInv
  BY InitHolds
<1>2. IInv /\ [Next]_vars => IInv'
  BY StepHolds
<1>3. QED
  BY <1>1, <1>2, PTL DEF Spec

\* The alert table follows the rules, whatever the checks looked up before a
\* request changed it: insert_alert never starts a second episode of a rule,
\* nor one of a rule that was disabled or deleted since it was loaded.
THEOREM AlertsAlwaysConsistent == Spec => []AlertsConsistent
<1>1. IInv => AlertsConsistent
  <2> SUFFICES ASSUME IInv PROVE AlertsConsistent
    BY ZenonT(30)
  <2>2. /\ Len(rules) <= MaxRules /\ \A r \in DOMAIN rules : rules[r] \in RuleRows
        /\ alerts \subseteq [id : DOMAIN trail, rule : DOMAIN rules, value : Values]
    BY SeqFacts, ZenonT(30) DEF IInv, DbInv, DbTypes
  <2>3. \A s \in Senders :
          out[s].notes \subseteq {"triggered", "recovered"} \X Nat /\ out[s].counts \in {"none", "due", "read"}
    BY ZenonT(30) DEF IInv, OutInv, Outs
  <2>4. TypeOK
    BY <2>2, <2>3 DEF TypeOK, IInv, RestInv, RuleRows
  <2>5. OneAlertPerRule /\ AlertsOfEnabledRules
    BY DEF IInv, DbInv
  <2>6. QED
    BY <2>4, <2>5 DEF AlertsConsistent
<1>2. QED
  BY <1>1, AlarmInvariant, PTL

\* What insert_alert and resolve_alerts record agrees with the alert table: an
\* episode has its trigger event, and recovery events, two at most, exactly when
\* it has ended. What broadcast_alarm is about to post was committed before.
THEOREM EpisodesAlwaysConsistent == Spec => []EpisodesConsistent
<1>1. IInv => EpisodesConsistent
  BY DEF IInv, DbInv, OutInv, EpisodesConsistent
<1>2. QED
  BY <1>1, AlarmInvariant, PTL
=============================================================================
