--------------------------- MODULE UplinkDelivery ---------------------------
(***************************************************************************)
(* Store and forward of uplink: the journal of FileOutbox, the forwarder   *)
(* that drains it (services/uplink/src/uplink.rs and                       *)
(* crates/aether-application/src/outbox_forwarder.rs), the MQTT task       *)
(* (services/uplink/src/mqtt.rs) and the calls that steer it (routes.rs).  *)
(*                                                                         *)
(* A connection of rumqttc (external) is an event loop and the bounded     *)
(* queue of requests its clients fill.  Only poll() empties the queue, and *)
(* the queue goes with the event loop.  Replies to cloud commands, which   *)
(* are not in the outbox, are left out.                                    *)
(***************************************************************************)
EXTENDS FileOutbox

CONSTANTS
  BatchLimit,      \* 128 in the code
  QueueCapacity,   \* of the client's request queue, 64 in the code
  Greetings        \* what on_connected sends: 5 subscriptions and the status

ASSUME UplinkAssumption ==
  BatchLimit \in Nat \ {0} /\ QueueCapacity \in Nat \ {0} /\ Greetings \in Nat

VARIABLES
  link,       \* where the MQTT task is
  client,     \* mqtt_client is a handle of the event loop there is, not None or older
  connected,  \* mqtt_connected
  signal,     \* reconnect_signal holds a permit
  inhibit,    \* disconnect_requested
  greeted,    \* what on_connected has sent
  queue,      \* requests of the event loop that have not reached the broker
  drain,      \* the forwarder: pc and the entries peeked
  broker,     \* messages the broker has received
  lost        \* messages that went with the queue of an event loop

linkVars == <<link, client, connected, signal, inhibit, greeted, queue>>
uplinkVars == <<linkVars, drain, broker, lost>>
vars == <<journalVars, uplinkVars>>

Status == 0    \* a request that is no message of the outbox
Idle == [pc |-> "idle", batch |-> <<>>]

Init ==
  /\ JournalInit
  /\ link = "off" /\ client = FALSE
  /\ connected = FALSE /\ signal = FALSE /\ inhibit = FALSE
  /\ greeted = 0 /\ queue = <<>>
  /\ drain = Idle
  /\ broker = {} /\ lost = {}

\* main: the tasks are spawned once the outbox is open.
Up == pc \notin {"down", "creating"}

-----------------------------------------------------------------------------
(* The forwarder *)

\* run_outbox_forwarder, drain_once: a tick while MQTT is connected.
Peek ==
  /\ drain.pc = "idle"
  /\ connected
  /\ pc = "ready" /\ mem.entries # Empty.entries
  /\ LET ids == SetToSortSeq(DOMAIN mem.entries, <)
         batch == [i \in DOMAIN ids |-> [id |-> ids[i], message |-> mem.entries[ids[i]]]]
     IN  drain' = [pc |-> "publish", batch |-> SubSeq(batch, 1, Min({BatchLimit, Len(batch)}))]
  /\ UNCHANGED <<journalVars, linkVars, broker, lost>>

\* Mutant of PublishFails: the error is not looked at.
PublishFailsIgnored(pass) == [pass EXCEPT !.pc = "acknowledge"]

\* drain_once: an error of publish ends the pass.
PublishFails(pass) == Idle

\* MqttUplinkPublisher::publish: the handle is cloned under the lock.
CloneClient ==
  /\ drain.pc = "publish"
  /\ drain' = IF client THEN [drain EXCEPT !.pc = "sending"] ELSE PublishFails(drain)
  /\ UNCHANGED <<journalVars, linkVars, broker, lost>>

\* MqttUplinkPublisher::publish: waits for room; see DropEventLoop for its error.
Publish ==
  /\ drain.pc = "sending"
  /\ Len(queue) < QueueCapacity
  /\ queue' = Append(queue, Head(drain.batch).message)
  /\ drain' = [drain EXCEPT !.pc = "acknowledge"]
  /\ UNCHANGED <<journalVars, link, client, connected, signal, inhibit, greeted, broker, lost>>

\* ensure_acknowledged: the request, behind whatever the worker is at.
AskAcknowledge ==
  /\ drain.pc = "acknowledge"
  /\ Acknowledge(Head(drain.batch).id) \/ AcknowledgeRefused(Head(drain.batch).id)
  /\ drain' = [drain EXCEPT !.pc = "waiting"]
  /\ UNCHANGED <<linkVars, broker, lost>>

\* ensure_acknowledged, drain_once: the next entry, or an error ends the pass.
TakeReply ==
  /\ drain.pc = "waiting" /\ reply # "none"
  /\ drain' = IF reply = "failed" \/ Len(drain.batch) = 1
                THEN Idle
                ELSE [pc |-> "publish", batch |-> Tail(drain.batch)]
  /\ reply' = "none"
  /\ UNCHANGED <<pc, file, synced, residue, shadow, mem, outcome, damage, faults,
                 linkVars, broker, lost>>

-----------------------------------------------------------------------------
(* The MQTT task *)

\* run_mqtt_loop, after connect_and_run: idle until the signal, or for a while.
Resting == IF inhibit THEN "held" ELSE "off"

(***************************************************************************)
(* connect_and_run returns: mqtt_connected is cleared, and the event loop  *)
(* is dropped with its queue.  Whoever waits for room in it gets an error. *)
(***************************************************************************)
DropEventLoop ==
  /\ connected' = FALSE /\ client' = FALSE
  /\ lost' = lost \cup (Range(queue) \ ({Status} \cup broker))
  /\ queue' = <<>>
  /\ greeted' = 0

EndSession ==
  /\ DropEventLoop
  /\ link' = Resting
  /\ drain' = IF drain.pc = "sending" THEN PublishFails(drain) ELSE drain

\* Mutant of StartSession: mqtt_client keeps the handle of the last session.
StartSessionOldClient ==
  /\ Up
  /\ link = "off" \/ (link = "held" /\ signal)
  /\ signal' \in IF link = "held" THEN {FALSE} ELSE {signal, FALSE}
  /\ link' = "connecting"
  /\ UNCHANGED <<journalVars, client, connected, inhibit, greeted, queue, drain, broker, lost>>

(***************************************************************************)
(* run_mqtt_loop: the delay is over, or the signal came; connect_and_run   *)
(* makes a new client and event loop.  disconnect_requested is not looked  *)
(* at here.                                                                *)
(***************************************************************************)
StartSession ==
  /\ Up
  /\ link = "off" \/ (link = "held" /\ signal)
  /\ signal' \in IF link = "held" THEN {FALSE} ELSE {signal, FALSE}
  /\ link' = "connecting"
  /\ client' = TRUE
  /\ UNCHANGED <<journalVars, connected, inhibit, greeted, queue, drain, broker, lost>>

ConnAck ==
  /\ link = "connecting"
  /\ link' = IF Greetings = 0 THEN "up" ELSE "greeting"
  /\ connected' = TRUE
  /\ UNCHANGED <<journalVars, client, signal, inhibit, greeted, queue, drain, broker, lost>>

\* on_connected: awaited by the task that polls, so nothing leaves the queue.
Greet ==
  /\ link = "greeting"
  /\ Len(queue) < QueueCapacity
  /\ queue' = Append(queue, Status)
  /\ greeted' = greeted + 1
  /\ link' = IF greeted' = Greetings THEN "up" ELSE link
  /\ UNCHANGED <<journalVars, client, connected, signal, inhibit, drain, broker, lost>>

\* poll(): a request reaches the broker.
Transmit ==
  /\ link = "up"
  /\ queue # <<>>
  /\ queue' = Tail(queue)
  /\ broker' = broker \cup ({Head(queue)} \ {Status})
  /\ UNCHANGED <<journalVars, link, client, connected, signal, inhibit, greeted, drain, lost>>

\* poll() returns an error or the broker's Disconnect.
LinkFails ==
  /\ Fault
  /\ link \in {"connecting", "up"}
  /\ EndSession
  /\ UNCHANGED <<pc, file, synced, residue, shadow, mem, outcome, reply, damage,
                 signal, inhibit, broker>>

\* The arm of reconnect_signal: the offline status first.
SignalSeen ==
  /\ link \in {"connecting", "up"}
  /\ signal
  /\ signal' = FALSE
  /\ link' = "leaving"
  /\ UNCHANGED <<journalVars, client, connected, inhibit, greeted, queue, drain, broker, lost>>

\* The same arm: the status is in the queue, and connect_and_run returns.
Leave ==
  /\ link = "leaving"
  /\ Len(queue) < QueueCapacity
  /\ EndSession
  /\ UNCHANGED <<journalVars, signal, inhibit, broker>>

-----------------------------------------------------------------------------
(* Calls of the API; notify_one keeps one permit if nobody waits for it. *)

Notify ==
  /\ Fault
  /\ Up
  /\ signal' = TRUE
  /\ UNCHANGED <<pc, file, synced, residue, shadow, mem, outcome, reply, damage,
                 link, greeted, queue, drain, broker, lost>>

MqttUpdateConfig == Notify /\ UNCHANGED <<inhibit, client, connected>>

MqttDisconnect == Notify /\ inhibit' = TRUE /\ client' = FALSE /\ connected' = FALSE

MqttReconnect == Notify /\ inhibit' = FALSE /\ UNCHANGED <<client, connected>>

\* The process dies, and all tasks with it.
Die ==
  /\ Crash
  /\ DropEventLoop
  /\ link' = "off"
  /\ signal' = FALSE /\ inhibit' = FALSE
  /\ drain' = Idle
  /\ UNCHANGED broker

Journal ==
  /\ \/ Create \/ Created \/ Open
     \/ Appended \/ AppendFails
     \/ CompactRename \/ DirectorySynced \/ DirectorySyncFails
     \/ \E m \in Messages : Enqueue(m) \/ EnqueueRefused(m)
  /\ UNCHANGED uplinkVars

Forward == Peek \/ CloneClient \/ Publish \/ AskAcknowledge \/ TakeReply

MqttTask == StartSession \/ ConnAck \/ Greet \/ Transmit \/ SignalSeen \/ Leave

Next ==
  \/ Journal \/ Forward \/ MqttTask
  \/ MqttUpdateConfig \/ MqttDisconnect \/ MqttReconnect
  \/ LinkFails \/ Die

Spec == Init /\ [][Next]_vars

(***************************************************************************)
(* The tasks of the runtime and the worker thread keep running, a broker   *)
(* that is there answers, and faults end (MaxFaults).  Nothing obliges a   *)
(* producer to enqueue or the hourly compaction to happen.                 *)
(***************************************************************************)
FairSpec ==
  /\ Spec
  /\ WF_vars((Create \/ Created \/ Open \/ Appended \/ DirectorySynced) /\ UNCHANGED uplinkVars)
  /\ WF_vars(Forward)
  /\ WF_vars(MqttTask)

-----------------------------------------------------------------------------
TypeOK ==
  /\ JournalTypeOK
  /\ link \in {"off", "held", "connecting", "greeting", "up", "leaving"}
  /\ {client, connected, signal, inhibit} \subseteq BOOLEAN
  /\ greeted \in 0 .. Greetings
  /\ Len(queue) <= QueueCapacity
  /\ Len(drain.batch) <= BatchLimit
  /\ broker \cup lost \subseteq Messages

AcceptedMessages == {m \in Messages : outcome[m].status = "stored"}

(***************************************************************************)
(* "If publishing fails, the current entry remains durable": a message     *)
(* that enqueue_json answered is in the journal, in the queue of a live    *)
(* event loop or at the broker, or an event loop that had accepted it was  *)
(* dropped; through crashes, failed disk operations and reconnections.     *)
(***************************************************************************)
Accounted ==
  damage # "lost" =>
    AcceptedMessages \subseteq Range(Contents.entries) \cup Range(queue) \cup broker \cup lost

(***************************************************************************)
(* drain_once publishes "in FIFO order": the broker has a message only if  *)
(* it has had every message accepted before it, whatever was retried over  *)
(* however many sessions; but for those a dropped event loop took along.   *)
(***************************************************************************)
InOrder ==
  damage # "lost" =>
    \A m1, m2 \in AcceptedMessages :
      outcome[m1].id < outcome[m2].id /\ m2 \in broker => m1 \in broker \cup lost

\* The MQTT task waits for room in the queue that only it empties.
Stuck == link \in {"greeting", "leaving"} /\ Len(queue) = QueueCapacity

\* What only an operator can end: a refused journal, a fatal error, an inhibited link.
NeedsOperator ==
  \/ pc = "poisoned" \/ (pc = "down" /\ Recover(file).corrupt)
  \/ damage = "lost"
  \/ link = "held"

(***************************************************************************)
(* Whatever was accepted reaches the broker, or an event loop that had it  *)
(* was dropped, unless an operator is needed or the MQTT task waits for    *)
(* itself.                                                                 *)
(***************************************************************************)
Delivers == []<>(NeedsOperator \/ Stuck \/ AcceptedMessages \subseteq broker \cup lost)

(***************************************************************************)
(* An accepted message is accounted for, and none overtakes it.            *)
(***************************************************************************)
AcceptedKeptInOrder == TypeOK /\ CrashConsistent /\ Accounted /\ InOrder
=============================================================================
