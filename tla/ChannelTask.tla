---------------------------- MODULE ChannelTask ----------------------------
(***************************************************************************)
(* One acquisition channel of the io service: the unified task that owns  *)
(* the protocol client (channel_task.rs), its ReconnectHelper             *)
(* (reconnect.rs), the command queue and the cached state of its          *)
(* ChannelEntry (channel_entry.rs), and the manager that activates and    *)
(* fences it (channel_manager.rs, channel_creation.rs,                    *)
(* channel_mutator.rs).                                                    *)
(*                                                                         *)
(* The protocol client is external: it is seen through connect,           *)
(* start_events, poll_once, disconnect, connection_state and the           *)
(* ConnectionChanged events it pushes with a lossy try_send.  A step ends *)
(* where the task awaits.  Business commands and point data do not touch  *)
(* the state below and are left out, as are clocks: a timer is a step     *)
(* that may be taken whenever the code waits on it.                        *)
(***************************************************************************)
EXTENDS Naturals, Sequences

CONSTANTS
    MaxAttempts,     \* ReconnectPolicy::max_attempts (0: unlimited)
    MaxRounds,       \* AutoRecoveryPolicy::max_recovery_rounds
    ZeroThreshold,   \* ChannelPollContext::zero_data_threshold (0: disabled)
    QueueCapacity,   \* bound of protocol_tx (32 in the code)
    EventCapacity,   \* bound of the protocol's event queue
    MaxFaults,       \* bound: failed or timed out connects, lost connections
    MaxRequests      \* bound: activations, fences and operator commands

ASSUME ChannelTaskConstants ==
    /\ {MaxAttempts, MaxRounds, ZeroThreshold, MaxFaults, MaxRequests} \subseteq Nat
    /\ {QueueCapacity, EventCapacity} \subseteq Nat \ {0}

VARIABLES
    eventDriven,  \* protocol.is_event_driven(), fixed for the channel
    task,         \* where run_unified_channel_task waits
    phase,        \* how far connect_and_start_events has come
    proto,        \* protocol.connection_state().is_connected()
    streaming,    \* the event stream was started on this connection
    helper,       \* ReconnectHelper: state, current_attempt, recovery_rounds
    retried,      \* stats.total_attempts > 0
    failed,       \* shared.reconnect_failed
    cached,       \* shared.cached_connection_state is Connected
    prev,         \* prev_online: <<>> is None, <<b>> is Some(b)
    online,       \* what the SHM health plane says of the channel
    writable,     \* the health writer holds a current segment with this channel
    missed,       \* history: the last write the plane needed was refused
    zero,         \* consecutive_zero_data
    commands,     \* protocol_rx
    events,       \* the protocol's event queue
    caller,       \* where the serialized activate / fence call stands
    tries,        \* history: attempts since the last mark_connected
    faults, requests

setting == <<eventDriven, writable>>
health == <<cached, prev, online, missed>>
link == <<proto, streaming, phase>>
budget == <<faults, requests>>
vars == <<setting, task, link, helper, retried, failed, health,
          zero, commands, events, caller, tries, budget>>

Connecting == {"connecting", "commanding", "backoffCommanding"}
Running == Connecting \union {"starting", "select", "polling", "backoff", "stopping"}
Gone == task \in {"absent", "exited", "aborted"}

Fault == faults < MaxFaults /\ faults' = faults + 1 /\ UNCHANGED requests
Request == requests < MaxRequests /\ requests' = requests + 1 /\ UNCHANGED faults

(***************************************************************************)
(* ReconnectHelper.                                                        *)
(***************************************************************************)

NewHelper == [state |-> "Disconnected", attempt |-> 0, rounds |-> 0]

\* the limit of record_attempt and record_failure
AttemptsExhausted(h) == MaxAttempts > 0 /\ h.attempt >= MaxAttempts

\* mark_connected
Connected == [state |-> "Connected", attempt |-> 0, rounds |-> 0]

\* record_attempt, when it refuses and when it counts one more
AttemptRefused(h) == [h EXCEPT !.state = "Failed"]
AttemptRecorded(h) == [h EXCEPT !.state = "Reconnecting", !.attempt = @ + 1]

\* record_failure
FailureRecorded(h) ==
    [h EXCEPT !.state = IF AttemptsExhausted(h) THEN "Failed" ELSE "Disconnected"]

\* check_auto_recovery with its reset, once the cooldown has elapsed
Recovered(h) == [state |-> "Disconnected", attempt |-> 0, rounds |-> h.rounds + 1]

(***************************************************************************)
(* Publication of the connection state.                                    *)
(***************************************************************************)

\* publish_channel_online: a refused write is logged and forgotten.
PublishOnline(up) ==
    /\ online' = IF writable THEN up ELSE online
    /\ missed' = ~writable

\* check_online_change: prev_online is stored whether the write succeeds or not.
CheckOnlineChange(up) ==
    /\ prev' = <<up>>
    /\ IF prev = <<up>> THEN UNCHANGED <<online, missed>> ELSE PublishOnline(up)

\* update_cached_state, then check_online_change
Observe(up) == cached' = up /\ CheckOnlineChange(up)

\* The ConnectionChanged events of a protocol operation: try_send drops the
\* event when the queue is full.
Emit(up) ==
    events' = IF eventDriven /\ Len(events) < EventCapacity
              THEN Append(events, up) ELSE events

(***************************************************************************)
(* Init: a channel that has not been activated.                            *)
(***************************************************************************)

Init ==
    /\ eventDriven \in BOOLEAN
    /\ task = "absent" /\ phase = "idle"
    /\ proto = FALSE /\ streaming = FALSE
    /\ helper = NewHelper /\ retried = FALSE /\ failed = FALSE
    /\ cached = FALSE /\ prev = <<>> /\ online = FALSE
    /\ writable = TRUE /\ missed = FALSE
    /\ zero = 0 /\ commands = <<>> /\ events = <<>>
    /\ caller = "idle" /\ tries = 0
    /\ faults = 0 /\ requests = 0

(***************************************************************************)
(* The manager.  activate and fence of one channel are serialized by the  *)
(* channel lock of the mutator and by reserve_channel_lifecycle.           *)
(***************************************************************************)

\* ChannelManager::activate of an empty slot: create_channel spawns a new task
\* with new shared state, and the caller sends Connect and waits for the answer.
ActivateNew ==
    /\ caller = "idle" /\ Gone
    /\ Request
    /\ task' = "starting" /\ phase' = "idle"
    /\ proto' = FALSE /\ streaming' = FALSE
    /\ helper' = NewHelper /\ retried' = FALSE /\ failed' = FALSE
    /\ cached' = FALSE /\ prev' = <<>>
    /\ zero' = 0 /\ events' = <<>> /\ tries' = 0
    /\ commands' = <<"connect">>
    /\ caller' = "waiting"
    /\ UNCHANGED <<setting, online, missed>>

\* activate of an installed channel that is_connected reports down: its cached
\* state is not Connected, or no data came within the freshness window.
ActivateInstalled ==
    /\ caller = "idle" /\ ~Gone
    /\ Request
    /\ Len(commands) < QueueCapacity
    /\ commands' = Append(commands, "connect")
    /\ caller' = "waiting"
    /\ UNCHANGED <<setting, task, link, helper, retried, failed, health,
                   zero, events, tries>>

\* ChannelEntry::connect gives up after 30 s, and activate removes the channel.
ConnectTimesOut ==
    /\ caller = "waiting"
    /\ Fault
    /\ caller' = "removing"
    /\ UNCHANGED <<setting, task, link, helper, retried, failed, health,
                   zero, commands, events, tries>>

\* fence: remove_channel takes the entry out of its slot.
Fence ==
    /\ caller = "idle" /\ ~Gone
    /\ Request
    /\ caller' = "removing"
    /\ UNCHANGED <<setting, task, link, helper, retried, failed, health,
                   zero, commands, events, tries>>

\* shutdown_channel_entry: 100 ms to queue Shutdown, then wait for the task.
SendShutdown ==
    /\ caller = "removing"
    /\ commands' = IF Len(commands) < QueueCapacity
                   THEN Append(commands, "shutdown") ELSE commands
    /\ caller' = "joining"
    /\ UNCHANGED <<setting, task, link, helper, retried, failed, health,
                   zero, events, tries, budget>>

\* The task handle resolves within 500 ms.
TaskJoined ==
    /\ caller = "joining" /\ task = "exited"
    /\ caller' = "idle"
    /\ UNCHANGED <<setting, task, link, helper, retried, failed, health,
                   zero, commands, events, tries, budget>>

\* It does not: the task is aborted where it waits, and the protocol client is
\* dropped with it.  Nothing after the loop runs.
TaskAborted ==
    /\ caller = "joining" /\ task # "exited"
    /\ caller' = "idle"
    /\ task' = "aborted" /\ phase' = "idle"
    /\ proto' = FALSE /\ streaming' = FALSE
    /\ commands' = <<>> /\ events' = <<>>
    /\ UNCHANGED <<setting, helper, retried, failed, health, zero, tries, budget>>

\* The other ChannelEntry operations: set_log_level from the API, disconnect.
Command(c) ==
    /\ ~Gone
    /\ Request
    /\ Len(commands) < QueueCapacity
    /\ commands' = Append(commands, c)
    /\ UNCHANGED <<setting, task, link, helper, retried, failed, health,
                   zero, events, caller, tries>>

(***************************************************************************)
(* connect_and_start_events, and what its three callers do with the result.*)
(***************************************************************************)

\* handle_disconnected after the attempt
AttemptEnds(ok, up) ==
    /\ task = "connecting"
    /\ helper' = IF ok THEN Connected ELSE FailureRecorded(helper)
    /\ failed' = (failed /\ ~ok)
    /\ tries' = IF ok THEN 0 ELSE tries
    /\ Observe(up)
    /\ UNCHANGED caller

\* The caller of ChannelEntry::connect gets its answer, if it still waits.
Answer(ok) ==
    caller' = IF caller # "waiting" THEN caller ELSE IF ok THEN "idle" ELSE "removing"

\* handle_protocol_command: nothing but the answer
CommandEnds(ok) ==
    /\ task = "commanding"
    /\ Answer(ok)
    /\ UNCHANGED <<helper, failed, tries, health>>

\* Bug: a connect in the backoff is answered by nobody.
BackoffCommandSilent(ok, up) ==
    /\ task = "backoffCommanding"
    /\ UNCHANGED caller
    /\ helper' = IF ok THEN Connected ELSE helper
    /\ tries' = IF ok THEN 0 ELSE tries
    /\ Observe(up)
    /\ UNCHANGED failed

\* handle_backoff_command, then the update in handle_disconnected
BackoffCommandEnds(ok, up) ==
    /\ task = "backoffCommanding"
    /\ Answer(ok)
    /\ helper' = IF ok THEN Connected ELSE helper
    /\ tries' = IF ok THEN 0 ELSE tries
    /\ Observe(up)
    /\ UNCHANGED failed

ConnectEnds(ok) ==
    /\ task' = "select" /\ phase' = "idle"
    /\ proto' = ok
    /\ AttemptEnds(ok, ok) \/ CommandEnds(ok) \/ BackoffCommandEnds(ok, ok)
    /\ UNCHANGED <<setting, retried, zero, commands>>

\* protocol.connect() succeeds; an event-driven protocol goes on to start_events
TransportConnects ==
    /\ task \in Connecting /\ phase = "connect"
    /\ Emit(TRUE)
    /\ UNCHANGED <<streaming, budget>>
    /\ \/ ~eventDriven /\ ConnectEnds(TRUE)
       \/ /\ eventDriven
          /\ proto' = TRUE /\ phase' = "start"
          /\ UNCHANGED <<setting, task, helper, retried, failed, health, zero,
                         commands, caller, tries>>

EventsStart ==
    /\ task \in Connecting /\ phase = "start"
    /\ streaming' = TRUE
    /\ ConnectEnds(TRUE)
    /\ UNCHANGED <<events, budget>>

\* connect() fails, or start_events() does and the transport is disconnected.
ConnectFails ==
    /\ task \in Connecting /\ phase # "idle"
    /\ Fault
    /\ streaming' = FALSE
    /\ IF phase = "start" THEN Emit(FALSE) ELSE UNCHANGED events
    /\ ConnectEnds(FALSE)

\* The 30 s timeout of a reconnect attempt drops the future where it stands:
\* the connection stays as connect_and_start_events left it.
AttemptTimesOut ==
    /\ task = "connecting" /\ phase # "idle"
    /\ Fault
    /\ task' = "select" /\ phase' = "idle"
    /\ AttemptEnds(FALSE, proto)
    /\ UNCHANGED <<setting, proto, streaming, retried, zero, commands, events>>

\* The connection drops on its own.
ConnectionLost ==
    /\ proto /\ phase = "idle"
    /\ Fault
    /\ proto' = FALSE /\ streaming' = FALSE
    /\ Emit(FALSE)
    /\ UNCHANGED <<setting, task, phase, helper, retried, failed, health, zero,
                   commands, caller, tries>>

\* stop_events_and_disconnect
Disconnect ==
    /\ proto' = FALSE /\ streaming' = FALSE
    /\ IF proto THEN Emit(FALSE) ELSE UNCHANGED events

(***************************************************************************)
(* The select loop of run_unified_channel_task.                            *)
(***************************************************************************)

\* Bug: the task assumes its channel starts offline.
StartAssumesOffline ==
    /\ task = "starting"
    /\ task' = "select"
    /\ cached' = proto
    /\ prev' = <<proto>> /\ UNCHANGED <<online, missed>>
    /\ UNCHANGED <<setting, link, helper, retried, failed, zero, commands,
                   events, caller, tries, budget>>

\* After the initial 500 ms the state is published for the first time.
Start ==
    /\ task = "starting"
    /\ task' = "select"
    /\ Observe(proto)
    /\ UNCHANGED <<setting, link, helper, retried, failed, zero, commands,
                   events, caller, tries, budget>>

\* Priority 1: a protocol command
TakeCommand ==
    /\ task = "select" /\ commands # <<>>
    /\ commands' = Tail(commands)
    /\ \/ /\ Head(commands) = "shutdown"
          /\ task' = "stopping"
          /\ UNCHANGED <<link, events>>
       \/ /\ Head(commands) = "connect"
          /\ task' = "commanding" /\ phase' = "connect"
          /\ UNCHANGED <<proto, streaming, events>>
       \/ /\ Head(commands) = "disconnect"
          /\ Disconnect
          /\ UNCHANGED <<task, phase>>
       \/ /\ Head(commands) = "log"
          /\ UNCHANGED <<task, link, events>>
    /\ UNCHANGED <<setting, helper, retried, failed, health, zero, caller,
                   tries, budget>>

\* Priority 3: handle_protocol_event of a ConnectionChanged
TakeEvent ==
    /\ task = "select" /\ commands = <<>> /\ events # <<>>
    /\ events' = Tail(events)
    /\ Observe(Head(events))
    /\ UNCHANGED <<setting, task, link, helper, retried, failed, zero, commands,
                   caller, tries, budget>>

\* Priority 4: the interval tick
Tick == task = "select" /\ commands = <<>> /\ events = <<>>

\* handle_poll_tick of a connected channel up to poll_once
TickConnected ==
    /\ Tick /\ proto
    /\ task' = "polling"
    /\ IF helper.state = "Connected"
       THEN UNCHANGED <<helper, failed, tries>>
       ELSE helper' = Connected /\ failed' = FALSE /\ tries' = 0
    /\ UNCHANGED <<setting, link, retried, health, zero, commands, events,
                   caller, budget>>

\* Bug: a poll with data skips the state update.
PollDataUnpublished ==
    /\ task = "polling"
    /\ task' = "select" /\ zero' = 0
    /\ UNCHANGED <<setting, link, helper, retried, failed, health, commands,
                   events, caller, tries, budget>>

\* The poll returns data.
PollData ==
    /\ task = "polling"
    /\ task' = "select" /\ zero' = 0
    /\ Observe(proto)
    /\ UNCHANGED <<setting, link, helper, retried, failed, commands, events,
                   caller, tries, budget>>

\* The poll returns nothing: a polled channel is disconnected at the threshold.
PollEmpty ==
    /\ task = "polling"
    /\ task' = "select"
    /\ LET counts == ~eventDriven /\ ZeroThreshold > 0
       IN  IF counts /\ zero + 1 >= ZeroThreshold
           THEN zero' = 0 /\ Disconnect /\ Observe(FALSE)
           ELSE /\ zero' = IF counts THEN zero + 1 ELSE zero
                /\ Observe(proto)
                /\ UNCHANGED <<proto, streaming, events>>
    /\ UNCHANGED <<setting, phase, helper, retried, failed, commands, caller,
                   tries, budget>>

\* handle_disconnected in the Failed state: either the cooldown has elapsed and
\* a recovery round is left, or the failure is reported.
TickFailed ==
    /\ Tick /\ ~proto /\ helper.state = "Failed"
    /\ \/ helper.rounds < MaxRounds /\ helper' = Recovered(helper) /\ failed' = FALSE
       \/ UNCHANGED helper /\ failed' = TRUE
    /\ Observe(FALSE)
    /\ UNCHANGED <<setting, task, link, retried, zero, commands, events, caller,
                   tries, budget>>

\* handle_disconnected in the Connected and Disconnected states: mark_disconnected
\* and record_attempt.  In the Reconnecting state it returns at once.
TickDisconnected ==
    /\ Tick /\ ~proto /\ helper.state \in {"Connected", "Disconnected"}
    /\ IF AttemptsExhausted(helper)
       THEN /\ helper' = AttemptRefused(helper)
            /\ Observe(FALSE)
            /\ UNCHANGED <<task, phase, retried, tries>>
       ELSE /\ helper' = AttemptRecorded(helper)
            /\ tries' = tries + 1 /\ retried' = TRUE
            /\ IF retried THEN task' = "backoff" /\ UNCHANGED phase
                          ELSE task' = "connecting" /\ phase' = "connect"
            /\ UNCHANGED health
    /\ UNCHANGED <<setting, proto, streaming, failed, zero, commands, events,
                   caller, budget>>

BackoffElapses ==
    /\ task = "backoff"
    /\ task' = "connecting" /\ phase' = "connect"
    /\ UNCHANGED <<setting, proto, streaming, helper, retried, failed, health,
                   zero, commands, events, caller, tries, budget>>

\* handle_backoff_command: the attempt that was recorded is not made.
BackoffCommand ==
    /\ task = "backoff" /\ commands # <<>>
    /\ commands' = Tail(commands)
    /\ \/ /\ Head(commands) = "connect"
          /\ task' = "backoffCommanding" /\ phase' = "connect"
          /\ UNCHANGED <<proto, streaming, events, health>>
       \/ /\ Head(commands) = "shutdown"
          /\ task' = "stopping"
          /\ Observe(proto)
          /\ UNCHANGED <<link, events>>
       \/ /\ Head(commands) = "disconnect"
          /\ task' = "select"
          /\ Disconnect /\ Observe(FALSE)
          /\ UNCHANGED phase
       \/ /\ Head(commands) = "log"
          /\ task' = "select"
          /\ Observe(proto)
          /\ UNCHANGED <<link, events>>
    /\ UNCHANGED <<setting, helper, retried, failed, zero, caller, tries, budget>>

\* After the loop: stop the events, disconnect, and publish offline.
Exit ==
    /\ task = "stopping"
    /\ task' = "exited"
    /\ proto' = FALSE /\ streaming' = FALSE /\ events' = <<>>
    /\ cached' = FALSE /\ PublishOnline(FALSE)
    /\ commands' = <<>>
    /\ UNCHANGED <<setting, phase, helper, retried, failed, prev, zero, caller,
                   tries, budget>>

(***************************************************************************)
(* Specification.  The caller's steps and the task's are driven by timers *)
(* and by the runtime's scheduler, so each is taken when it stays enabled; *)
(* faults and requests may never come.                                     *)
(***************************************************************************)

\* The health plane refuses writes while its writer is unavailable, its path has
\* been taken over, or its manifest does not name the channel yet.
PlaneCloses ==
    /\ writable /\ Fault
    /\ writable' = FALSE
    /\ UNCHANGED <<eventDriven, task, link, helper, retried, failed, health, zero,
                   commands, events, caller, tries>>

PlaneOpens ==
    /\ ~writable
    /\ writable' = TRUE
    /\ UNCHANGED <<eventDriven, task, link, helper, retried, failed, health, zero,
                   commands, events, caller, tries, budget>>

TaskStep ==
    \/ Start \/ TakeCommand \/ TakeEvent
    \/ TickConnected \/ PollData \/ TickFailed \/ TickDisconnected
    \/ BackoffElapses \/ BackoffCommand
    \/ TransportConnects \/ EventsStart \/ Exit

CallerStep == SendShutdown \/ TaskJoined \/ TaskAborted

Environment ==
    \/ ActivateNew \/ ActivateInstalled \/ Fence \/ ConnectTimesOut
    \/ \E c \in {"log", "disconnect"} : Command(c)
    \/ ConnectionLost \/ ConnectFails \/ AttemptTimesOut \/ PollEmpty
    \/ PlaneCloses \/ PlaneOpens

Next == TaskStep \/ CallerStep \/ Environment

Spec == Init /\ [][Next]_vars

FairSpec == Spec /\ WF_vars(TaskStep) /\ WF_vars(CallerStep)

(***************************************************************************)
(* Properties.                                                             *)
(***************************************************************************)

\* The state of the task, its helper and its queues is well formed.
TypeOK ==
    /\ eventDriven \in BOOLEAN
    /\ task \in Running \union {"absent", "exited", "aborted"}
    /\ phase \in {"idle", "connect", "start"} /\ (phase # "idle" <=> task \in Connecting)
    /\ proto \in BOOLEAN /\ streaming \in BOOLEAN /\ (streaming => proto)
    /\ helper.state \in {"Connected", "Disconnected", "Reconnecting", "Failed"}
    /\ MaxAttempts > 0 => helper.attempt \in 0..MaxAttempts
    /\ helper.rounds \in 0..MaxRounds
    /\ {retried, failed, cached, online, writable, missed} \subseteq BOOLEAN
    /\ prev \in {<<>>, <<TRUE>>, <<FALSE>>}
    /\ zero = 0 \/ zero < ZeroThreshold
    /\ Len(commands) <= QueueCapacity /\ Len(events) <= EventCapacity
    /\ caller \in {"idle", "waiting", "removing", "joining"}
    /\ tries \in Nat /\ faults \in 0..MaxFaults /\ requests \in 0..MaxRequests

\* An unreachable device is tried max_attempts times per round and in
\* max_recovery_rounds further rounds, and no more, whatever commands arrive in
\* between (AutoRecoveryPolicy: "up to `max_recovery_rounds` times before giving
\* up permanently").
EffortBounded == MaxAttempts > 0 => tries <= MaxAttempts * (MaxRounds + 1)

\* reconnect_failed is reported only while the helper has really given up: a
\* reconnection by command, by attempt or by recovery takes the report back.
FailureReportHonest == failed /\ ~Gone => helper.state = "Failed"

\* prev_online suppresses the writes of the task, so it must agree with what the
\* health plane holds unless the plane refused a write, also when an earlier task
\* of the channel was aborted and left it online; and a task that ran to its end
\* leaves the channel offline.
HealthPlaneTracked ==
    /\ ~Gone /\ task # "starting" /\ ~missed => prev = <<online>>
    /\ task = "exited" /\ ~missed => ~online

\* The helper says Reconnecting, nobody is: a command taken in the backoff
\* consumed the attempt, and every later tick returns at once.
Stranded == task = "select" /\ helper.state = "Reconnecting" /\ ~proto

\* All attempts and all recovery rounds are used up.
GaveUp == helper.state = "Failed" /\ helper.rounds = MaxRounds

\* Once faults cease, an installed channel gets its connection back, unless it
\* gave up after its last round or is stranded by a command in the backoff.
Recovers == []<>(Gone \/ proto \/ GaveUp \/ Stranded)

\* Once faults and requests cease, the cached state and the health plane settle
\* on the protocol's own state, also after stale or dropped ConnectionChanged
\* events; the plane stays behind only where it refused the task's last write.
HealthConverges ==
    <>[](Gone \/ Stranded \/ (cached = proto /\ (online = proto \/ missed)))

\* Every activation and every fence returns: the task answers Connect in
\* whichever branch it takes it, and a fence ends in a join or an abort.
CallerReturns == []<>(caller = "idle")

\* What the task reports of itself is true, and its effort is bounded.
TaskAccountable == TypeOK /\ EffortBounded /\ FailureReportHonest /\ HealthPlaneTracked

\* Connection, cached state and health plane come to agree once faults cease.
TaskConverges == Recovers /\ HealthConverges
=============================================================================
