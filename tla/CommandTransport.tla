-------------------------- MODULE CommandTransport --------------------------
(***************************************************************************)
(* How a command reaches a device once it is mirrored into SHM:            *)
(* CommandNotifier of libs/aether-shm-bridge/src/command_sink.rs writes a  *)
(* fixed frame to a Unix stream; ShmCommandListener of                     *)
(* services/io/src/core/channels/shm_listener.rs has a task per connection *)
(* that reads frames, drops expired, stale and duplicate ones and offers   *)
(* the rest to the bounded queue of the channel; the channel task checks   *)
(* the command again and writes it to the device.                          *)
(*                                                                         *)
(* A frame crosses the socket as two halves, so that a write can stop in   *)
(* the middle of it.  Time is left out but for two facts: which commands   *)
(* have expired and whether the notifier waits out its reconnect backoff.  *)
(* One channel is modelled; every point of Points belongs to it.           *)
(***************************************************************************)
EXTENDS Integers, Sequences, FiniteSets

CONSTANTS
  Commands,        \* commands to be notified, each at most once
  Points,          \* the (channel, kind, point) keys of last_sequences
  PointOf,         \* the target of each command
  SeqModulus,      \* the sequence counter is a u64; here it is modulo this
  Starts,          \* values next_sequence may have when the model starts
  WireCapacity,    \* halves a socket buffer holds
  QueueCapacity,   \* capacity of the business command queue
  Workers,         \* worker threads of the IO runtime
  MaxFaults        \* bound on faults: expiries, timeouts, stops and removals

ASSUME TransportAssumption ==
  /\ PointOf \in [Commands -> Points]
  /\ SeqModulus \in Nat /\ SeqModulus > 4
  /\ Starts \subseteq 1 .. SeqModulus - 1
  /\ WireCapacity \in Nat \ {0, 1} /\ QueueCapacity \in Nat \ {0}
  /\ Workers \in Nat \ {0} /\ MaxFaults \in Nat

\* The counter never gets half way round: for a u64, 2^63 - 1 commands.
ASSUME WindowAssumption ==
  IsFiniteSet(Commands) /\ Cardinality(Commands) <= (SeqModulus - 1) \div 2

SendRetries == 3   \* CommandNotifier::SEND_RETRIES

VARIABLES
  expired,    \* commands whose expires_at has passed
  notifier,   \* the CommandNotifier: producer, next_sequence, stream, backoff
  call,       \* the notify call that holds the notifier's mutex
  outcome,    \* what notify answered for each command
  frame,      \* the frame of each command that has one
  order,      \* commands in the order in which they took a sequence number
  wire,       \* the bytes in each connection, as halves of frames
  ends,       \* the ends of each connection that are open
  task,       \* the listener's task of each connection
  last,       \* last_sequences
  queue,      \* the business command queue
  channel,    \* the life of the channel, and of the worker that removes it
  settled,    \* what became of each command at the IO side
  io,         \* whether the IO process is listening
  faults      \* faults so far

vars == <<expired, notifier, call, outcome, frame, order, wire, ends, task, last,
          queue, channel, settled, io, faults>>

\* No connection is replaced without a fault.
Connections == 1 .. MaxFaults + 1
NoConnection == 0
Producers == 1 .. MaxFaults + 1
Frames == [cmd : Commands, producer : Producers, seq : 0 .. SeqModulus - 1]
NoFrame == [cmd |-> "none", producer |-> 0, seq |-> 0]
Idle == [pc |-> "idle"]
Call(pc, c, attempt) ==
  [pc |-> pc, cmd |-> c, attempt |-> attempt, stream |-> NoConnection, written |-> 0]

\* The halves of a frame, in the order write_all sends them.
Halves(f) == <<[frame |-> f, half |-> 1], [frame |-> f, half |-> 2]>>

\* Dropping a UnixStream closes the sending end; what was written stays readable.
Dropped(k) == [j \in Connections |-> IF j = k THEN ends[j] \ {"tx"} ELSE ends[j]]

Init ==
  /\ expired = {}
  /\ \E s \in Starts : notifier = [producer |-> 1, next |-> s, stream |-> 1, cooling |-> FALSE]
  /\ call = Idle
  /\ outcome = [c \in Commands |-> "new"]
  /\ frame = [c \in Commands |-> NoFrame]
  /\ order = <<>>
  /\ wire = [k \in Connections |-> <<>>]
  /\ ends = [k \in Connections |-> IF k = 1 THEN {"tx", "rx"} ELSE {}]
  /\ task = [k \in Connections |->
               [pc |-> IF k = 1 THEN "read" ELSE "none", frame |-> NoFrame]]
  /\ last = [p \in Points |-> NoFrame]
  /\ queue = <<>>
  /\ channel = "up"
  /\ settled = [c \in Commands |-> "none"]
  /\ io = TRUE
  /\ faults = 0

listenerVars == <<task, last, queue, channel, settled, io>>

Fault(n) == faults' = faults + n /\ faults' <= MaxFaults

-----------------------------------------------------------------------------
(* The notifier *)

(***************************************************************************)
(* try_reconnect: nothing to do, or not yet; refused (the backoff starts   *)
(* again and the caller goes on without a stream); timed out (the caller   *)
(* fails); or connected, to a listener whose accept loop starts a task.    *)
(***************************************************************************)
Fresh == {k \in Connections : task[k].pc = "none" /\ \A j \in 1 .. k - 1 : task[j].pc # "none"}

Reconnects(n) ==
  IF n.stream # NoConnection \/ n.cooling
    THEN {[notifier |-> n, ok |-> TRUE, new |-> {}, faults |-> 0]}
    ELSE {[notifier |-> [n EXCEPT !.cooling = TRUE], ok |-> ok, new |-> {},
           faults |-> IF io THEN 1 ELSE 0] : ok \in BOOLEAN}
           \cup {[notifier |-> [n EXCEPT !.stream = k], ok |-> TRUE, new |-> {k}, faults |-> 0]
                   : k \in {j \in Fresh : io}}

Connected(new) ==
  /\ ends' = [k \in Connections |-> IF k \in new THEN {"tx", "rx"} ELSE ends[k]]
  /\ task' = [k \in Connections |-> IF k \in new THEN [task[k] EXCEPT !.pc = "read"] ELSE task[k]]

Answer(c, result) ==
  /\ outcome' = [outcome EXCEPT ![c] = result]
  /\ call' = Idle

\* send has the notifier's mutex: the command is validated again.
Begin(c) ==
  /\ call = Idle /\ outcome[c] = "new"
  /\ IF c \in expired
       THEN Answer(c, "failed")
       ELSE call' = Call("connect", c, 0) /\ UNCHANGED outcome
  /\ UNCHANGED <<expired, notifier, frame, order, wire, ends, listenerVars, faults>>

(***************************************************************************)
(* notify up to its loop: reconnect, check the deadline, take a sequence   *)
(* number (wrapping_add(1).max(1) for the next one) and encode the frame.  *)
(***************************************************************************)
NextSequence(s) == IF s + 1 = SeqModulus THEN 1 ELSE s + 1

TakeSequence ==
  /\ call.pc = "connect"
  /\ \E r \in Reconnects(notifier) :
       LET c == call.cmd IN
       /\ Connected(r.new) /\ Fault(r.faults)
       /\ IF ~r.ok \/ c \in expired
            THEN /\ notifier' = r.notifier
                 /\ Answer(c, "failed")
                 /\ UNCHANGED <<frame, order>>
            ELSE /\ notifier' = [r.notifier EXCEPT !.next = NextSequence(@)]
                 /\ frame' = [frame EXCEPT ![c] = [cmd |-> c, producer |-> notifier.producer,
                                                   seq |-> notifier.next]]
                 /\ order' = Append(order, c)
                 /\ call' = Call("attempt", c, 0)
                 /\ UNCHANGED outcome
  /\ UNCHANGED <<expired, wire, last, queue, channel, settled, io>>

\* One attempt: deadline, reconnect, and the stream is taken out of the notifier.
Attempt ==
  /\ call.pc = "attempt"
  /\ \/ /\ call.cmd \in expired
        /\ Answer(call.cmd, "failed")
        /\ UNCHANGED <<notifier, ends, task, faults>>
     \/ /\ call.cmd \notin expired
        /\ \E r \in Reconnects(notifier) :
             /\ Connected(r.new) /\ Fault(r.faults)
             /\ IF ~r.ok \/ r.notifier.stream = NoConnection
                  THEN Answer(call.cmd, "failed") /\ notifier' = r.notifier
                  ELSE /\ call' = [call EXCEPT !.pc = "write", !.stream = r.notifier.stream,
                                               !.written = 0]
                       /\ notifier' = [r.notifier EXCEPT !.stream = NoConnection]
                       /\ UNCHANGED outcome
  /\ UNCHANGED <<expired, frame, order, wire, last, queue, channel, settled, io>>

\* write_all moves bytes into the socket buffer; with the last ones notify is done.
WriteHalf ==
  /\ call.pc = "write"
  /\ "rx" \in ends[call.stream] /\ Len(wire[call.stream]) < WireCapacity
  /\ wire' = [wire EXCEPT ![call.stream] = Append(@, Halves(frame[call.cmd])[call.written + 1])]
  /\ IF call.written = 0
       THEN call' = [call EXCEPT !.written = 1] /\ UNCHANGED <<outcome, notifier, ends>>
       ELSE /\ Answer(call.cmd, "sent")
            /\ notifier' = [notifier EXCEPT !.stream = call.stream]
            /\ UNCHANGED ends
  /\ UNCHANGED <<expired, frame, order, listenerVars, faults>>

(***************************************************************************)
(* The write failed (the reader is gone) or timed out.  The stream is      *)
(* dropped with whatever part of the frame it holds; the next attempt      *)
(* connects at once, after the last one the backoff starts.                *)
(***************************************************************************)
WriteFails ==
  /\ call.pc = "write"
  /\ Fault(IF "rx" \in ends[call.stream] THEN 1 ELSE 0)
  /\ ends' = Dropped(call.stream)
  /\ IF call.attempt + 1 < SendRetries
       THEN /\ call' = Call("attempt", call.cmd, call.attempt + 1)
            /\ notifier' = [notifier EXCEPT !.cooling = FALSE]
            /\ UNCHANGED outcome
       ELSE /\ Answer(call.cmd, "failed")
            /\ notifier' = [notifier EXCEPT !.cooling = TRUE]
  /\ UNCHANGED <<expired, frame, order, wire, listenerVars>>

\* Mutant of NotifyTimesOut: the stream of the interrupted write is used again.
NotifyTimesOutKeepsStream ==
  /\ call # Idle /\ Fault(1)
  /\ Answer(call.cmd, "failed")
  /\ IF call.pc = "write"
       THEN notifier' = [notifier EXCEPT !.stream = call.stream] /\ UNCHANGED ends
       ELSE /\ notifier' = [notifier EXCEPT !.stream = NoConnection, !.cooling = TRUE]
            /\ ends' = Dropped(notifier.stream)
  /\ UNCHANGED <<expired, frame, order, wire, listenerVars>>

\* UDS_NOTIFY_TIMEOUT of send: the call is cancelled and disconnect(false) called.
NotifyTimesOut ==
  /\ call # Idle /\ Fault(1)
  /\ Answer(call.cmd, "failed")
  /\ notifier' = [notifier EXCEPT !.stream = NoConnection, !.cooling = TRUE]
  /\ ends' = Dropped(IF call.pc = "write" THEN call.stream ELSE notifier.stream)
  /\ UNCHANGED <<expired, frame, order, wire, listenerVars>>

\* The caller drops the future of send: only a stream the call owns goes with it.
CallDropped ==
  /\ call # Idle /\ Fault(1)
  /\ Answer(call.cmd, "failed")
  /\ ends' = Dropped(call.stream)
  /\ UNCHANGED <<expired, notifier, frame, order, wire, listenerVars>>

BackoffElapses ==
  /\ notifier.cooling
  /\ notifier' = [notifier EXCEPT !.cooling = FALSE]
  /\ UNCHANGED <<expired, call, outcome, frame, order, wire, ends, listenerVars, faults>>

Expire(c) ==
  /\ c \notin expired /\ Fault(1)
  /\ expired' = expired \cup {c}
  /\ UNCHANGED <<notifier, call, outcome, frame, order, wire, ends, listenerVars>>

\* The automation process stops, with any call it was in, and starts again.
AutomationRestarts ==
  /\ Fault(1)
  /\ call' = Idle
  /\ outcome' = [c \in Commands |-> IF call # Idle /\ call.cmd = c THEN "failed" ELSE outcome[c]]
  /\ ends' = [k \in Connections |-> ends[k] \ {"tx"}]
  /\ notifier' = [producer |-> notifier.producer + 1, next |-> 1,
                  stream |-> NoConnection, cooling |-> FALSE]
  /\ UNCHANGED <<expired, frame, order, wire, task, last, queue, channel, settled, io>>

-----------------------------------------------------------------------------
(* The listener *)

notifierVars == <<expired, notifier, call, outcome, frame, order>>

(***************************************************************************)
(* DashMap guards its shard with a blocking lock: while a task waits in    *)
(* send it holds the sender it looked up, and a worker thread that adds or *)
(* removes a channel waits in that lock, running nothing else.             *)
(***************************************************************************)
Sending == {k \in Connections : task[k].pc = "sending"}
Running == io /\ (channel \in {"registering", "unregistering"} => Workers > 1)

Settle(c, how) == settled' = [settled EXCEPT ![c] = how]
ToRead(k) == task' = [task EXCEPT ![k] = [pc |-> "read", frame |-> NoFrame]]

\* Mutant of IsStale: sequence numbers compared as if they never wrapped.
IsStaleUnwrapped(f, l) == f.producer = l.producer /\ f.seq < l.seq

IsStale(f, l) ==
  f.producer = l.producer /\ (f.seq - l.seq) % SeqModulus > (SeqModulus - 1) \div 2

SequenceKey(c) == PointOf[c]

(***************************************************************************)
(* handle_connection reads a whole frame; handle_notification drops it if  *)
(* it has expired, is older than the last one of its producer for this     *)
(* point or is that one again, and otherwise records it as the last one.   *)
(***************************************************************************)
Handle(k, f) ==
  LET p == SequenceKey(f.cmd) IN
  \/ /\ f.cmd \in expired
     /\ Settle(f.cmd, "expired") /\ ToRead(k) /\ UNCHANGED last
  \/ /\ f.cmd \notin expired /\ IsStale(f, last[p])
     /\ Settle(f.cmd, "stale") /\ ToRead(k) /\ UNCHANGED last
  \/ /\ f.cmd \notin expired /\ f.producer = last[p].producer /\ f.seq = last[p].seq
     /\ Settle(f.cmd, "duplicate") /\ ToRead(k) /\ UNCHANGED last
  \/ /\ f.cmd \notin expired /\ ~IsStale(f, last[p])
     /\ ~(f.producer = last[p].producer /\ f.seq = last[p].seq)
     /\ last' = [last EXCEPT ![p] = f]
     /\ task' = [task EXCEPT ![k] = [pc |-> "recorded", frame |-> f]]
     /\ UNCHANGED settled

ReadFrame(k) ==
  /\ Running /\ task[k].pc = "read" /\ Len(wire[k]) >= 2
  /\ wire' = [wire EXCEPT ![k] = SubSeq(@, 3, Len(@))]
  /\ Handle(k, wire[k][1].frame)
  /\ UNCHANGED <<notifierVars, ends, queue, channel, io, faults>>

\* The sender of the channel is looked up and the command offered to its queue.
Offer(k) ==
  /\ Running /\ task[k].pc = "recorded"
  /\ \/ /\ channel \notin {"up", "unregistering"}
        /\ Settle(task[k].frame.cmd, "unregistered") /\ ToRead(k) /\ UNCHANGED queue
     \/ /\ channel \in {"up", "unregistering"}
        /\ Len(queue) < QueueCapacity /\ Sending = {}
        /\ queue' = Append(queue, task[k].frame)
        /\ ToRead(k) /\ UNCHANGED settled
     \/ /\ channel \in {"up", "unregistering"}
        /\ Len(queue) = QueueCapacity \/ Sending # {}
        /\ task' = [task EXCEPT ![k].pc = "sending"]
        /\ UNCHANGED <<queue, settled>>
  /\ UNCHANGED <<notifierVars, wire, ends, last, channel, io, faults>>

\* A waiting send gets its place in the queue.
SendSucceeds(k) ==
  /\ Running /\ k \in Sending
  /\ Len(queue) < QueueCapacity
  /\ queue' = Append(queue, task[k].frame)
  /\ ToRead(k)
  /\ UNCHANGED <<notifierVars, wire, ends, last, channel, settled, io, faults>>

\* Mutant of SendTimesOut: the connection is given up along with the command.
SendTimesOutEndsTask(k) ==
  /\ Running /\ k \in Sending
  /\ Settle(task[k].frame.cmd, "full")
  /\ task' = [task EXCEPT ![k] = [pc |-> "ended", frame |-> NoFrame]]
  /\ UNCHANGED <<notifierVars, wire, ends, last, queue, channel, io, faults>>

\* 50 ms have passed: the command is dropped and counted.
SendTimesOut(k) ==
  /\ Running /\ k \in Sending
  /\ Settle(task[k].frame.cmd, "full")
  /\ ToRead(k)
  /\ UNCHANGED <<notifierVars, wire, ends, last, queue, channel, io, faults>>

\* read_exact meets the end of the stream; part of a frame is forgotten.
EndOfStream(k) ==
  /\ Running /\ task[k].pc = "read" /\ Len(wire[k]) < 2 /\ "tx" \notin ends[k]
  /\ task' = [task EXCEPT ![k].pc = "ended"]
  /\ ends' = [ends EXCEPT ![k] = {}]
  /\ wire' = [wire EXCEPT ![k] = <<>>]
  /\ UNCHANGED <<notifierVars, last, queue, channel, settled, io, faults>>

(***************************************************************************)
(* handle_business_command: the guard checks point, value and deadline     *)
(* immediately before the protocol writes to the device.                   *)
(***************************************************************************)
Execute ==
  /\ Running /\ channel \notin {"down", "registering"} /\ queue # <<>>
  /\ LET c == Head(queue).cmd IN Settle(c, IF c \in expired THEN "rejected" ELSE "executed")
  /\ queue' = Tail(queue)
  /\ UNCHANGED <<notifierVars, wire, ends, task, last, channel, io, faults>>

-----------------------------------------------------------------------------
(* The channel's life and the process's *)

SetChannel(from, to) ==
  /\ io /\ channel = from /\ channel' = to
  /\ UNCHANGED <<notifierVars, wire, ends, task, last, io>>

\* remove_channel calls unregister_channel: the worker is in the map's lock.
RemoveChannel ==
  /\ Fault(1)
  /\ SetChannel("up", "unregistering") /\ UNCHANGED <<queue, settled>>

UnregisterChannel ==
  /\ Sending = {}
  /\ SetChannel("unregistering", "stopping") /\ UNCHANGED <<queue, settled, faults>>

\* The channel task has exited, or was aborted; its queue is gone.
ChannelStops ==
  /\ Running
  /\ SetChannel("stopping", "down")
  /\ queue' = <<>>
  /\ settled' = [c \in Commands |-> IF \E i \in DOMAIN queue : queue[i].cmd = c
                                      THEN "lost" ELSE settled[c]]
  /\ UNCHANGED faults

CreateChannel ==
  /\ Running
  /\ SetChannel("down", "registering") /\ UNCHANGED <<queue, settled, faults>>

RegisterChannel ==
  /\ Sending = {}
  /\ SetChannel("registering", "up") /\ UNCHANGED <<queue, settled, faults>>

\* The IO process stops: connections, queue and last_sequences are gone.
IoStops ==
  /\ io /\ Fault(1)
  /\ io' = FALSE
  /\ wire' = [k \in Connections |-> <<>>]
  /\ ends' = [k \in Connections |-> ends[k] \ {"rx"}]
  /\ task' = [k \in Connections |->
                [pc |-> IF task[k].pc = "none" THEN "none" ELSE "ended", frame |-> NoFrame]]
  /\ last' = [p \in Points |-> NoFrame]
  /\ queue' = <<>> /\ channel' = "down"
  /\ settled' = [c \in Commands |->
                   IF outcome[c] = "sent" /\ settled[c] = "none" THEN "lost" ELSE settled[c]]
  /\ UNCHANGED notifierVars

\* A new process binds the socket (run removes a stale one) and creates its channels.
IoStarts ==
  /\ ~io
  /\ io' = TRUE /\ channel' = "up"
  /\ UNCHANGED <<notifierVars, wire, ends, task, last, queue, settled, faults>>

Notify == TakeSequence \/ Attempt \/ WriteHalf \/ WriteFails \/ NotifyTimesOut \/ CallDropped

Listen(k) ==
  ReadFrame(k) \/ Offer(k) \/ SendSucceeds(k) \/ SendTimesOut(k) \/ EndOfStream(k)

Manage == UnregisterChannel \/ ChannelStops \/ CreateChannel \/ RegisterChannel

Next ==
  \/ \E c \in Commands : Begin(c) \/ Expire(c)
  \/ Notify \/ BackoffElapses \/ AutomationRestarts
  \/ \E k \in Connections : Listen(k)
  \/ Execute
  \/ RemoveChannel \/ Manage
  \/ IoStops \/ IoStarts

Spec == Init /\ [][Next]_vars

(***************************************************************************)
(* Tasks that are ready are polled, and the channel task returns from      *)
(* whatever it waits for: every wait in it has a timeout.  A waiting send  *)
(* has either a place or its own timeout.                                  *)
(***************************************************************************)
FairSpec ==
  /\ Spec
  /\ \A k \in Connections :
       WF_vars(ReadFrame(k) \/ Offer(k) \/ SendSucceeds(k) \/ SendTimesOut(k))
  /\ WF_vars(Execute) /\ WF_vars(Manage)

-----------------------------------------------------------------------------
TypeOK ==
  /\ expired \subseteq Commands
  /\ notifier \in [producer : Producers, next : 1 .. SeqModulus - 1,
                   stream : Connections \cup {NoConnection}, cooling : BOOLEAN]
  /\ \A c \in Commands : frame[c] \in Frames \cup {NoFrame}
  /\ \A k \in Connections : Len(wire[k]) <= WireCapacity /\ ends[k] \subseteq {"tx", "rx"}
  /\ Len(queue) <= QueueCapacity
  /\ call # Idle => call.attempt < SendRetries

(***************************************************************************)
(* "Cancellation may interrupt write_all after a partial fixed frame":     *)
(* whatever is cancelled, times out or fails, the bytes of a connection    *)
(* are whole frames followed by at most one half, so the listener never    *)
(* decodes a frame from the bytes of two.                                  *)
(***************************************************************************)
FramesIntact ==
  \A k \in Connections : \A i \in DOMAIN wire[k] :
    IF i % 2 = 1
      THEN wire[k][i].half = 1
      ELSE wire[k][i - 1].half = 1 /\ wire[k][i] = [wire[k][i - 1] EXCEPT !.half = 2]

(***************************************************************************)
(* A notify that reported an error, after any number of attempts on any    *)
(* number of connections, has not caused the command: no attempt that was  *)
(* given up left a whole frame for the listener.                           *)
(***************************************************************************)
FailedNeverReachIo ==
  \A c \in Commands : outcome[c] = "failed" => settled[c] = "none"

(***************************************************************************)
(* For one producer and one point, the listener accepts commands in the    *)
(* order in which they took their sequence numbers, although connections   *)
(* overtake each other and the counter wraps.                              *)
(***************************************************************************)
Position(c) == CHOOSE i \in DOMAIN order : order[i] = c

NewestAccepted ==
  \A p \in Points :
    last'[p] # last[p] /\ NoFrame \notin {last[p], last'[p]} /\ last'[p].producer = last[p].producer
      => Position(last[p].cmd) < Position(last'[p].cmd)

(***************************************************************************)
(* A command is dropped as stale or duplicate only in favour of a newer    *)
(* one of the same producer for the same point that IO has accepted.       *)
(***************************************************************************)
StaleOnlyIfNewer ==
  \A c \in Commands : settled[c] \in {"stale", "duplicate"} =>
    \E d \in Commands :
      /\ PointOf[d] = PointOf[c] /\ frame[d].producer = frame[c].producer
      /\ outcome[d] = "sent" /\ Position(c) < Position(d)

(***************************************************************************)
(* Every frame handed to the socket is settled: executed, or dropped for   *)
(* one of the listener's reasons, or lost with the process or the queue    *)
(* that held it.  No full queue, removed channel or ended connection       *)
(* leaves one waiting for ever.  (A command is sent and settled once, so   *)
(* that again and again none is waiting says that each is settled.)        *)
(***************************************************************************)
CommandsSettle ==
  []<>(\A c \in Commands : outcome[c] = "sent" => settled[c] # "none")

(***************************************************************************)
(* One producer's commands for one point take effect in issue order: none  *)
(* is accepted after a newer one, and none is dropped but for a newer one. *)
(***************************************************************************)
IssueOrderKept == [][NewestAccepted /\ StaleOnlyIfNewer']_vars

(***************************************************************************)
(* A connection carries whole frames, and a command reported as failed is  *)
(* in none of them.                                                        *)
(***************************************************************************)
FailuresHarmless == TypeOK /\ FramesIntact /\ FailedNeverReachIo
=============================================================================
