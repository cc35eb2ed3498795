----------------------- MODULE CommandTransportProofs -----------------------
(***************************************************************************)
(* Proofs that CommandTransport keeps commands whole and in order, for any *)
(* number of commands, points, connections and faults, any capacities and  *)
(* any width of the sequence counter.                                      *)
(*                                                                         *)
(* That a command reported as failed never reaches the IO side             *)
(* (FailuresAlwaysHarmless) rests on who may write to a connection: the    *)
(* notifier keeps only streams that end at a boundary of frames, a call    *)
(* that wrote part of a frame owns its stream until it is dropped          *)
(* (StreamInv, WireInv), and the last half is written with the answer      *)
(* (SentInv).                                                              *)
(*                                                                         *)
(* That the order of issue is kept (IssueOrderAlwaysKept) needs in         *)
(* addition that a command takes one number (OrderInv), that numbers lie   *)
(* as far apart as their commands in the order of issue, around the wrap   *)
(* as well (NumberInv), and that a whole frame is there once and was not   *)
(* accepted before (CarriedInv).                                           *)
(***************************************************************************)
EXTENDS CommandTransport, FiniteSetTheorems, TLAPS

CallStates ==
  [pc : {"connect", "attempt", "write"}, cmd : Commands, attempt : 0 .. SendRetries - 1,
   stream : Connections \cup {NoConnection}, written : {0, 1}]
HalfStates == [frame : Frames, half : {1, 2}]
TaskStates == [pc : {"none", "read", "recorded", "sending", "ended"}, frame : Frames \cup {NoFrame}]
Settlements ==
  {"none", "expired", "stale", "duplicate", "unregistered", "full", "executed", "rejected", "lost"}
NotifierStates ==
  [producer : Producers, next : 1 .. SeqModulus - 1, stream : Connections \cup {NoConnection},
   cooling : BOOLEAN]

NotifierInv ==
  /\ expired \subseteq Commands /\ faults \in 0 .. MaxFaults
  /\ notifier \in NotifierStates /\ notifier.producer <= faults + 1
  /\ outcome \in [Commands -> {"new", "sent", "failed"}]
  /\ frame \in [Commands -> Frames \cup {NoFrame}]
  /\ call = Idle \/ (call \in CallStates /\ outcome[call.cmd] = "new")
  /\ call.pc \in {"attempt", "write"} => frame[call.cmd] \in Frames /\ frame[call.cmd].cmd = call.cmd

\* Who may write to a connection: the notifier has its stream, or the call has taken it.
StreamInv ==
  /\ ends \in [Connections -> SUBSET {"tx", "rx"}]
  /\ task \in [Connections -> TaskStates]
  /\ notifier.stream # NoConnection =>
       "tx" \in ends[notifier.stream] /\ task[notifier.stream].pc # "none"
  /\ call.pc = "write" =>
       /\ call.stream \in Connections /\ notifier.stream = NoConnection
       /\ "tx" \in ends[call.stream] /\ task[call.stream].pc # "none"
  /\ call # Idle /\ call.pc # "write" => call.stream = NoConnection

\* One connection carries whole frames and at most one half.
Intact(w) ==
  \A i \in DOMAIN w :
    IF i % 2 = 1
      THEN w[i].half = 1
      ELSE w[i - 1].half = 1 /\ w[i] = [w[i - 1] EXCEPT !.half = 2]

\* A connection as the notifier keeps it, and as the call that writes to it left it.
AtBoundary(w) == Len(w) % 2 = 0
InFrame(w, f) == Len(w) % 2 = 1 /\ w[Len(w)] = [frame |-> f, half |-> 1]

WireInv ==
  /\ wire \in [Connections -> Seq(HalfStates)]
  /\ \A k \in Connections :
       /\ Len(wire[k]) <= WireCapacity /\ Intact(wire[k])
       /\ task[k].pc = "none" => wire[k] = <<>>
  /\ notifier.stream # NoConnection /\ "rx" \in ends[notifier.stream] => AtBoundary(wire[notifier.stream])
  /\ call.pc = "write" /\ "rx" \in ends[call.stream] =>
       IF call.written = 0
         THEN AtBoundary(wire[call.stream])
         ELSE InFrame(wire[call.stream], frame[call.cmd])

\* What the listener can see of a command was reported as sent.
SentInv ==
  /\ \A k \in Connections : \A i \in DOMAIN wire[k] :
       wire[k][i].half = 2 => outcome[wire[k][i].frame.cmd] = "sent"
  /\ \A k \in Connections : task[k].pc \in {"recorded", "sending"} =>
       task[k].frame \in Frames /\ outcome[task[k].frame.cmd] = "sent"
  /\ queue \in Seq(Frames) /\ Len(queue) <= QueueCapacity
  /\ \A i \in DOMAIN queue : outcome[queue[i].cmd] = "sent"
  /\ settled \in [Commands -> Settlements]
  /\ \A c \in Commands : settled[c] # "none" => outcome[c] = "sent"

TransportInv == NotifierInv /\ StreamInv /\ WireInv /\ SentInv

-----------------------------------------------------------------------------
(* Halves *)

\* What is behind the first n elements.
LEMMA Rest ==
  ASSUME NEW S, NEW s \in Seq(S), NEW n \in 0 .. Len(s)
  PROVE  LET t == SubSeq(s, n + 1, Len(s))
         IN  t \in Seq(S) /\ Len(t) = Len(s) - n /\ \A i \in 1 .. Len(s) - n : t[i] = s[n + i]
OBVIOUS

\* The first half of a frame, written at a boundary, leaves the connection inside that
\* frame.
LEMMA FirstHalf ==
  ASSUME NEW w \in Seq(HalfStates), Intact(w), AtBoundary(w), NEW f \in Frames
  PROVE  LET v == Append(w, Halves(f)[1])
         IN  v \in Seq(HalfStates) /\ Len(v) = Len(w) + 1 /\ Intact(v) /\ InFrame(v, f)
             /\ \A i \in DOMAIN v : v[i].half = 2 => i \in DOMAIN w /\ v[i] = w[i]
<1> DEFINE h == [frame |-> f, half |-> 1]
           v == Append(w, h)
<1>1. Halves(f)[1] = h /\ h \in HalfStates /\ h.half = 1
  BY DEF Halves, HalfStates
<1> HIDE DEF h
<1>2. /\ v \in Seq(HalfStates) /\ Len(v) = Len(w) + 1 /\ DOMAIN v = 1 .. Len(w) + 1 /\ DOMAIN w = 1 .. Len(w)
      /\ v[Len(w) + 1] = h /\ \A i \in 1 .. Len(w) : v[i] = w[i]
  BY <1>1
<1> HIDE DEF v
<1>3. Len(w) \in Nat /\ Len(w) % 2 = 0 /\ (Len(w) + 1) % 2 = 1
  BY DEF AtBoundary
<1>4. Intact(v)
  <2> SUFFICES ASSUME NEW i \in 1 .. Len(w) + 1
               PROVE  IF i % 2 = 1 THEN v[i].half = 1
                      ELSE v[i - 1].half = 1 /\ v[i] = [v[i - 1] EXCEPT !.half = 2]
    BY <1>2, Zenon DEF Intact
  <2>1. CASE i = Len(w) + 1
    BY <1>1, <1>2, <1>3, <2>1
  <2>2. CASE i # Len(w) + 1
    <3>1. i \in 1 .. Len(w) /\ (i % 2 # 1 => i - 1 \in 1 .. Len(w))
      BY <1>3, <2>2
    <3>2. v[i] = w[i] /\ (i % 2 # 1 => v[i - 1] = w[i - 1])
      BY <1>2, <3>1, Zenon
    <3>3. QED
      BY <1>2, <3>1, <3>2, Zenon DEF Intact
  <2>3. QED
    BY <2>1, <2>2
<1>5. InFrame(v, f)
  BY <1>2, <1>3 DEF InFrame, h
<1>6. \A i \in DOMAIN v : v[i].half = 2 => i \in DOMAIN w /\ v[i] = w[i]
  <2>1. \A i \in 1 .. Len(w) + 1 : i = Len(w) + 1 \/ i \in 1 .. Len(w)
    BY <1>3
  <2>2. 1 # 2
    OBVIOUS
  <2>3. QED
    BY <1>1, <1>2, <2>1, <2>2, Zenon
<1>7. QED
  BY <1>1, <1>2, <1>4, <1>5, <1>6, Zenon DEF v

\* The second half of the frame it is inside brings a connection back to a boundary.
LEMMA SecondHalf ==
  ASSUME NEW w \in Seq(HalfStates), Intact(w), NEW f \in Frames, InFrame(w, f)
  PROVE  LET v == Append(w, Halves(f)[2])
         IN  v \in Seq(HalfStates) /\ Len(v) = Len(w) + 1 /\ Intact(v) /\ AtBoundary(v)
             /\ \A i \in DOMAIN v : (i \in DOMAIN w /\ v[i] = w[i]) \/ (i \notin DOMAIN w /\ v[i].frame = f)
<1> DEFINE h == [frame |-> f, half |-> 2]
           v == Append(w, h)
<1>1. Halves(f)[2] = h /\ h \in HalfStates /\ h.frame = f
  BY ZenonT(30) DEF Halves, HalfStates
<1> HIDE DEF h
<1>2. /\ v \in Seq(HalfStates) /\ Len(v) = Len(w) + 1 /\ DOMAIN v = 1 .. Len(w) + 1 /\ DOMAIN w = 1 .. Len(w)
      /\ v[Len(w) + 1] = h /\ \A i \in 1 .. Len(w) : v[i] = w[i]
  BY <1>1
<1> HIDE DEF v
<1>3. Len(w) \in Nat /\ Len(w) % 2 = 1 /\ (Len(w) + 1) % 2 = 0 /\ Len(w) \in 1 .. Len(w)
  BY DEF InFrame
<1>4. Intact(v)
  <2> SUFFICES ASSUME NEW i \in 1 .. Len(w) + 1
               PROVE  IF i % 2 = 1 THEN v[i].half = 1
                      ELSE v[i - 1].half = 1 /\ v[i] = [v[i - 1] EXCEPT !.half = 2]
    BY <1>2, Zenon DEF Intact
  <2>1. CASE i = Len(w) + 1
    <3>1. i % 2 # 1 /\ i - 1 = Len(w)
      BY <1>3, <2>1
    <3>2. v[Len(w)] = [frame |-> f, half |-> 1]
      BY <1>2, <1>3, Zenon DEF InFrame
    <3>3. [[frame |-> f, half |-> 1] EXCEPT !.half = 2] = h /\ [frame |-> f, half |-> 1].half = 1
      BY DEF h
    <3>4. QED
      BY <1>2, <2>1, <3>1, <3>2, <3>3, Zenon
  <2>2. CASE i # Len(w) + 1
    <3>1. i \in 1 .. Len(w) /\ (i % 2 # 1 => i - 1 \in 1 .. Len(w))
      BY <1>3, <2>2
    <3>2. v[i] = w[i] /\ (i % 2 # 1 => v[i - 1] = w[i - 1])
      BY <1>2, <3>1, Zenon
    <3>3. QED
      BY <1>2, <3>1, <3>2, Zenon DEF Intact
  <2>3. QED
    BY <2>1, <2>2
<1>5. AtBoundary(v)
  BY <1>2, <1>3 DEF AtBoundary
<1>6. \A i \in DOMAIN v : (i \in DOMAIN w /\ v[i] = w[i]) \/ (i \notin DOMAIN w /\ v[i].frame = f)
  <2>1. \A i \in 1 .. Len(w) + 1 : (i = Len(w) + 1 /\ i \notin 1 .. Len(w)) \/ i \in 1 .. Len(w)
    BY <1>3
  <2>2. QED
    BY <1>1, <1>2, <2>1, Zenon
<1>7. QED
  BY <1>1, <1>2, <1>4, <1>5, <1>6, Zenon DEF v

\* Reading a frame takes two halves of one frame and leaves the rest as it is.
LEMMA FrameRead ==
  ASSUME NEW w \in Seq(HalfStates), Intact(w), Len(w) >= 2
  PROVE  LET v == SubSeq(w, 3, Len(w))
         IN  /\ v \in Seq(HalfStates) /\ Len(v) = Len(w) - 2 /\ Intact(v)
             /\ DOMAIN w = 1 .. Len(w) /\ DOMAIN v = 1 .. Len(w) - 2 /\ Len(w) \in Nat
             /\ \A i \in DOMAIN v : i + 2 \in DOMAIN w /\ v[i] = w[i + 2]
             /\ AtBoundary(w) => AtBoundary(v)
             /\ \A f \in Frames : InFrame(w, f) => InFrame(v, f)
             /\ w[1].frame \in Frames /\ 2 \in DOMAIN w /\ w[2].frame = w[1].frame /\ w[2].half = 2
<1> DEFINE v == SubSeq(w, 3, Len(w))
<1>1. /\ v \in Seq(HalfStates) /\ Len(v) = Len(w) - 2 /\ DOMAIN v = 1 .. Len(w) - 2 /\ DOMAIN w = 1 .. Len(w)
      /\ \A i \in 1 .. Len(w) - 2 : v[i] = w[i + 2]
  <2>1. 2 \in 0 .. Len(w) /\ 2 + 1 = 3
    OBVIOUS
  <2>2. /\ v \in Seq(HalfStates) /\ Len(v) = Len(w) - 2
        /\ \A i \in 1 .. Len(w) - 2 : v[i] = w[2 + i]
    BY <2>1, Rest, ZenonT(30)
  <2> HIDE DEF v
  <2>3. QED
    BY <2>2
<1> HIDE DEF v
<1>2. Len(w) \in Nat /\ \A i \in 1 .. Len(w) - 2 : i + 2 \in 1 .. Len(w)
  OBVIOUS
<1>3. Intact(v)
  <2> SUFFICES ASSUME NEW i \in 1 .. Len(w) - 2
               PROVE  IF i % 2 = 1 THEN v[i].half = 1
                      ELSE v[i - 1].half = 1 /\ v[i] = [v[i - 1] EXCEPT !.half = 2]
    BY <1>1, Zenon DEF Intact
  <2>1. (i + 2) % 2 = i % 2 /\ i + 2 \in 1 .. Len(w) /\ (i % 2 # 1 => i - 1 \in 1 .. Len(w) - 2 /\ (i - 1) + 2 = (i + 2) - 1)
    BY <1>2
  <2>2. v[i] = w[i + 2] /\ (i % 2 # 1 => v[i - 1] = w[(i + 2) - 1])
    BY <1>1, <2>1, Zenon
  <2>3. QED
    BY <1>1, <2>1, <2>2, Zenon DEF Intact
<1>4. AtBoundary(w) => AtBoundary(v)
  BY <1>1, <1>2 DEF AtBoundary
<1>5. ASSUME NEW f \in Frames, InFrame(w, f)
      PROVE  InFrame(v, f)
  <2>1. Len(w) % 2 = 1
    BY <1>5, ZenonT(30) DEF InFrame
  <2>2. Len(w) - 2 \in 1 .. Len(w) - 2 /\ (Len(w) - 2) % 2 = 1 /\ (Len(w) - 2) + 2 = Len(w)
    BY <1>2, <2>1
  <2>3. QED
    BY <1>1, <1>5, <2>2, Zenon DEF InFrame
<1>6. /\ 1 \in 1 .. Len(w) /\ 2 \in 1 .. Len(w) /\ 1 % 2 = 1 /\ 2 % 2 # 1 /\ 2 - 1 = 1
  BY <1>2
<1>7. w[1] \in HalfStates /\ w[2] = [w[1] EXCEPT !.half = 2]
  <2>1. w[1] \in HalfStates
    BY <1>6
  <2>2. w[2] = [w[2 - 1] EXCEPT !.half = 2]
    BY <1>1, <1>6, Zenon DEF Intact
  <2>3. QED
    BY <1>6, <2>1, <2>2, Zenon
<1>8. w[1].frame \in Frames /\ w[2].frame = w[1].frame /\ w[2].half = 2
  BY <1>7 DEF HalfStates
<1>9. QED
  BY <1>1, <1>2, <1>3, <1>4, <1>5, <1>6, <1>8, Zenon DEF v
-----------------------------------------------------------------------------
(* The notifier *)

\* No call holds the mutex.
LEMMA IdleCall == Idle.pc = "idle"
BY ZenonT(30) DEF Idle

\* The call in progress.
LEMMA Called ==
  ASSUME NotifierInv, call # Idle \/ call.pc \in {"connect", "attempt", "write"}
  PROVE  /\ call \in CallStates /\ call # Idle /\ outcome[call.cmd] = "new" /\ call.cmd \in Commands
         /\ call.pc \in {"connect", "attempt", "write"} /\ call.attempt \in 0 .. SendRetries - 1
         /\ call.stream \in Connections \cup {NoConnection} /\ call.written \in {0, 1}
<1>1. call # Idle
  BY IdleCall, ZenonT(30)
<1>2. call \in CallStates /\ outcome[call.cmd] = "new"
  BY <1>1, Zenon DEF NotifierInv
<1>3. QED
  BY <1>1, <1>2, ZenonT(30) DEF CallStates

\* A new call.
LEMMA NewCall ==
  ASSUME NEW pc \in {"connect", "attempt"}, NEW c \in Commands, NEW n \in 0 .. SendRetries - 1
  PROVE  LET x == Call(pc, c, n)
         IN  x \in CallStates /\ x # Idle /\ x.pc = pc /\ x.cmd = c /\ x.stream = NoConnection
<1>1. LET x == Call(pc, c, n) IN x \in CallStates /\ x.pc = pc /\ x.cmd = c /\ x.stream = NoConnection
  BY ZenonT(30) DEF Call, CallStates
<1>2. QED
  BY <1>1, IdleCall, ZenonT(30)

\* The fields of the notifier.
LEMMA NotifierTyped ==
  ASSUME NotifierInv
  PROVE  /\ notifier.producer \in Producers /\ notifier.next \in 1 .. SeqModulus - 1
         /\ notifier.stream \in Connections \cup {NoConnection} /\ notifier.cooling \in BOOLEAN
         /\ Producers = Connections /\ NoConnection \notin Connections
BY DEF NotifierInv, NotifierStates, Producers, Connections, NoConnection

\* The fields of a half in a connection.
LEMMA HalfTyped ==
  ASSUME WireInv, NEW k \in Connections, NEW i \in DOMAIN wire[k]
  PROVE  wire[k][i] \in HalfStates /\ wire[k][i].frame \in Frames /\ wire[k][i].frame.cmd \in Commands
<1>1. wire[k] \in Seq(HalfStates)
  BY ZenonT(30) DEF WireInv
<1>2. wire[k][i] \in HalfStates
  BY <1>1
<1>3. QED
  BY <1>2, ZenonT(30) DEF HalfStates, Frames

\* An answer ends the call, and takes back no other one.
LEMMA Answered ==
  ASSUME NotifierInv, call # Idle, NEW a \in {"sent", "failed"}, Answer(call.cmd, a)
  PROVE  /\ outcome' \in [Commands -> {"new", "sent", "failed"}] /\ call' = Idle /\ call'.pc = "idle"
         /\ outcome'[call.cmd] = a
         /\ \A c \in Commands : c # call.cmd => outcome'[c] = outcome[c]
         /\ \A c \in Commands : outcome[c] = "sent" => outcome'[c] = "sent"
<1>1. call.cmd \in Commands /\ outcome[call.cmd] = "new" /\ outcome \in [Commands -> {"new", "sent", "failed"}]
  BY Called, ZenonT(30) DEF NotifierInv
<1>2. outcome' = [outcome EXCEPT ![call.cmd] = a] /\ call' = Idle
  BY DEF Answer
<1>3. QED
  BY <1>1, <1>2, IdleCall, ZenonT(30)

\* What was sent stays sent while the listener does nothing.
LEMMA SentStays ==
  ASSUME WireInv, SentInv, UNCHANGED <<wire, queue, settled>>,
         \A c \in Commands : outcome[c] = "sent" => outcome'[c] = "sent",
         \A k \in Connections : task'[k].pc \in {"recorded", "sending"} => task'[k] = task[k]
  PROVE  SentInv'
<1>1. \A k \in Connections : \A i \in DOMAIN wire'[k] :
        wire'[k][i].half = 2 => outcome'[wire'[k][i].frame.cmd] = "sent"
  BY HalfTyped, Zenon DEF SentInv
<1>2. \A f \in Frames : f.cmd \in Commands
  BY ZenonT(30) DEF Frames
<1>3. \A k \in Connections : task'[k].pc \in {"recorded", "sending"} =>
        task'[k].frame \in Frames /\ outcome'[task'[k].frame.cmd] = "sent"
  BY <1>2, Zenon DEF SentInv
<1>4. \A i \in DOMAIN queue : queue[i] \in Frames
  BY DEF SentInv
<1>5. \A i \in DOMAIN queue' : outcome'[queue'[i].cmd] = "sent"
  BY <1>2, <1>4, Zenon DEF SentInv
<1>6. QED
  BY <1>1, <1>3, <1>5, Zenon DEF SentInv

\* What try_reconnect returns: the stream is at a boundary of frames.
LEMMA Reconnected ==
  ASSUME TransportInv, NEW r \in Reconnects(notifier), Connected(r.new), Fault(r.faults)
  PROVE  /\ r.notifier \in NotifierStates /\ r.notifier.producer = notifier.producer
         /\ r.notifier.next = notifier.next
         /\ faults' \in 0 .. MaxFaults /\ faults <= faults'
         /\ ends' \in [Connections -> SUBSET {"tx", "rx"}] /\ task' \in [Connections -> TaskStates]
         /\ \A k \in Connections :
              task'[k] = task[k] \/ (task[k].pc = "none" /\ task'[k].pc = "read")
         /\ r.notifier.stream # NoConnection =>
              /\ "tx" \in ends'[r.notifier.stream] /\ task'[r.notifier.stream].pc # "none"
              /\ "rx" \in ends'[r.notifier.stream] => AtBoundary(wire[r.notifier.stream])
<1>1. /\ notifier \in NotifierStates /\ ends \in [Connections -> SUBSET {"tx", "rx"}]
      /\ task \in [Connections -> TaskStates] /\ faults \in 0 .. MaxFaults /\ MaxFaults \in Nat
  BY TransportAssumption, ZenonT(30) DEF TransportInv, NotifierInv, StreamInv
<1>2. CASE r.new = {} /\ r.faults \in {0, 1} /\ r.notifier \in NotifierStates /\ r.notifier.producer = notifier.producer
           /\ r.notifier.next = notifier.next /\ r.notifier.stream = notifier.stream
  <2>1. ends' = ends /\ task' = task
    <3>1. ends' = [k \in Connections |-> ends[k]] /\ task' = [k \in Connections |-> task[k]]
      BY <1>2, Zenon DEF Connected
    <3>2. QED
      BY <1>1, <3>1, ZenonT(30)
  <2>2. faults' \in 0 .. MaxFaults /\ faults <= faults'
    BY <1>1, <1>2 DEF Fault
  <2>3. notifier.stream # NoConnection =>
          /\ "tx" \in ends[notifier.stream] /\ task[notifier.stream].pc # "none"
          /\ "rx" \in ends[notifier.stream] => AtBoundary(wire[notifier.stream])
    BY Zenon DEF TransportInv, StreamInv, WireInv
  <2>4. QED
    BY <1>1, <1>2, <2>1, <2>2, <2>3, Zenon
<1>3. CASE \E k \in Fresh : r = [notifier |-> [notifier EXCEPT !.stream = k], ok |-> TRUE, new |-> {k}, faults |-> 0]
  <2>1. PICK k \in Fresh : r = [notifier |-> [notifier EXCEPT !.stream = k], ok |-> TRUE, new |-> {k}, faults |-> 0]
    BY <1>3, Zenon
  <2>2. k \in Connections /\ task[k].pc = "none" /\ wire[k] = <<>>
    BY Zenon DEF Fresh, TransportInv, WireInv
  <2>3. r.notifier = [notifier EXCEPT !.stream = k] /\ r.new = {k} /\ r.faults = 0
    BY <2>1
  <2>4. /\ r.notifier \in NotifierStates /\ r.notifier.producer = notifier.producer
        /\ r.notifier.next = notifier.next /\ r.notifier.stream = k
    BY <1>1, <2>2, <2>3, ZenonT(30) DEF NotifierStates
  <2>5. /\ ends' = [j \in Connections |-> IF j = k THEN {"tx", "rx"} ELSE ends[j]]
        /\ task' = [j \in Connections |-> IF j = k THEN [task[j] EXCEPT !.pc = "read"] ELSE task[j]]
    BY <2>3, ZenonT(30) DEF Connected
  <2>6. [task[k] EXCEPT !.pc = "read"] \in TaskStates /\ [task[k] EXCEPT !.pc = "read"].pc = "read"
    BY <1>1, <2>2, ZenonT(30) DEF TaskStates
  <2>7. /\ ends' \in [Connections -> SUBSET {"tx", "rx"}] /\ task' \in [Connections -> TaskStates]
        /\ \A j \in Connections : j # k => task'[j] = task[j]
        /\ task'[k].pc = "read" /\ "tx" \in ends'[k]
    BY <1>1, <2>2, <2>5, <2>6
  <2>8. AtBoundary(wire[k])
    BY <2>2 DEF AtBoundary
  <2>9. faults' \in 0 .. MaxFaults /\ faults <= faults'
    BY <1>1, <2>3 DEF Fault
  <2>10. "read" # "none"
    BY ZenonT(30)
  <2>11. QED
    BY <2>2, <2>4, <2>7, <2>8, <2>9, <2>10, Zenon
<1>4. QED
  <2>1. CASE r = [notifier |-> notifier, ok |-> TRUE, new |-> {}, faults |-> 0]
    <3>1. r.notifier = notifier /\ r.new = {} /\ r.faults = 0
      BY <2>1
    <3>2. QED
      BY <1>1, <1>2, <3>1, Zenon
  <2>2. CASE \E ok \in BOOLEAN : r = [notifier |-> [notifier EXCEPT !.cooling = TRUE], ok |-> ok, new |-> {},
                                      faults |-> IF io THEN 1 ELSE 0]
    <3>1. PICK ok \in BOOLEAN, n \in {0, 1} :
            r = [notifier |-> [notifier EXCEPT !.cooling = TRUE], ok |-> ok, new |-> {}, faults |-> n]
      BY <2>2, Zenon
    <3>2. r.notifier = [notifier EXCEPT !.cooling = TRUE] /\ r.new = {} /\ r.faults = n
      BY <3>1, ZenonT(30)
    <3>3. /\ r.notifier \in NotifierStates /\ r.notifier.producer = notifier.producer
          /\ r.notifier.next = notifier.next /\ r.notifier.stream = notifier.stream
      BY <1>1, <3>2, ZenonT(30) DEF NotifierStates
    <3>4. QED
      BY <1>2, <3>2, <3>3, Zenon
  <2>3. QED
    BY <1>3, <2>1, <2>2, Zenon DEF Reconnects

\* Steps of the notifier that write nothing and take no stream.
LEMMA NotifierMoves ==
  ASSUME TransportInv, UNCHANGED <<wire, queue, settled>>,
         expired' \subseteq Commands, faults' \in 0 .. MaxFaults,
         notifier' \in NotifierStates, notifier'.producer <= faults' + 1,
         outcome' \in [Commands -> {"new", "sent", "failed"}], frame' \in [Commands -> Frames \cup {NoFrame}],
         \A c \in Commands : outcome[c] = "sent" => outcome'[c] = "sent",
         call' = Idle \/ (call' \in CallStates /\ call'.pc # "write" /\ outcome'[call'.cmd] = "new"
                          /\ call'.stream = NoConnection),
         call'.pc = "attempt" => frame'[call'.cmd] \in Frames /\ frame'[call'.cmd].cmd = call'.cmd,
         ends' \in [Connections -> SUBSET {"tx", "rx"}], task' \in [Connections -> TaskStates],
         \A k \in Connections : task'[k] = task[k] \/ (task[k].pc = "none" /\ task'[k].pc = "read"),
         notifier'.stream # NoConnection =>
              /\ "tx" \in ends'[notifier'.stream] /\ task'[notifier'.stream].pc # "none"
              /\ "rx" \in ends'[notifier'.stream] => AtBoundary(wire[notifier'.stream])
  PROVE  TransportInv'
<1>1. call'.pc # "write"
  BY IdleCall, ZenonT(30)
<1>2. NotifierInv'
  BY <1>1, Zenon DEF NotifierInv
<1>3. StreamInv'
  BY <1>1, Zenon DEF StreamInv
<1>4. "read" # "none" /\ "read" \notin {"recorded", "sending"}
  BY ZenonT(30)
<1>5. WireInv'
  BY <1>1, <1>4, Zenon DEF TransportInv, WireInv
<1>6. SentInv'
  BY <1>4, SentStays, Zenon DEF TransportInv
<1>7. QED
  BY <1>2, <1>3, <1>5, <1>6, Zenon DEF TransportInv

\* What the facts above say when nothing about them changes.
LEMMA Standing ==
  ASSUME TransportInv
  PROVE  /\ expired \subseteq Commands /\ faults \in 0 .. MaxFaults /\ MaxFaults \in Nat
         /\ notifier \in NotifierStates /\ notifier.producer <= faults + 1 /\ notifier.producer \in Nat
         /\ outcome \in [Commands -> {"new", "sent", "failed"}] /\ frame \in [Commands -> Frames \cup {NoFrame}]
         /\ ends \in [Connections -> SUBSET {"tx", "rx"}] /\ task \in [Connections -> TaskStates]
         /\ notifier.stream # NoConnection =>
              /\ "tx" \in ends[notifier.stream] /\ task[notifier.stream].pc # "none"
              /\ "rx" \in ends[notifier.stream] => AtBoundary(wire[notifier.stream])
<1>1. MaxFaults \in Nat /\ notifier.producer \in Nat
  BY NotifierTyped, TransportAssumption DEF TransportInv, Producers
<1>2. QED
  BY <1>1, Zenon DEF TransportInv, NotifierInv, StreamInv, WireInv

\* send takes the mutex and validates the command again.
LEMMA BeginKeeps ==
  ASSUME TransportInv, NEW c \in Commands, Begin(c)
  PROVE  TransportInv'
<1>1. /\ call = Idle /\ outcome[c] = "new" /\ outcome \in [Commands -> {"new", "sent", "failed"}]
      /\ UNCHANGED <<expired, notifier, frame, wire, ends, task, queue, settled, faults>>
  BY Zenon DEF Begin, listenerVars, TransportInv, NotifierInv
<1>2. CASE outcome' = [outcome EXCEPT ![c] = "failed"] /\ call' = Idle
  <2>1. outcome' \in [Commands -> {"new", "sent", "failed"}] /\ \A d \in Commands : outcome[d] = "sent" => outcome'[d] = "sent"
    BY <1>1, <1>2
  <2>2. call'.pc # "attempt"
    BY <1>2, IdleCall
  <2>3. QED
    BY <1>1, <1>2, <2>1, <2>2, Standing, NotifierMoves, Zenon
<1>3. CASE call' = Call("connect", c, 0) /\ outcome' = outcome
  <2>1. 0 \in 0 .. SendRetries - 1
    BY DEF SendRetries
  <2>2. call' \in CallStates /\ call'.pc = "connect" /\ call'.cmd = c /\ call'.stream = NoConnection
    BY <1>3, <2>1, NewCall
  <2>3. "connect" \notin {"attempt", "write"}
    BY ZenonT(30)
  <2>4. QED
    BY <1>1, <1>3, <2>2, <2>3, Standing, NotifierMoves, Zenon
<1>4. QED
  BY <1>2, <1>3, Zenon DEF Begin, Answer

\* notify up to its loop: reconnect, deadline, sequence number, frame.
LEMMA TakeKeeps ==
  ASSUME TransportInv, TakeSequence
  PROVE  TransportInv'
<1> DEFINE c == call.cmd
           f == [cmd |-> c, producer |-> notifier.producer, seq |-> notifier.next]
<1>1. PICK r \in Reconnects(notifier) :
        /\ Connected(r.new) /\ Fault(r.faults)
        /\ \/ notifier' = r.notifier /\ Answer(c, "failed") /\ frame' = frame
           \/ /\ notifier' = [r.notifier EXCEPT !.next = NextSequence(@)]
              /\ frame' = [frame EXCEPT ![c] = f] /\ call' = Call("attempt", c, 0) /\ outcome' = outcome
  BY ZenonT(30) DEF TakeSequence
<1>2. call.pc = "connect" /\ UNCHANGED <<expired, wire, last, queue, channel, settled, io>>
  BY DEF TakeSequence
<1>3. NotifierInv /\ call # Idle /\ c \in Commands /\ outcome[c] = "new"
  BY <1>2, Called, Zenon DEF TransportInv
<1>4. /\ r.notifier \in NotifierStates /\ r.notifier.producer = notifier.producer
      /\ r.notifier.next = notifier.next
      /\ faults' \in 0 .. MaxFaults /\ faults <= faults'
      /\ ends' \in [Connections -> SUBSET {"tx", "rx"}] /\ task' \in [Connections -> TaskStates]
      /\ \A k \in Connections : task'[k] = task[k] \/ (task[k].pc = "none" /\ task'[k].pc = "read")
      /\ r.notifier.stream # NoConnection =>
           /\ "tx" \in ends'[r.notifier.stream] /\ task'[r.notifier.stream].pc # "none"
           /\ "rx" \in ends'[r.notifier.stream] => AtBoundary(wire[r.notifier.stream])
  BY <1>1, Reconnected, Zenon
<1>5. r.notifier.producer <= faults' + 1
  BY <1>4, Standing
<1>6. CASE notifier' = r.notifier /\ Answer(c, "failed") /\ frame' = frame
  <2>1. /\ outcome' \in [Commands -> {"new", "sent", "failed"}] /\ call' = Idle /\ call'.pc = "idle"
        /\ \A d \in Commands : outcome[d] = "sent" => outcome'[d] = "sent"
    BY <1>3, <1>6, Answered, Zenon
  <2>2. "idle" # "attempt"
    OBVIOUS
  <2>3. QED
    BY <1>2, <1>4, <1>5, <1>6, <2>1, <2>2, Standing, NotifierMoves, Zenon
<1>7. CASE /\ notifier' = [r.notifier EXCEPT !.next = NextSequence(@)]
           /\ frame' = [frame EXCEPT ![c] = f] /\ call' = Call("attempt", c, 0) /\ outcome' = outcome
  <2>1. notifier.producer \in Producers /\ notifier.next \in 1 .. SeqModulus - 1 /\ SeqModulus \in Nat /\ SeqModulus > 4
    BY <1>3, NotifierTyped, TransportAssumption, ZenonT(30)
  <2>2. f \in Frames /\ f.cmd = c
    BY <1>3, <2>1 DEF Frames
  <2>3. NextSequence(notifier.next) \in 1 .. SeqModulus - 1
    BY <2>1 DEF NextSequence
  <2>4. /\ notifier' \in NotifierStates /\ notifier'.producer = r.notifier.producer
        /\ notifier'.stream = r.notifier.stream
    BY <1>4, <1>7, <2>3, ZenonT(30) DEF NotifierStates
  <2> HIDE DEF f
  <2>5. frame' \in [Commands -> Frames \cup {NoFrame}] /\ frame'[c] = f
    BY <1>3, <1>7, <2>2, Standing
  <2>6. 0 \in 0 .. SendRetries - 1
    BY DEF SendRetries
  <2>7. call' \in CallStates /\ call'.pc = "attempt" /\ call'.cmd = c /\ call'.stream = NoConnection
    BY <1>3, <1>7, <2>6, NewCall
  <2>8. "attempt" # "write"
    OBVIOUS
  <2> HIDE DEF c
  <2>9. QED
    BY <1>2, <1>3, <1>4, <1>5, <1>7, <2>2, <2>4, <2>5, <2>7, <2>8, Standing, NotifierMoves, ZenonT(30)
<1>8. QED
  BY <1>1, <1>6, <1>7, Zenon

\* An attempt takes the stream out of the notifier at a boundary of frames.
LEMMA AttemptKeeps ==
  ASSUME TransportInv, Attempt
  PROVE  TransportInv'
<1> DEFINE c == call.cmd
<1>1. call.pc = "attempt" /\ UNCHANGED <<expired, frame, wire, last, queue, channel, settled, io>>
  BY ZenonT(30) DEF Attempt
<1>2. /\ NotifierInv /\ call # Idle /\ c \in Commands /\ outcome[c] = "new" /\ call \in CallStates
      /\ frame[c] \in Frames /\ frame[c].cmd = c
  BY <1>1, Called, Zenon DEF TransportInv, NotifierInv
<1>3. "idle" # "attempt"
  OBVIOUS
<1>4. CASE Answer(c, "failed") /\ UNCHANGED <<notifier, ends, task, faults>>
  <2>1. /\ outcome' \in [Commands -> {"new", "sent", "failed"}] /\ call' = Idle /\ call'.pc = "idle"
        /\ \A d \in Commands : outcome[d] = "sent" => outcome'[d] = "sent"
    BY <1>2, <1>4, Answered, Zenon
  <2>2. QED
    BY <1>1, <1>3, <1>4, <2>1, Standing, NotifierMoves, Zenon
<1>5. ASSUME NEW r \in Reconnects(notifier), Connected(r.new), Fault(r.faults),
             \/ Answer(c, "failed") /\ notifier' = r.notifier
             \/ /\ r.notifier.stream # NoConnection
                /\ call' = [call EXCEPT !.pc = "write", !.stream = r.notifier.stream, !.written = 0]
                /\ notifier' = [r.notifier EXCEPT !.stream = NoConnection]
                /\ outcome' = outcome
      PROVE  TransportInv'
  <2>1. /\ r.notifier \in NotifierStates /\ r.notifier.producer = notifier.producer
        /\ r.notifier.next = notifier.next
        /\ faults' \in 0 .. MaxFaults /\ faults <= faults'
        /\ ends' \in [Connections -> SUBSET {"tx", "rx"}] /\ task' \in [Connections -> TaskStates]
        /\ \A k \in Connections : task'[k] = task[k] \/ (task[k].pc = "none" /\ task'[k].pc = "read")
        /\ r.notifier.stream # NoConnection =>
             /\ "tx" \in ends'[r.notifier.stream] /\ task'[r.notifier.stream].pc # "none"
             /\ "rx" \in ends'[r.notifier.stream] => AtBoundary(wire[r.notifier.stream])
    BY <1>5, Reconnected, Zenon
  <2>2. r.notifier.producer <= faults' + 1
    BY <2>1, Standing
  <2>3. CASE Answer(c, "failed") /\ notifier' = r.notifier
    <3>1. /\ outcome' \in [Commands -> {"new", "sent", "failed"}] /\ call' = Idle /\ call'.pc = "idle"
          /\ \A d \in Commands : outcome[d] = "sent" => outcome'[d] = "sent"
      BY <1>2, <2>3, Answered, Zenon
    <3>2. QED
      BY <1>1, <1>3, <2>1, <2>2, <2>3, <3>1, Standing, NotifierMoves, Zenon
  <2>4. CASE /\ r.notifier.stream # NoConnection
             /\ call' = [call EXCEPT !.pc = "write", !.stream = r.notifier.stream, !.written = 0]
             /\ notifier' = [r.notifier EXCEPT !.stream = NoConnection]
             /\ outcome' = outcome
    <3> DEFINE k == r.notifier.stream
    <3>1. k \in Connections
      BY <2>1, <2>4, ZenonT(30) DEF NotifierStates
    <3>2. /\ notifier' \in NotifierStates /\ notifier'.stream = NoConnection
          /\ notifier'.producer = notifier.producer
      BY <2>1, <2>4 DEF NotifierStates
    <3> HIDE DEF k
    <3>3. call' = [call EXCEPT !.pc = "write", !.stream = k, !.written = 0]
      BY <2>4, ZenonT(30) DEF k
    <3>4. /\ call' \in CallStates /\ call'.pc = "write" /\ call'.stream = k /\ call'.written = 0
          /\ call'.cmd = c
      BY <1>2, <3>1, <3>3, ZenonT(30) DEF CallStates
    <3>5. NotifierInv'
      <4>1. notifier'.producer <= faults' + 1
        BY <2>1, <2>2, <3>2, ZenonT(30)
      <4> HIDE DEF c
      <4>2. QED
        BY <1>1, <1>2, <2>1, <2>4, <3>2, <3>4, <4>1, Zenon DEF NotifierInv
    <3>6. StreamInv'
      BY <2>1, <2>4, <3>1, <3>2, <3>4, Zenon DEF StreamInv, k
    <3>7. WireInv'
      <4>1. "read" # "none"
        OBVIOUS
      <4>2. "rx" \in ends'[k] => AtBoundary(wire[k])
        BY <2>1, <2>4, Zenon DEF k
      <4>3. QED
        BY <1>1, <2>1, <3>2, <3>4, <4>1, <4>2, Zenon DEF TransportInv, WireInv
    <3>8. SentInv'
      <4>1. "read" \notin {"recorded", "sending"}
        OBVIOUS
      <4>2. QED
        BY <1>1, <2>1, <2>4, <4>1, SentStays, Zenon DEF TransportInv
    <3>9. QED
      BY <3>5, <3>6, <3>7, <3>8, Zenon DEF TransportInv
  <2>5. QED
    BY <1>5, <2>3, <2>4, Zenon
<1>6. QED
  BY <1>4, <1>5, Zenon DEF Attempt

\* The call is given up, along with a stream that it may have written to.
LEMMA CallGivenUp ==
  ASSUME TransportInv, call # Idle, Answer(call.cmd, "failed"), NEW k, ends' = Dropped(k),
         faults' \in 0 .. MaxFaults, faults <= faults',
         notifier' \in NotifierStates, notifier'.producer = notifier.producer,
         notifier'.stream = NoConnection \/ (notifier'.stream = notifier.stream /\ k # notifier.stream),
         UNCHANGED <<expired, frame, wire, task, queue, settled>>
  PROVE  TransportInv'
<1>1. /\ outcome' \in [Commands -> {"new", "sent", "failed"}] /\ call' = Idle /\ call'.pc = "idle"
      /\ \A d \in Commands : outcome[d] = "sent" => outcome'[d] = "sent"
  BY Answered, Zenon DEF TransportInv
<1>2. /\ ends' \in [Connections -> SUBSET {"tx", "rx"}]
      /\ \A j \in Connections : j # k => ends'[j] = ends[j]
  BY Standing, ZenonT(30) DEF Dropped
<1>3. notifier'.producer <= faults' + 1
  BY Standing
<1>4. notifier'.stream # NoConnection => notifier'.stream \in Connections /\ ends'[notifier'.stream] = ends[notifier'.stream]
  BY <1>2, NotifierTyped, ZenonT(30) DEF TransportInv
<1>5. "idle" # "attempt"
  OBVIOUS
<1>6. QED
  BY <1>1, <1>2, <1>3, <1>4, <1>5, Standing, NotifierMoves, Zenon

\* A failed write drops the stream it may have left inside a frame.
LEMMA WriteFailsKeeps ==
  ASSUME TransportInv, WriteFails
  PROVE  TransportInv'
<1>1. call.pc = "write" /\ ends' = Dropped(call.stream) /\ UNCHANGED <<expired, frame, wire, task, queue, settled>>
  BY DEF WriteFails, listenerVars
<1>2. /\ NotifierInv /\ call # Idle /\ call.cmd \in Commands /\ outcome[call.cmd] = "new"
      /\ call.attempt \in 0 .. SendRetries - 1 /\ notifier.stream = NoConnection
      /\ frame[call.cmd] \in Frames /\ frame[call.cmd].cmd = call.cmd
  BY <1>1, Called, Zenon DEF TransportInv, NotifierInv, StreamInv
<1>3. faults' \in 0 .. MaxFaults /\ faults <= faults'
  <2>1. PICK n \in {0, 1} : Fault(n)
    BY DEF WriteFails
  <2>2. QED
    BY <2>1, Standing DEF Fault
<1>4. \E b \in BOOLEAN : notifier' = [notifier EXCEPT !.cooling = b]
  BY Zenon DEF WriteFails
<1>5. notifier' \in NotifierStates /\ notifier'.producer = notifier.producer /\ notifier'.stream = NoConnection
  BY <1>2, <1>4, Standing DEF NotifierStates
<1>6. CASE Answer(call.cmd, "failed")
  BY <1>1, <1>2, <1>3, <1>5, <1>6, CallGivenUp, Zenon
<1>7. CASE call' = Call("attempt", call.cmd, call.attempt + 1) /\ outcome' = outcome /\ call.attempt + 1 < SendRetries
  <2>1. call.attempt + 1 \in 0 .. SendRetries - 1
    BY <1>2, <1>7 DEF SendRetries
  <2>2. call' \in CallStates /\ call'.pc = "attempt" /\ call'.cmd = call.cmd /\ call'.stream = NoConnection
    BY <1>2, <1>7, <2>1, NewCall
  <2>3. ends' \in [Connections -> SUBSET {"tx", "rx"}]
    BY <1>1, Standing, ZenonT(30) DEF Dropped
  <2>4. notifier'.producer <= faults' + 1
    BY <1>3, <1>5, Standing
  <2>5. "attempt" # "write"
    OBVIOUS
  <2>6. QED
    BY <1>1, <1>2, <1>3, <1>5, <1>7, <2>2, <2>3, <2>4, <2>5, Standing, NotifierMoves, Zenon
<1>8. QED
  BY <1>6, <1>7, Zenon DEF WriteFails

\* A timeout of send, a dropped call, and a restart give up every stream that may be inside a frame.
LEMMA InterruptionKeeps ==
  ASSUME TransportInv, NotifyTimesOut \/ CallDropped
  PROVE  TransportInv'
<1>1. /\ call # Idle /\ Fault(1) /\ Answer(call.cmd, "failed")
      /\ UNCHANGED <<expired, frame, wire, task, queue, settled>>
  BY Zenon DEF NotifyTimesOut, CallDropped, listenerVars
<1>2. faults' \in 0 .. MaxFaults /\ faults <= faults'
  BY <1>1, Standing DEF Fault
<1>3. CASE NotifyTimesOut
  <2>1. /\ \E k : ends' = Dropped(k)
        /\ notifier' = [notifier EXCEPT !.stream = NoConnection, !.cooling = TRUE]
    BY <1>3, Zenon DEF NotifyTimesOut
  <2>2. notifier' \in NotifierStates /\ notifier'.producer = notifier.producer /\ notifier'.stream = NoConnection
    BY <2>1, Standing, ZenonT(30) DEF NotifierStates
  <2>3. QED
    BY <1>1, <1>2, <2>1, <2>2, CallGivenUp, Zenon
<1>4. CASE CallDropped
  <2>1. ends' = Dropped(call.stream) /\ notifier' = notifier
    BY <1>4, Zenon DEF CallDropped
  <2>2. notifier.stream = NoConnection \/ call.stream # notifier.stream
    BY <1>1, Zenon DEF TransportInv, StreamInv
  <2>3. QED
    BY <1>1, <1>2, <2>1, <2>2, CallGivenUp, Standing, Zenon
<1>5. QED
  BY <1>3, <1>4, Zenon

\* A restart of the automation process drops every stream.
LEMMA RestartKeeps ==
  ASSUME TransportInv, AutomationRestarts
  PROVE  TransportInv'
<1>1. /\ Fault(1) /\ call' = Idle /\ UNCHANGED <<expired, frame, wire, task, queue, settled>>
      /\ ends' = [k \in Connections |-> ends[k] \ {"tx"}]
      /\ notifier' = [producer |-> notifier.producer + 1, next |-> 1, stream |-> NoConnection, cooling |-> FALSE]
      /\ outcome' = [c \in Commands |-> IF call # Idle /\ call.cmd = c THEN "failed" ELSE outcome[c]]
  BY ZenonT(30) DEF AutomationRestarts
<1>2. faults' \in 0 .. MaxFaults /\ faults' = faults + 1
  BY <1>1, Standing DEF Fault
<1>3. notifier.producer + 1 \in Producers /\ notifier.producer + 1 <= faults' + 1 /\ 1 \in 1 .. SeqModulus - 1
  BY <1>2, Standing, NotifierTyped, TransportAssumption DEF TransportInv, Producers
<1>4. /\ notifier' \in NotifierStates /\ notifier'.producer = notifier.producer + 1
      /\ notifier'.stream = NoConnection
  BY <1>1, <1>3, ZenonT(30) DEF NotifierStates
<1>5. ends' \in [Connections -> SUBSET {"tx", "rx"}]
  BY <1>1, Standing, ZenonT(30)
<1>6. outcome' \in [Commands -> {"new", "sent", "failed"}]
  BY <1>1, Standing, ZenonT(30)
<1>7. \A c \in Commands : outcome[c] = "sent" => outcome'[c] = "sent"
  <2>1. call # Idle => outcome[call.cmd] = "new"
    BY Called, Zenon DEF TransportInv
  <2>2. QED
    BY <1>1, <2>1
<1>8. call'.pc # "attempt"
  BY <1>1, IdleCall
<1>9. QED
  BY <1>1, <1>2, <1>3, <1>4, <1>5, <1>6, <1>7, <1>8, Standing, NotifierMoves, Zenon

\* The backoff ends, or a deadline passes.
LEMMA TimePasses ==
  ASSUME TransportInv, BackoffElapses \/ (\E c \in Commands : Expire(c))
  PROVE  TransportInv'
<1>1. /\ UNCHANGED <<call, outcome, frame, wire, ends, task, queue, settled>>
      /\ expired' \subseteq Commands
      /\ (notifier' = notifier /\ Fault(1)) \/ (notifier' = [notifier EXCEPT !.cooling = FALSE] /\ faults' = faults)
  BY Standing, Zenon DEF BackoffElapses, Expire, listenerVars
<1>2. /\ notifier' \in NotifierStates /\ notifier'.producer = notifier.producer
      /\ notifier'.stream = notifier.stream
  BY <1>1, Standing, ZenonT(30) DEF NotifierStates
<1>3. faults' \in 0 .. MaxFaults /\ faults <= faults'
  BY <1>1, Standing DEF Fault
<1>4. notifier'.producer <= faults' + 1
  BY <1>2, <1>3, Standing
<1>5. NotifierInv'
  BY <1>1, <1>2, <1>3, <1>4, Zenon DEF TransportInv, NotifierInv
<1>6. StreamInv' /\ WireInv'
  BY <1>1, <1>2, Zenon DEF TransportInv, StreamInv, WireInv
<1>7. SentInv'
  BY <1>1, SentStays, Zenon DEF TransportInv
<1>8. QED
  BY <1>5, <1>6, <1>7, Zenon DEF TransportInv

\* One half more is in the connection.
LEMMA WriteHalfKeeps ==
  ASSUME TransportInv, WriteHalf
  PROVE  TransportInv'
<1> DEFINE k == call.stream
           c == call.cmd
           f == frame[call.cmd]
           w == wire[call.stream]
           v == wire'[call.stream]
<1>1. /\ call.pc = "write" /\ "rx" \in ends[k] /\ Len(w) < WireCapacity
      /\ wire' = [wire EXCEPT ![k] = Append(@, Halves(f)[call.written + 1])]
      /\ UNCHANGED <<expired, frame, ends, task, queue, settled, faults>>
  BY ZenonT(30) DEF WriteHalf, listenerVars
<1>2. /\ NotifierInv /\ call # Idle /\ c \in Commands /\ outcome[c] = "new" /\ call \in CallStates
      /\ call.written \in {0, 1} /\ f \in Frames /\ f.cmd = c
      /\ k \in Connections /\ notifier.stream = NoConnection /\ "tx" \in ends[k] /\ task[k].pc # "none"
  BY <1>1, Called, Zenon DEF TransportInv, NotifierInv, StreamInv
<1>3. /\ wire \in [Connections -> Seq(HalfStates)] /\ w \in Seq(HalfStates) /\ Intact(w)
      /\ IF call.written = 0 THEN AtBoundary(w) ELSE InFrame(w, f)
  <2>1. wire \in [Connections -> Seq(HalfStates)]
    BY Zenon DEF TransportInv, WireInv
  <2>2. QED
    BY <1>1, <1>2, <2>1, Zenon DEF TransportInv, WireInv
<1>4. /\ v = Append(w, Halves(f)[call.written + 1])
      /\ \A j \in Connections : j # k => wire'[j] = wire[j]
      /\ v \in Seq(HalfStates) => wire' \in [Connections -> Seq(HalfStates)]
  BY <1>1, <1>2, <1>3
<1>5. Len(w) \in Nat /\ WireCapacity \in Nat
  BY <1>3, TransportAssumption
<1> HIDE DEF k, c, f, w, v
<1>6. CASE call.written = 0
  <2>1. v = Append(w, Halves(f)[1])
    BY <1>4, <1>6
  <2>2. /\ v \in Seq(HalfStates) /\ Len(v) = Len(w) + 1 /\ Intact(v) /\ InFrame(v, f)
        /\ \A i \in DOMAIN v : v[i].half = 2 => i \in DOMAIN w /\ v[i] = w[i]
    BY <1>2, <1>3, <1>6, <2>1, FirstHalf, Zenon
  <2>3. call' = [call EXCEPT !.written = 1] /\ UNCHANGED <<outcome, notifier>>
    BY <1>6, Zenon DEF WriteHalf
  <2>4. call' \in CallStates /\ call'.pc = "write" /\ call'.cmd = c /\ call'.stream = k /\ call'.written = 1
    BY <1>1, <1>2, <2>3 DEF CallStates, c, k
  <2>5. NotifierInv'
    BY <1>1, <1>2, <2>3, <2>4, Zenon DEF NotifierInv, f, c
  <2>6. StreamInv'
    BY <1>1, <1>2, <2>3, <2>4, Zenon DEF TransportInv, StreamInv, k
  <2>7. WireInv'
    <3>1. Len(v) <= WireCapacity /\ 1 # 0
      BY <1>1, <1>5, <2>2
    <3>2. \A j \in Connections : /\ Len(wire'[j]) <= WireCapacity /\ Intact(wire'[j])
                                 /\ task'[j].pc = "none" => wire'[j] = <<>>
      BY <1>1, <1>2, <1>4, <2>2, <3>1, Zenon DEF TransportInv, WireInv, v, k
    <3>3. InFrame(wire'[call'.stream], frame'[call'.cmd])
      BY <1>1, <2>2, <2>4, Zenon DEF v, k, f, c
    <3>4. QED
      BY <1>2, <1>4, <2>2, <2>3, <2>4, <3>1, <3>2, <3>3, Zenon DEF WireInv
  <2>8. SentInv'
    <3>1. \A j \in Connections : \A i \in DOMAIN wire'[j] :
            wire'[j][i].half = 2 => i \in DOMAIN wire[j] /\ wire'[j][i] = wire[j][i]
      BY <1>4, <2>2, Zenon DEF v, w, k
    <3>2. \A j \in Connections : \A i \in DOMAIN wire'[j] :
            wire'[j][i].half = 2 => outcome'[wire'[j][i].frame.cmd] = "sent"
      <4>1. \A j \in Connections : \A i \in DOMAIN wire[j] :
              wire[j][i].half = 2 => outcome[wire[j][i].frame.cmd] = "sent"
        BY Zenon DEF TransportInv, SentInv
      <4>2. ASSUME NEW j \in Connections, NEW i \in DOMAIN wire'[j], wire'[j][i].half = 2
            PROVE  outcome'[wire'[j][i].frame.cmd] = "sent"
        <5>1. i \in DOMAIN wire[j] /\ wire'[j][i] = wire[j][i]
          BY <3>1, <4>2, Zenon
        <5>2. outcome[wire[j][i].frame.cmd] = "sent"
          BY <4>1, <4>2, <5>1, Zenon
        <5>3. QED
          BY <2>3, <5>1, <5>2, Zenon
      <4>3. QED
        BY <4>2, Zenon
    <3>3. QED
      BY <1>1, <2>3, <3>2, ZenonT(30) DEF TransportInv, SentInv
  <2>9. QED
    BY <2>5, <2>6, <2>7, <2>8, Zenon DEF TransportInv
<1>7. CASE call.written = 1
  <2>1. v = Append(w, Halves(f)[2]) /\ 1 # 0
    BY <1>4, <1>7
  <2>2. /\ v \in Seq(HalfStates) /\ Len(v) = Len(w) + 1 /\ Intact(v) /\ AtBoundary(v)
        /\ \A i \in DOMAIN v : (i \in DOMAIN w /\ v[i] = w[i]) \/ (i \notin DOMAIN w /\ v[i].frame = f)
    <3>1. f \in Frames /\ w \in Seq(HalfStates) /\ Intact(w) /\ InFrame(w, f)
      BY <1>2, <1>3, <1>7
    <3>2. QED
      BY <2>1, <3>1, SecondHalf
  <2>3. Answer(call.cmd, "sent") /\ notifier' = [notifier EXCEPT !.stream = k]
    BY <1>7, <2>1, Zenon DEF WriteHalf, k
  <2>4. /\ outcome' \in [Commands -> {"new", "sent", "failed"}] /\ call' = Idle /\ call'.pc = "idle"
        /\ outcome'[c] = "sent" /\ \A d \in Commands : outcome[d] = "sent" => outcome'[d] = "sent"
    BY <1>2, <2>3, Answered, Zenon DEF c
  <2>5. /\ notifier' \in NotifierStates /\ notifier'.stream = k /\ notifier'.producer = notifier.producer
    BY <1>2, <2>3 DEF NotifierInv, NotifierStates
  <2>6. "idle" \notin {"attempt", "write"}
    OBVIOUS
  <2>7. NotifierInv'
    BY <1>1, <1>2, <2>4, <2>5, <2>6, Zenon DEF NotifierInv
  <2>8. StreamInv'
    BY <1>1, <1>2, <2>4, <2>5, <2>6, Zenon DEF TransportInv, StreamInv
  <2>9. WireInv'
    <3>1. Len(v) <= WireCapacity
      BY <1>1, <1>5, <2>2
    <3>2. \A j \in Connections : /\ Len(wire'[j]) <= WireCapacity /\ Intact(wire'[j])
                                 /\ task'[j].pc = "none" => wire'[j] = <<>>
      BY <1>1, <1>2, <1>4, <2>2, <3>1, Zenon DEF TransportInv, WireInv, v, k
    <3>3. AtBoundary(wire'[notifier'.stream])
      BY <2>2, <2>5, Zenon DEF v, k
    <3>4. QED
      BY <1>4, <2>2, <2>4, <2>6, <3>2, <3>3, Zenon DEF WireInv
  <2>10. SentInv'
    <3>1. \A j \in Connections : \A i \in DOMAIN wire'[j] :
            (i \in DOMAIN wire[j] /\ wire'[j][i] = wire[j][i]) \/ wire'[j][i].frame = f
      BY <1>4, <2>2, Zenon DEF v, w, k
    <3>2. \A j \in Connections : \A i \in DOMAIN wire'[j] :
            wire'[j][i].half = 2 => outcome'[wire'[j][i].frame.cmd] = "sent"
      <4>1. \A j \in Connections : \A i \in DOMAIN wire[j] :
              wire[j][i].half = 2 => outcome'[wire[j][i].frame.cmd] = "sent"
        BY <2>4, HalfTyped, Zenon DEF TransportInv, SentInv
      <4>2. ASSUME NEW j \in Connections, NEW i \in DOMAIN wire'[j], wire'[j][i].half = 2
            PROVE  outcome'[wire'[j][i].frame.cmd] = "sent"
        <5>1. CASE i \in DOMAIN wire[j] /\ wire'[j][i] = wire[j][i]
          BY <4>1, <4>2, <5>1, Zenon
        <5>2. CASE wire'[j][i].frame = f
          BY <1>2, <2>4, <5>2, ZenonT(30)
        <5>3. QED
          BY <3>1, <5>1, <5>2, Zenon
      <4>3. QED
        BY <4>2, Zenon
    <3>3. \A g \in Frames : g.cmd \in Commands
      BY ZenonT(30) DEF Frames
    <3>4. \A i \in DOMAIN queue : queue[i] \in Frames
      BY DEF TransportInv, SentInv
    <3>5. \A i \in DOMAIN queue' : outcome'[queue'[i].cmd] = "sent"
      BY <1>1, <2>4, <3>3, <3>4, Zenon DEF TransportInv, SentInv
    <3>6. \A j \in Connections : task'[j].pc \in {"recorded", "sending"} =>
            task'[j].frame \in Frames /\ outcome'[task'[j].frame.cmd] = "sent"
      BY <1>1, <2>4, <3>3, Zenon DEF TransportInv, SentInv
    <3>7. QED
      BY <1>1, <2>4, <3>2, <3>5, <3>6, Zenon DEF TransportInv, SentInv
  <2>11. QED
    BY <2>7, <2>8, <2>9, <2>10, Zenon DEF TransportInv
<1>8. QED
  BY <1>2, <1>6, <1>7, Zenon

-----------------------------------------------------------------------------
(* The listener *)

\* The listener leaves the notifier alone.
LEMMA NotifierStands ==
  ASSUME NotifierInv, UNCHANGED notifierVars, faults' \in 0 .. MaxFaults, faults <= faults'
  PROVE  NotifierInv' /\ UNCHANGED <<expired, notifier, call, outcome, frame, order>>
<1>1. UNCHANGED <<expired, notifier, call, outcome, frame, order>>
  BY Zenon DEF notifierVars
<1>2. notifier'.producer <= faults' + 1
  <2>1. notifier.producer \in Nat /\ notifier.producer <= faults + 1 /\ faults \in Nat /\ MaxFaults \in Nat
    BY NotifierTyped, TransportAssumption DEF Producers, NotifierInv
  <2>2. QED
    BY <1>1, <2>1
<1>3. QED
  BY <1>1, <1>2, Zenon DEF NotifierInv

\* One task moves on, and with it at most the queue and the settlement of its command.
LEMMA TaskMoves ==
  ASSUME TransportInv, UNCHANGED <<notifierVars, wire, ends, faults>>,
         NEW k \in Connections, NEW t \in TaskStates, task[k].pc # "none", t.pc # "none",
         task' = [task EXCEPT ![k] = t],
         t.pc \in {"recorded", "sending"} => t.frame \in Frames /\ outcome[t.frame.cmd] = "sent",
         queue' \in Seq(Frames), Len(queue') <= QueueCapacity,
         \A i \in DOMAIN queue' : outcome[queue'[i].cmd] = "sent",
         settled' \in [Commands -> Settlements],
         \A c \in Commands : settled'[c] # "none" => outcome[c] = "sent"
  PROVE  TransportInv'
<1>1. NotifierInv' /\ UNCHANGED <<expired, notifier, call, outcome, frame, order>>
  BY NotifierStands, Standing DEF TransportInv
<1>2. /\ task' \in [Connections -> TaskStates] /\ task'[k] = t
      /\ \A j \in Connections : j # k => task'[j] = task[j]
  BY Standing
<1>3. \A j \in Connections : task'[j].pc = "none" <=> task[j].pc = "none"
  BY <1>2, Zenon
<1>4. notifier.stream # NoConnection => notifier.stream \in Connections
  BY NotifierTyped, Zenon DEF TransportInv
<1>5. StreamInv'
  BY <1>1, <1>2, <1>3, <1>4, Zenon DEF TransportInv, StreamInv
<1>6. WireInv'
  BY <1>1, <1>3, Zenon DEF TransportInv, WireInv
<1>7. \A j \in Connections : task'[j].pc \in {"recorded", "sending"} =>
        task'[j].frame \in Frames /\ outcome'[task'[j].frame.cmd] = "sent"
  <2>1. ASSUME NEW j \in Connections, task'[j].pc \in {"recorded", "sending"}
        PROVE  task'[j].frame \in Frames /\ outcome'[task'[j].frame.cmd] = "sent"
    <3>1. CASE j = k
      BY <1>1, <1>2, <2>1, <3>1, Zenon
    <3>2. CASE j # k
      BY <1>1, <1>2, <2>1, <3>2, Zenon DEF TransportInv, SentInv
    <3>3. QED
      BY <3>1, <3>2, Zenon
  <2>2. QED
    BY <2>1, Zenon
<1>8. SentInv'
  BY <1>1, <1>7, ZenonT(30) DEF TransportInv, SentInv
<1>9. QED
  BY <1>1, <1>5, <1>6, <1>8, Zenon DEF TransportInv

\* What the listener knows of a command it settles.
LEMMA Settled ==
  ASSUME SentInv, NEW c \in Commands, outcome[c] = "sent", NEW how \in Settlements, Settle(c, how)
  PROVE  /\ settled' \in [Commands -> Settlements]
         /\ \A d \in Commands : settled'[d] # "none" => outcome[d] = "sent"
BY ZenonT(30) DEF SentInv, Settle

\* A task that waits for the next frame.
LEMMA ReadTask == LET t == [pc |-> "read", frame |-> NoFrame] IN t \in TaskStates /\ t.pc = "read"
BY ZenonT(30) DEF TaskStates

\* The settlement of a task's command, when it is done with it.
LEMMA TaskSettles ==
  ASSUME TransportInv, UNCHANGED <<notifierVars, wire, ends, queue, faults>>, NEW k \in Connections,
         task[k].pc \in {"recorded", "sending"}, ToRead(k),
         settled' = settled \/ (\E how \in Settlements : Settle(task[k].frame.cmd, how))
  PROVE  TransportInv'
<1> DEFINE t == [pc |-> "read", frame |-> NoFrame]
<1>1. t \in TaskStates /\ t.pc = "read" /\ task' = [task EXCEPT ![k] = t]
  BY ReadTask, Zenon DEF ToRead
<1> HIDE DEF t
<1>2. task[k].frame \in Frames /\ outcome[task[k].frame.cmd] = "sent" /\ SentInv
  BY Zenon DEF TransportInv, SentInv
<1>3. task[k].frame.cmd \in Commands
  BY <1>2, ZenonT(30) DEF Frames
<1>4. /\ settled' \in [Commands -> Settlements]
      /\ \A d \in Commands : settled'[d] # "none" => outcome[d] = "sent"
  BY <1>2, <1>3, Settled, Zenon DEF SentInv
<1>5. task[k].pc # "none" /\ "read" \notin {"recorded", "sending", "none"}
  BY ZenonT(30)
<1>6. QED
  BY <1>1, <1>2, <1>4, <1>5, TaskMoves, Zenon DEF SentInv

\* A task hands its command to the queue.
LEMMA TaskEnqueues ==
  ASSUME TransportInv, UNCHANGED <<notifierVars, wire, ends, settled, faults>>, NEW k \in Connections,
         task[k].pc \in {"recorded", "sending"}, ToRead(k),
         Len(queue) < QueueCapacity, queue' = Append(queue, task[k].frame)
  PROVE  TransportInv'
<1> DEFINE t == [pc |-> "read", frame |-> NoFrame]
           f == task[k].frame
<1>1. t \in TaskStates /\ t.pc = "read" /\ task' = [task EXCEPT ![k] = t]
  BY ReadTask, Zenon DEF ToRead
<1> HIDE DEF t
<1>2. f \in Frames /\ outcome[f.cmd] = "sent" /\ SentInv /\ queue' = Append(queue, f)
  BY Zenon DEF TransportInv, SentInv
<1> HIDE DEF f
<1>3. /\ queue \in Seq(Frames) /\ QueueCapacity \in Nat
      /\ \A i \in DOMAIN queue : outcome[queue[i].cmd] = "sent"
  BY <1>2, TransportAssumption, ZenonT(30) DEF SentInv
<1>4. /\ queue' \in Seq(Frames) /\ Len(queue') <= QueueCapacity
      /\ \A i \in DOMAIN queue' : queue'[i] = f \/ (i \in DOMAIN queue /\ queue'[i] = queue[i])
  BY <1>2, <1>3
<1>5. \A i \in DOMAIN queue' : outcome[queue'[i].cmd] = "sent"
  BY <1>2, <1>3, <1>4, ZenonT(30)
<1>6. task[k].pc # "none" /\ "read" \notin {"recorded", "sending", "none"}
  BY ZenonT(30)
<1>7. QED
  BY <1>1, <1>2, <1>4, <1>5, <1>6, TaskMoves, Zenon DEF SentInv

\* The command a task has recorded is offered to the queue, or waits for a place, or is
\* dropped.
LEMMA OfferKeeps ==
  ASSUME TransportInv, NEW k \in Connections, Offer(k) \/ SendSucceeds(k) \/ SendTimesOut(k)
  PROVE  TransportInv'
<1>1. UNCHANGED <<notifierVars, wire, ends, faults>> /\ task[k].pc \in {"recorded", "sending"}
  BY Zenon DEF Offer, SendSucceeds, SendTimesOut, Sending
<1>2. CASE ToRead(k) /\ queue' = queue /\ \E how \in Settlements : Settle(task[k].frame.cmd, how)
  BY <1>1, <1>2, TaskSettles, Zenon
<1>3. CASE ToRead(k) /\ Len(queue) < QueueCapacity /\ queue' = Append(queue, task[k].frame) /\ settled' = settled
  BY <1>1, <1>3, TaskEnqueues, Zenon
<1>4. CASE task' = [task EXCEPT ![k].pc = "sending"] /\ UNCHANGED <<queue, settled>>
  <2> DEFINE t == [task[k] EXCEPT !.pc = "sending"]
  <2>1. task[k] \in TaskStates /\ task' = [task EXCEPT ![k] = t]
    BY <1>4, Standing, ZenonT(30)
  <2>2. t \in TaskStates /\ t.pc = "sending" /\ t.frame = task[k].frame
    BY <2>1, ZenonT(30) DEF TaskStates
  <2> HIDE DEF t
  <2>3. task[k].frame \in Frames /\ outcome[task[k].frame.cmd] = "sent" /\ SentInv
    BY <1>1, Zenon DEF TransportInv, SentInv
  <2>4. task[k].pc # "none" /\ "sending" # "none"
    BY <1>1, ZenonT(30)
  <2>5. /\ queue' \in Seq(Frames) /\ Len(queue') <= QueueCapacity
        /\ \A i \in DOMAIN queue' : outcome[queue'[i].cmd] = "sent"
        /\ settled' \in [Commands -> Settlements]
        /\ \A c \in Commands : settled'[c] # "none" => outcome[c] = "sent"
    BY <1>4, <2>3, Zenon DEF SentInv
  <2>6. QED
    BY <1>1, <2>1, <2>2, <2>3, <2>4, <2>5, TaskMoves, Zenon
<1>5. "unregistered" \in Settlements /\ "full" \in Settlements
  BY DEF Settlements
<1>6. QED
  BY <1>2, <1>3, <1>4, <1>5, ZenonT(30) DEF Offer, SendSucceeds, SendTimesOut

\* read_exact takes a whole frame, and handle_notification accepts or drops it.
LEMMA ReadKeeps ==
  ASSUME TransportInv, NEW k \in Connections, ReadFrame(k)
  PROVE  TransportInv'
<1> DEFINE w == wire[k]
           v == SubSeq(w, 3, Len(w))
           f == w[1].frame
<1>1. /\ task[k].pc = "read" /\ Len(w) >= 2 /\ wire' = [wire EXCEPT ![k] = v]
      /\ Handle(k, f) /\ UNCHANGED <<notifierVars, ends, queue, channel, io, faults>>
  BY ZenonT(30) DEF ReadFrame
<1>2. wire \in [Connections -> Seq(HalfStates)] /\ w \in Seq(HalfStates) /\ Intact(w) /\ SentInv
  <2>1. wire \in [Connections -> Seq(HalfStates)]
    BY Zenon DEF TransportInv, WireInv
  <2>2. QED
    BY <2>1, Zenon DEF TransportInv, WireInv
<1>3. /\ v \in Seq(HalfStates) /\ Len(v) = Len(w) - 2 /\ Intact(v)
      /\ DOMAIN w = 1 .. Len(w) /\ DOMAIN v = 1 .. Len(w) - 2 /\ Len(w) \in Nat
      /\ \A i \in DOMAIN v : i + 2 \in DOMAIN w /\ v[i] = w[i + 2]
      /\ AtBoundary(w) => AtBoundary(v)
      /\ \A g \in Frames : InFrame(w, g) => InFrame(v, g)
      /\ f \in Frames /\ 2 \in DOMAIN w /\ w[2].frame = f /\ w[2].half = 2
  <2> HIDE DEF w
  <2>1. QED
    BY <1>1, <1>2, FrameRead, Zenon
<1>4. outcome[f.cmd] = "sent" /\ f.cmd \in Commands
  <2>1. f.cmd \in Commands
    BY <1>3 DEF Frames
  <2>2. outcome[w[2].frame.cmd] = "sent"
    BY <1>2, <1>3, Zenon DEF SentInv
  <2>3. QED
    BY <1>3, <2>1, <2>2, Zenon
<1>5. wire'[k] = v /\ wire' \in [Connections -> Seq(HalfStates)] /\ \A j \in Connections : j # k => wire'[j] = wire[j]
  <2> HIDE DEF v
  <2>1. QED
    BY <1>1, <1>2, <1>3
<1> HIDE DEF v, w, f
<1>6. \E t \in TaskStates : /\ task' = [task EXCEPT ![k] = t] /\ t.pc \in {"read", "recorded"}
                            /\ t.pc = "recorded" => t.frame = f
  <2>1. CASE ToRead(k)
    BY <2>1, ReadTask, Zenon DEF ToRead
  <2>2. CASE task' = [task EXCEPT ![k] = [pc |-> "recorded", frame |-> f]]
    <3>1. [pc |-> "recorded", frame |-> f] \in TaskStates /\ [pc |-> "recorded", frame |-> f].pc = "recorded"
          /\ [pc |-> "recorded", frame |-> f].frame = f
      BY <1>3 DEF TaskStates
    <3>2. QED
      BY <2>2, <3>1, Zenon
  <2>3. QED
    BY <1>1, <2>1, <2>2, Zenon DEF Handle
<1>7. PICK t \in TaskStates : /\ task' = [task EXCEPT ![k] = t] /\ t.pc \in {"read", "recorded"}
                              /\ t.pc = "recorded" => t.frame = f
  BY <1>6, Zenon
<1>8. /\ settled' \in [Commands -> Settlements]
      /\ \A d \in Commands : settled'[d] # "none" => outcome[d] = "sent"
  <2>1. settled' = settled \/ \E how \in Settlements : Settle(f.cmd, how)
    <3>1. {"expired", "stale", "duplicate"} \subseteq Settlements
      BY ZenonT(30) DEF Settlements
    <3>2. QED
      BY <1>1, <3>1, Zenon DEF Handle
  <2>2. QED
    BY <1>2, <1>4, <2>1, Settled, Zenon DEF SentInv
<1>9. NotifierInv' /\ UNCHANGED <<expired, notifier, call, outcome, frame, order>>
  BY <1>1, NotifierStands, Standing DEF TransportInv
<1>10. /\ task' \in [Connections -> TaskStates] /\ task'[k] = t
       /\ \A j \in Connections : j # k => task'[j] = task[j]
  BY <1>7, Standing, ZenonT(30)
<1>11. task[k].pc # "none" /\ t.pc # "none" /\ (t.pc \in {"recorded", "sending"} => t.pc = "recorded")
  BY <1>1, <1>7
<1>12. \A j \in Connections : task'[j].pc = "none" <=> task[j].pc = "none"
  BY <1>10, <1>11, Zenon
<1>13. notifier.stream # NoConnection => notifier.stream \in Connections
  BY NotifierTyped, Zenon DEF TransportInv
<1>14. StreamInv'
  BY <1>1, <1>9, <1>10, <1>12, <1>13, Zenon DEF TransportInv, StreamInv
<1>15. WireInv'
  <2>1. \A j \in Connections : /\ Len(wire'[j]) <= WireCapacity /\ Intact(wire'[j])
                               /\ task'[j].pc = "none" => wire'[j] = <<>>
    <3>1. Len(v) <= WireCapacity
      <4>1. Len(w) <= WireCapacity /\ WireCapacity \in Nat
        BY TransportAssumption DEF TransportInv, WireInv, w
      <4>2. QED
        BY <1>3, <4>1
    <3>2. QED
      BY <1>3, <1>5, <1>11, <1>12, <3>1, Zenon DEF TransportInv, WireInv
  <2>2. \A j \in Connections : AtBoundary(wire[j]) => AtBoundary(wire'[j])
    BY <1>3, <1>5, Zenon DEF w
  <2>3. \A j \in Connections, g \in Frames : InFrame(wire[j], g) => InFrame(wire'[j], g)
    BY <1>3, <1>5, Zenon DEF w
  <2>4. notifier'.stream # NoConnection /\ "rx" \in ends'[notifier'.stream] => AtBoundary(wire'[notifier'.stream])
    BY <1>1, <1>9, <1>13, <2>2, Zenon DEF TransportInv, WireInv
  <2>5. call'.pc = "write" /\ "rx" \in ends'[call'.stream] =>
          IF call'.written = 0
            THEN AtBoundary(wire'[call'.stream])
            ELSE InFrame(wire'[call'.stream], frame'[call'.cmd])
    <3>1. call.pc = "write" => call.stream \in Connections /\ frame[call.cmd] \in Frames
      BY Zenon DEF TransportInv, StreamInv, NotifierInv
    <3>2. QED
      BY <1>1, <1>9, <2>2, <2>3, <3>1, Zenon DEF TransportInv, WireInv
  <2>6. QED
    BY <1>5, <2>1, <2>4, <2>5, Zenon DEF WireInv
<1>16. SentInv'
  <2>1. \A j \in Connections : \A i \in DOMAIN wire'[j] : \E n \in DOMAIN wire[j] : wire'[j][i] = wire[j][n]
    <3>1. \A i \in DOMAIN v : \E n \in DOMAIN w : v[i] = w[n]
      BY <1>3, Zenon
    <3>2. ASSUME NEW j \in Connections, NEW i \in DOMAIN wire'[j]
          PROVE  \E n \in DOMAIN wire[j] : wire'[j][i] = wire[j][n]
      <4>1. CASE j = k
        BY <1>5, <3>1, <3>2, <4>1, Zenon DEF w
      <4>2. CASE j # k
        <5>1. wire'[j] = wire[j]
          BY <1>5, <4>2, Zenon
        <5>2. QED
          BY <3>2, <5>1, Zenon
      <4>3. QED
        BY <4>1, <4>2, Zenon
    <3>3. QED
      BY <3>2, Zenon
  <2>2. ASSUME NEW j \in Connections, NEW i \in DOMAIN wire'[j], wire'[j][i].half = 2
        PROVE  outcome'[wire'[j][i].frame.cmd] = "sent"
    <3>1. PICK n \in DOMAIN wire[j] : wire'[j][i] = wire[j][n]
      BY <2>1, Zenon
    <3>2. outcome[wire[j][n].frame.cmd] = "sent"
      BY <1>2, <2>2, <3>1, Zenon DEF SentInv
    <3>3. QED
      BY <1>9, <3>1, <3>2, Zenon
  <2>3. ASSUME NEW j \in Connections, task'[j].pc \in {"recorded", "sending"}
        PROVE  task'[j].frame \in Frames /\ outcome'[task'[j].frame.cmd] = "sent"
    <3>1. CASE j = k
      BY <1>3, <1>4, <1>7, <1>9, <1>10, <1>11, <2>3, <3>1, Zenon
    <3>2. CASE j # k
      BY <1>2, <1>9, <1>10, <2>3, <3>2, Zenon DEF SentInv
    <3>3. QED
      BY <3>1, <3>2, Zenon
  <2>4. QED
    BY <1>1, <1>2, <1>8, <1>9, <2>2, <2>3, ZenonT(30) DEF SentInv
<1>17. QED
  BY <1>9, <1>14, <1>15, <1>16, Zenon DEF TransportInv

\* An empty connection.
LEMMA NothingWritten ==
  <<>> \in Seq(HalfStates) /\ Len(<<>>) <= WireCapacity /\ Intact(<<>>) /\ AtBoundary(<<>>) /\ DOMAIN <<>> = {}
BY TransportAssumption DEF Intact, AtBoundary

\* Connections end at the listener's side, and the queue and the settlements change.
LEMMA ConnectionsEnd ==
  ASSUME TransportInv, UNCHANGED notifierVars, faults' \in 0 .. MaxFaults, faults <= faults',
         wire' \in [Connections -> Seq(HalfStates)],
         ends' \in [Connections -> SUBSET {"tx", "rx"}],
         task' \in [Connections -> TaskStates],
         \A j \in Connections :
           /\ "tx" \in ends[j] => "tx" \in ends'[j]
           /\ task'[j].pc = "none" <=> task[j].pc = "none"
           /\ task'[j].pc \in {"recorded", "sending"} => task'[j] = task[j]
           /\ \/ wire'[j] = wire[j] /\ ends'[j] = ends[j]
              \/ wire'[j] = <<>> /\ "rx" \notin ends'[j],
         queue' \in Seq(Frames), Len(queue') <= QueueCapacity,
         \A i \in DOMAIN queue' : outcome[queue'[i].cmd] = "sent",
         settled' \in [Commands -> Settlements],
         \A c \in Commands : settled'[c] # "none" => outcome[c] = "sent"
  PROVE  TransportInv'
<1>1. NotifierInv' /\ UNCHANGED <<expired, notifier, call, outcome, frame, order>>
  BY NotifierStands, Zenon DEF TransportInv
<1>2. /\ notifier.stream # NoConnection => notifier.stream \in Connections
      /\ call.pc = "write" => call.stream \in Connections
  BY NotifierTyped, Zenon DEF TransportInv, StreamInv
<1>3. StreamInv'
  BY <1>1, <1>2, Zenon DEF TransportInv, StreamInv
<1>4. WireInv'
  <2>1. ASSUME NEW j \in Connections
        PROVE  /\ Len(wire'[j]) <= WireCapacity /\ Intact(wire'[j])
               /\ task'[j].pc = "none" => wire'[j] = <<>>
    BY NothingWritten, Zenon DEF TransportInv, WireInv
  <2>2. \A j \in Connections : "rx" \in ends'[j] => "rx" \in ends[j] /\ wire'[j] = wire[j]
    BY Zenon
  <2>3. QED
    BY <1>1, <1>2, <2>1, <2>2, ZenonT(30) DEF TransportInv, WireInv
<1>5. SentInv'
  <2>1. ASSUME NEW j \in Connections, NEW i \in DOMAIN wire'[j], wire'[j][i].half = 2
        PROVE  outcome'[wire'[j][i].frame.cmd] = "sent"
    <3>1. wire'[j] = wire[j]
      BY <2>1, NothingWritten, Zenon
    <3>2. i \in DOMAIN wire[j] /\ wire[j][i].half = 2 /\ SentInv
      BY <2>1, <3>1, Zenon DEF TransportInv
    <3>3. outcome[wire[j][i].frame.cmd] = "sent"
      BY <3>2 DEF SentInv
    <3>4. QED
      BY <1>1, <3>1, <3>3, Zenon
  <2>2. ASSUME NEW j \in Connections, task'[j].pc \in {"recorded", "sending"}
        PROVE  task'[j].frame \in Frames /\ outcome'[task'[j].frame.cmd] = "sent"
    <3>1. task'[j] = task[j]
      BY <2>2, Zenon
    <3>2. task[j].pc \in {"recorded", "sending"} /\ SentInv
      BY <2>2, <3>1, Zenon DEF TransportInv
    <3>3. task[j].frame \in Frames /\ outcome[task[j].frame.cmd] = "sent"
      BY <3>2, Zenon DEF SentInv
    <3>4. QED
      BY <1>1, <3>1, <3>3, Zenon
  <2>3. QED
    BY <1>1, <2>1, <2>2, ZenonT(30) DEF SentInv
<1>6. QED
  BY <1>1, <1>3, <1>4, <1>5, Zenon DEF TransportInv

\* The queue and the settlements change, the connections do not.
LEMMA ConnectionsStand ==
  ASSUME TransportInv, UNCHANGED <<notifierVars, wire, ends, task>>,
         faults' \in 0 .. MaxFaults, faults <= faults',
         queue' \in Seq(Frames), Len(queue') <= QueueCapacity,
         \A i \in DOMAIN queue' : outcome[queue'[i].cmd] = "sent",
         settled' \in [Commands -> Settlements],
         \A c \in Commands : settled'[c] # "none" => outcome[c] = "sent"
  PROVE  TransportInv'
<1>1. /\ UNCHANGED notifierVars
      /\ wire' \in [Connections -> Seq(HalfStates)] /\ wire' = wire
      /\ ends' \in [Connections -> SUBSET {"tx", "rx"}] /\ ends' = ends
      /\ task' \in [Connections -> TaskStates] /\ task' = task
  BY Zenon DEF TransportInv, StreamInv, WireInv
<1>2. QED
  BY <1>1, ConnectionsEnd, Zenon

\* The bound on faults, as an action leaves it.
LEMMA FaultCounted ==
  ASSUME TransportInv, (\E n \in Nat : Fault(n)) \/ faults' = faults
  PROVE  faults' \in 0 .. MaxFaults /\ faults <= faults'
<1>1. faults \in 0 .. MaxFaults /\ MaxFaults \in Nat
  BY Standing, Zenon
<1>2. QED
  BY <1>1 DEF Fault

\* A stream that ends is one that nobody can write to any more.
LEMMA EndOfStreamKeeps ==
  ASSUME TransportInv, NEW k \in Connections, EndOfStream(k)
  PROVE  TransportInv'
<1> DEFINE t == [task[k] EXCEPT !.pc = "ended"]
<1>1. /\ task[k].pc = "read" /\ "tx" \notin ends[k] /\ task' = [task EXCEPT ![k] = t]
      /\ ends' = [ends EXCEPT ![k] = {}] /\ wire' = [wire EXCEPT ![k] = <<>>]
      /\ UNCHANGED <<queue, settled, faults>> /\ UNCHANGED notifierVars
  BY ZenonT(30) DEF EndOfStream
<1>2. /\ ends \in [Connections -> SUBSET {"tx", "rx"}] /\ task \in [Connections -> TaskStates]
      /\ wire \in [Connections -> Seq(HalfStates)] /\ SentInv
  BY Zenon DEF TransportInv, StreamInv, WireInv
<1>3. t \in TaskStates /\ t.pc = "ended"
  BY <1>2, ZenonT(30) DEF TaskStates
<1> HIDE DEF t
<1>4. /\ task' \in [Connections -> TaskStates] /\ task'[k] = t
      /\ ends' \in [Connections -> SUBSET {"tx", "rx"}] /\ ends'[k] = {}
      /\ wire' \in [Connections -> Seq(HalfStates)] /\ wire'[k] = <<>>
      /\ \A j \in Connections : j # k => task'[j] = task[j] /\ ends'[j] = ends[j] /\ wire'[j] = wire[j]
  BY <1>1, <1>2, <1>3, NothingWritten, ZenonT(30)
<1>5. faults' \in 0 .. MaxFaults /\ faults <= faults'
  BY <1>1, FaultCounted, ZenonT(30)
<1>6. "read" # "none" /\ "ended" \notin {"none", "recorded", "sending"}
  BY ZenonT(30)
<1>7. ASSUME NEW j \in Connections
      PROVE  /\ "tx" \in ends[j] => "tx" \in ends'[j]
             /\ task'[j].pc = "none" <=> task[j].pc = "none"
             /\ task'[j].pc \in {"recorded", "sending"} => task'[j] = task[j]
             /\ \/ wire'[j] = wire[j] /\ ends'[j] = ends[j]
                \/ wire'[j] = <<>> /\ "rx" \notin ends'[j]
  BY <1>1, <1>3, <1>4, <1>6, Zenon
<1>8. /\ queue' \in Seq(Frames) /\ Len(queue') <= QueueCapacity
      /\ \A i \in DOMAIN queue' : outcome[queue'[i].cmd] = "sent"
      /\ settled' \in [Commands -> Settlements]
      /\ \A c \in Commands : settled'[c] # "none" => outcome[c] = "sent"
  BY <1>1, <1>2, Zenon DEF SentInv
<1>9. QED
  BY <1>1, <1>4, <1>5, <1>7, <1>8, ConnectionsEnd, Zenon

\* A stop of the IO process empties every connection; nobody writes to one without a
\* reader.
LEMMA IoStopsKeeps ==
  ASSUME TransportInv, IoStops
  PROVE  TransportInv'
<1>1. /\ Fault(1) /\ UNCHANGED notifierVars /\ queue' = <<>>
      /\ wire' = [k \in Connections |-> <<>>]
      /\ ends' = [k \in Connections |-> ends[k] \ {"rx"}]
      /\ task' = [k \in Connections |->
                    [pc |-> IF task[k].pc = "none" THEN "none" ELSE "ended", frame |-> NoFrame]]
      /\ settled' = [c \in Commands |->
                       IF outcome[c] = "sent" /\ settled[c] = "none" THEN "lost" ELSE settled[c]]
  BY ZenonT(30) DEF IoStops
<1>2. /\ ends \in [Connections -> SUBSET {"tx", "rx"}] /\ SentInv
  BY Zenon DEF TransportInv, StreamInv
<1>3. wire' \in [Connections -> Seq(HalfStates)] /\ \A j \in Connections : wire'[j] = <<>>
  BY <1>1, NothingWritten, ZenonT(30)
<1>4. /\ ends' \in [Connections -> SUBSET {"tx", "rx"}]
      /\ \A j \in Connections : "rx" \notin ends'[j] /\ ("tx" \in ends[j] => "tx" \in ends'[j])
  BY <1>1, <1>2, ZenonT(30)
<1>5. /\ task' \in [Connections -> TaskStates]
      /\ \A j \in Connections : /\ task'[j].pc = "none" <=> task[j].pc = "none"
                                /\ task'[j].pc \notin {"recorded", "sending"}
  BY <1>1, ZenonT(30) DEF TaskStates
<1>6. settled' \in [Commands -> Settlements] /\ \A c \in Commands : settled'[c] # "none" => outcome[c] = "sent"
  BY <1>1, <1>2, ZenonT(30) DEF SentInv, Settlements
<1>7. queue' \in Seq(Frames) /\ Len(queue') <= QueueCapacity /\ DOMAIN queue' = {}
  BY <1>1, TransportAssumption
<1>8. faults' \in 0 .. MaxFaults /\ faults <= faults'
  BY <1>1, FaultCounted, ZenonT(30)
<1>9. QED
  BY <1>1, <1>3, <1>4, <1>5, <1>6, <1>7, <1>8, ConnectionsEnd, Zenon

\* The channel task takes a command from its queue and executes or rejects it.
LEMMA ExecuteKeeps ==
  ASSUME TransportInv, Execute
  PROVE  TransportInv'
<1> DEFINE c == Head(queue).cmd
           how == IF c \in expired THEN "rejected" ELSE "executed"
<1>1. /\ queue # <<>> /\ Settle(c, how) /\ queue' = Tail(queue)
      /\ UNCHANGED <<notifierVars, wire, ends, task>> /\ faults' = faults
  BY ZenonT(30) DEF Execute
<1>2. /\ queue \in Seq(Frames) /\ Len(queue) <= QueueCapacity /\ QueueCapacity \in Nat
      /\ \A i \in DOMAIN queue : outcome[queue[i].cmd] = "sent"
      /\ SentInv
  BY TransportAssumption, Zenon DEF TransportInv, SentInv
<1>3. /\ queue' \in Seq(Frames) /\ Len(queue') <= QueueCapacity
      /\ 1 \in DOMAIN queue /\ Head(queue) = queue[1] /\ Head(queue) \in Frames
      /\ \A i \in DOMAIN queue' : i + 1 \in DOMAIN queue /\ queue'[i] = queue[i + 1]
  BY <1>1, <1>2
<1>4. c \in Commands /\ how \in Settlements
  BY <1>3 DEF Frames, Settlements
<1> HIDE DEF how
<1>5. outcome[c] = "sent" /\ \A i \in DOMAIN queue' : outcome[queue'[i].cmd] = "sent"
  BY <1>2, <1>3, Zenon
<1>6. faults' \in 0 .. MaxFaults /\ faults <= faults'
  BY <1>1, FaultCounted, ZenonT(30)
<1> HIDE DEF c
<1>7. settled' \in [Commands -> Settlements] /\ \A d \in Commands : settled'[d] # "none" => outcome[d] = "sent"
  BY <1>1, <1>2, <1>4, <1>5, Settled, Zenon
<1>8. QED
  BY <1>1, <1>3, <1>5, <1>6, <1>7, ConnectionsStand, Zenon

\* A channel is removed and created again, with what its queue held.
LEMMA ChannelKeeps ==
  ASSUME TransportInv, RemoveChannel \/ Manage \/ IoStarts
  PROVE  TransportInv'
<1>1. UNCHANGED <<notifierVars, wire, ends, task>>
  BY Zenon DEF RemoveChannel, Manage, UnregisterChannel, ChannelStops, CreateChannel, RegisterChannel, IoStarts,
               SetChannel
<1>2. faults' \in 0 .. MaxFaults /\ faults <= faults'
  <2>1. Fault(1) \/ faults' = faults
    BY Zenon DEF RemoveChannel, Manage, UnregisterChannel, ChannelStops, CreateChannel, RegisterChannel, IoStarts
  <2>2. QED
    BY <2>1, FaultCounted
<1>3. SentInv
  BY DEF TransportInv
<1>4. CASE UNCHANGED <<queue, settled>>
  <2>1. /\ queue' \in Seq(Frames) /\ Len(queue') <= QueueCapacity
        /\ \A i \in DOMAIN queue' : outcome[queue'[i].cmd] = "sent"
        /\ settled' \in [Commands -> Settlements]
        /\ \A c \in Commands : settled'[c] # "none" => outcome[c] = "sent"
    BY <1>3, <1>4, Zenon DEF SentInv
  <2>2. QED
    BY <1>1, <1>2, <2>1, ConnectionsStand, Zenon
<1>5. CASE ChannelStops
  <2>1. /\ queue' = <<>>
        /\ settled' = [c \in Commands |-> IF \E i \in DOMAIN queue : queue[i].cmd = c
                                            THEN "lost" ELSE settled[c]]
    BY <1>5, ZenonT(30) DEF ChannelStops
  <2>2. queue' \in Seq(Frames) /\ Len(queue') <= QueueCapacity /\ DOMAIN queue' = {}
    BY <2>1, TransportAssumption
  <2>3. \A i \in DOMAIN queue : outcome[queue[i].cmd] = "sent"
    BY <1>3, Zenon DEF SentInv
  <2>4. settled' \in [Commands -> Settlements]
    BY <1>3, <2>1, ZenonT(30) DEF SentInv, Settlements
  <2>5. ASSUME NEW c \in Commands, settled'[c] # "none"
        PROVE  outcome[c] = "sent"
    <3>1. CASE \E i \in DOMAIN queue : queue[i].cmd = c
      BY <2>3, <3>1, Zenon
    <3>2. CASE ~ \E i \in DOMAIN queue : queue[i].cmd = c
      <4>1. settled'[c] = settled[c]
        BY <2>1, <3>2, Zenon
      <4>2. QED
        BY <1>3, <2>5, <4>1, Zenon DEF SentInv
    <3>3. QED
      BY <3>1, <3>2, Zenon
  <2>6. QED
    BY <1>1, <1>2, <2>2, <2>4, <2>5, ConnectionsStand, Zenon
<1>6. QED
  BY <1>4, <1>5, Zenon DEF RemoveChannel, Manage, UnregisterChannel, CreateChannel, RegisterChannel, IoStarts

-----------------------------------------------------------------------------
\* The notifier starts with a stream at a boundary and nothing sent.
LEMMA TransportStarts == Init => TransportInv
<1> SUFFICES ASSUME Init PROVE TransportInv
  BY ZenonT(30)
<1>1. MaxFaults \in Nat /\ SeqModulus \in Nat /\ Starts \subseteq 1 .. SeqModulus - 1 /\ QueueCapacity \in Nat
  BY TransportAssumption, ZenonT(30)
<1>2. PICK s \in Starts : notifier = [producer |-> 1, next |-> s, stream |-> 1, cooling |-> FALSE]
  BY ZenonT(30) DEF Init
<1>3. 1 \in Connections /\ 1 \in Producers /\ s \in 1 .. SeqModulus - 1 /\ 1 # NoConnection
  BY <1>1 DEF Connections, Producers, NoConnection
<1>4. call.pc = "idle" /\ call = Idle
  BY IdleCall DEF Init
<1>5. NotifierInv
  <2>1. notifier \in NotifierStates /\ notifier.producer = 1 /\ notifier.stream = 1
    BY <1>2, <1>3, ZenonT(30) DEF NotifierStates
  <2>2. faults = 0 /\ faults \in 0 .. MaxFaults /\ 1 <= 0 + 1
    BY <1>1 DEF Init
  <2>3. outcome \in [Commands -> {"new", "sent", "failed"}] /\ frame \in [Commands -> Frames \cup {NoFrame}]
    BY ZenonT(30) DEF Init
  <2>4. expired = {} /\ call.pc \notin {"attempt", "write"}
    BY <1>4 DEF Init
  <2>5. QED
    BY <1>4, <2>1, <2>2, <2>3, <2>4, ZenonT(30) DEF NotifierInv
<1>6. StreamInv
  <2>1. ends = [k \in Connections |-> IF k = 1 THEN {"tx", "rx"} ELSE {}]
        /\ task = [k \in Connections |-> [pc |-> IF k = 1 THEN "read" ELSE "none", frame |-> NoFrame]]
    BY ZenonT(30) DEF Init
  <2>2. /\ ends \in [Connections -> SUBSET {"tx", "rx"}] /\ "tx" \in ends[1]
        /\ task \in [Connections -> TaskStates] /\ task[1].pc # "none"
    BY <1>3, <2>1, ZenonT(30) DEF TaskStates
  <2>3. notifier.stream = 1 /\ call.pc # "write" /\ call = Idle
    BY <1>2, <1>4
  <2>4. QED
    BY <2>2, <2>3, Zenon DEF StreamInv
<1>7. WireInv
  <2>1. wire \in [Connections -> Seq(HalfStates)] /\ \A k \in Connections : wire[k] = <<>>
    BY NothingWritten, ZenonT(30) DEF Init
  <2>2. notifier.stream = 1 /\ call.pc # "write"
    BY <1>2, <1>4
  <2>3. QED
    BY <1>3, <2>1, <2>2, NothingWritten, Zenon DEF WireInv
<1>8. SentInv
  <2>1. \A k \in Connections : DOMAIN wire[k] = {}
    BY NothingWritten, ZenonT(30) DEF Init
  <2>2. \A k \in Connections : task[k].pc \notin {"recorded", "sending"}
    BY ZenonT(30) DEF Init
  <2>3. queue \in Seq(Frames) /\ Len(queue) <= QueueCapacity /\ DOMAIN queue = {}
    BY <1>1 DEF Init
  <2>4. settled \in [Commands -> Settlements] /\ \A c \in Commands : settled[c] = "none"
    BY DEF Init, Settlements
  <2>5. QED
    BY <2>1, <2>2, <2>3, <2>4, Zenon DEF SentInv
<1>9. QED
  BY <1>5, <1>6, <1>7, <1>8, ZenonT(30) DEF TransportInv

\* A step of another part of the system.
LEMMA TransportUnchanged ==
  ASSUME TransportInv, UNCHANGED vars
  PROVE  TransportInv'
<1>1. UNCHANGED <<notifierVars, wire, ends, task>> /\ UNCHANGED <<queue, settled, faults>>
  BY Zenon DEF vars, notifierVars
<1>2. /\ queue' \in Seq(Frames) /\ Len(queue') <= QueueCapacity
      /\ \A i \in DOMAIN queue' : outcome[queue'[i].cmd] = "sent"
      /\ settled' \in [Commands -> Settlements]
      /\ \A c \in Commands : settled'[c] # "none" => outcome[c] = "sent"
  BY <1>1, Zenon DEF TransportInv, SentInv
<1>3. faults' \in 0 .. MaxFaults /\ faults <= faults'
  BY <1>1, FaultCounted, ZenonT(30)
<1>4. QED
  BY <1>1, <1>2, <1>3, ConnectionsStand, Zenon

\* Every step keeps the invariant.
LEMMA TransportKept == TransportInv /\ [Next]_vars => TransportInv'
<1> SUFFICES ASSUME TransportInv, [Next]_vars PROVE TransportInv'
  OBVIOUS
<1>1. CASE \E c \in Commands : Begin(c) \/ Expire(c)
  BY <1>1, BeginKeeps, TimePasses, Zenon
<1>2. CASE Notify
  BY <1>2, TakeKeeps, AttemptKeeps, WriteHalfKeeps, WriteFailsKeeps, InterruptionKeeps, Zenon DEF Notify
<1>3. CASE BackoffElapses \/ AutomationRestarts
  BY <1>3, TimePasses, RestartKeeps, Zenon
<1>4. CASE \E k \in Connections : Listen(k)
  BY <1>4, ReadKeeps, OfferKeeps, EndOfStreamKeeps, Zenon DEF Listen
<1>5. CASE Execute \/ RemoveChannel \/ Manage \/ IoStops \/ IoStarts
  BY <1>5, ExecuteKeeps, ChannelKeeps, IoStopsKeeps, Zenon
<1>6. CASE UNCHANGED vars
  BY <1>6, TransportUnchanged, Zenon
<1>7. QED
  BY <1>1, <1>2, <1>3, <1>4, <1>5, <1>6, ZenonT(30) DEF Next

\* The invariant says that connections carry whole frames and failures nothing.
LEMMA HarmlessHere == TransportInv => FailuresHarmless
<1> SUFFICES ASSUME TransportInv PROVE FailuresHarmless
  OBVIOUS
<1>1. TypeOK
  <2>1. expired \subseteq Commands /\ notifier \in NotifierStates /\ \A c \in Commands : frame[c] \in Frames \cup {NoFrame}
    BY Standing, ZenonT(30)
  <2>2. \A k \in Connections : Len(wire[k]) <= WireCapacity
    BY Zenon DEF TransportInv, WireInv
  <2>3. \A k \in Connections : ends[k] \subseteq {"tx", "rx"}
    BY Standing, ZenonT(30)
  <2>4. Len(queue) <= QueueCapacity
    BY Zenon DEF TransportInv, SentInv
  <2>5. call # Idle => call.attempt < SendRetries
    <3>1. call # Idle => call \in CallStates
      BY Zenon DEF TransportInv, NotifierInv
    <3>2. QED
      BY <3>1 DEF CallStates, SendRetries
  <2>6. QED
    BY <2>1, <2>2, <2>3, <2>4, <2>5, Zenon DEF TypeOK, NotifierStates
<1>2. FramesIntact
  BY Zenon DEF TransportInv, WireInv, Intact, FramesIntact
<1>3. FailedNeverReachIo
  <2>1. "failed" # "sent"
    OBVIOUS
  <2>2. QED
    BY <2>1, Zenon DEF TransportInv, SentInv, FailedNeverReachIo
<1>4. QED
  BY <1>1, <1>2, <1>3, ZenonT(30) DEF FailuresHarmless

(***************************************************************************)
(* For any number of commands, points and faults, any capacities and any   *)
(* counter: whatever is cancelled, times out, fails, is restarted or       *)
(* removed, a connection to ShmCommandListener carries whole frames with   *)
(* at most one half behind them, and a command for which                   *)
(* CommandNotifier::notify reported an error never reaches the IO side.    *)
(***************************************************************************)
THEOREM FailuresAlwaysHarmless == Spec => []FailuresHarmless
<1>1. Init => TransportInv
  BY TransportStarts, ZenonT(30)
<1>2. TransportInv /\ [Next]_vars => TransportInv'
  BY TransportKept, ZenonT(30)
<1>3. TransportInv => FailuresHarmless
  BY HarmlessHere, ZenonT(30)
<1>4. QED
  BY <1>1, <1>2, <1>3, PTL DEF Spec

-----------------------------------------------------------------------------
(* The order of issue *)

Issued(c) == \E i \in DOMAIN order : order[i] = c

\* The call has encoded the frame of its command.
Encoded(c) == call.pc \in {"attempt", "write"} /\ call.cmd = c

\* b is n numbers behind a; the counter has wrapped in between at most once.
Behind(a, b, n) == b - a = n \/ b - a = n - (SeqModulus - 1)

Once(s) == \A i, j \in DOMAIN s : s[i] = s[j] => i = j

OrderInv ==
  /\ order \in Seq(Commands) /\ Once(order)
  /\ \A c \in Commands : outcome[c] = "sent" \/ Encoded(c) => Issued(c)
  /\ \A c \in Commands : outcome[c] = "new" /\ ~Encoded(c) => ~Issued(c)

NumberInv ==
  /\ \A i \in DOMAIN order :
       /\ frame[order[i]] \in Frames /\ frame[order[i]].seq \in 1 .. SeqModulus - 1
       /\ frame[order[i]].cmd = order[i]
       /\ frame[order[i]].producer <= notifier.producer
       /\ frame[order[i]].producer = notifier.producer =>
            Behind(frame[order[i]].seq, notifier.next, Len(order) + 1 - i)
  /\ \A i, j \in DOMAIN order :
       i < j /\ frame[order[i]].producer = frame[order[j]].producer =>
         Behind(frame[order[i]].seq, frame[order[j]].seq, j - i)

\* A whole frame is the one that was encoded, is there once and was not accepted before.
CarriedInv ==
  \A k \in Connections : \A i \in DOMAIN wire[k] : wire[k][i].half = 2 =>
    /\ wire[k][i].frame = frame[wire[k][i].frame.cmd]
    /\ \A p \in Points : last[p] # wire[k][i].frame
    /\ \A l \in Connections : \A j \in DOMAIN wire[l] :
         wire[l][j].half = 2 /\ wire[l][j].frame = wire[k][i].frame => l = k /\ j = i

AcceptedInv ==
  /\ last \in [Points -> Frames \cup {NoFrame}]
  /\ \A p \in Points : last[p] # NoFrame =>
       /\ last[p] = frame[last[p].cmd] /\ PointOf[last[p].cmd] = p
       /\ outcome[last[p].cmd] = "sent"

Overtaken(c) ==
  \E d \in Commands :
    /\ PointOf[d] = PointOf[c] /\ frame[d].producer = frame[c].producer /\ outcome[d] = "sent"
    /\ \E i, j \in DOMAIN order : i < j /\ order[i] = c /\ order[j] = d

StaleInv == \A c \in Commands : settled[c] \in {"stale", "duplicate"} => Overtaken(c)

IssueInv == OrderInv /\ NumberInv /\ CarriedInv /\ AcceptedInv /\ StaleInv

-----------------------------------------------------------------------------
(* Numbers *)

\* The remainder of a number below the modulus.
LEMMA ModWithin ==
  ASSUME NEW m \in Nat \ {0}, NEW x \in Int, 0 <= x, x < m
  PROVE  x % m = x
OBVIOUS

\* The remainder of a negative number, as wrapping_sub computes it.
LEMMA ModBelow ==
  ASSUME NEW m \in Nat \ {0}, NEW x \in Int, -m < x, x < 0
  PROVE  x % m = x + m
OBVIOUS

\* Within half of the counter's range the comparison tells before from after.
LEMMA Window ==
  ASSUME NEW h \in Nat, h = (SeqModulus - 1) \div 2,
         NEW a \in 1 .. SeqModulus - 1, NEW b \in 1 .. SeqModulus - 1,
         NEW n \in Nat, 1 <= n, n <= h - 1, Behind(a, b, n)
  PROVE  (b - a) % SeqModulus <= h /\ (a - b) % SeqModulus > h /\ a # b
<1>1. SeqModulus \in Nat \ {0} /\ 2 * h <= SeqModulus - 1
  BY TransportAssumption
<1>2. CASE b - a = n
  <2>1. 0 <= b - a /\ b - a < SeqModulus /\ -SeqModulus < a - b /\ a - b < 0 /\ b - a \in Int /\ a - b \in Int
    BY <1>1, <1>2
  <2>2. (b - a) % SeqModulus = b - a
    BY <1>1, <2>1, ModWithin, ZenonT(30)
  <2>3. (a - b) % SeqModulus = a - b + SeqModulus
    BY <1>1, <2>1, ModBelow, ZenonT(30)
  <2>4. QED
    BY <1>1, <1>2, <2>2, <2>3
<1>3. CASE b - a = n - (SeqModulus - 1)
  <2>1. 0 <= a - b /\ a - b < SeqModulus /\ -SeqModulus < b - a /\ b - a < 0 /\ b - a \in Int /\ a - b \in Int
    BY <1>1, <1>3
  <2>2. (a - b) % SeqModulus = a - b
    BY <1>1, <2>1, ModWithin, ZenonT(30)
  <2>3. (b - a) % SeqModulus = b - a + SeqModulus
    BY <1>1, <2>1, ModBelow, ZenonT(30)
  <2>4. QED
    BY <1>1, <1>3, <2>2, <2>3
<1>4. QED
  BY <1>2, <1>3, ZenonT(30) DEF Behind

\* The next number is one further behind.
LEMMA NextBehind ==
  ASSUME NEW h \in Nat, h = (SeqModulus - 1) \div 2,
         NEW a \in 1 .. SeqModulus - 1, NEW b \in 1 .. SeqModulus - 1,
         NEW n \in Nat, n <= h - 1, Behind(a, b, n)
  PROVE  Behind(a, NextSequence(b), n + 1) /\ NextSequence(b) \in 1 .. SeqModulus - 1
<1>1. SeqModulus \in Nat /\ SeqModulus > 4 /\ 2 * h <= SeqModulus - 1
  BY TransportAssumption
<1>2. QED
  BY <1>1 DEF Behind, NextSequence

\* No more numbers are given out than there are commands.
LEMMA OrderBounded ==
  ASSUME NEW s \in Seq(Commands), Once(s)
  PROVE  Len(s) <= (SeqModulus - 1) \div 2
<1>1. s \in Injection(1 .. Len(s), Commands)
  BY DEF Once, Injection, IsInjective
<1>2. Cardinality(1 .. Len(s)) <= Cardinality(Commands) /\ IsFiniteSet(Commands)
  BY <1>1, FS_Injection, WindowAssumption, ZenonT(30)
<1>3. Len(s) \in Nat /\ Cardinality(1 .. Len(s)) = Len(s)
  <2>1. Len(s) \in Nat /\ Len(s) \in Int /\ 1 \in Int
    OBVIOUS
  <2>2. Cardinality(1 .. Len(s)) = IF 1 > Len(s) THEN 0 ELSE Len(s) - 1 + 1
    BY <2>1, FS_Interval, Zenon
  <2>3. QED
    BY <2>1, <2>2
<1>4. Cardinality(Commands) \in Nat /\ (SeqModulus - 1) \div 2 \in Nat
  BY <1>2, FS_CardinalityType, TransportAssumption
<1>5. QED
  BY <1>2, <1>3, <1>4, WindowAssumption

\* is_stale agrees with the order of issue.
LEMMA StaleIsEarlier ==
  ASSUME OrderInv, NumberInv, NEW i \in DOMAIN order, NEW j \in DOMAIN order,
         frame[order[i]].producer = frame[order[j]].producer
  PROVE  /\ IsStale(frame[order[i]], frame[order[j]]) => i < j
         /\ ~IsStale(frame[order[i]], frame[order[j]]) => i >= j
         /\ frame[order[i]].seq = frame[order[j]].seq => i = j
<1> DEFINE a == frame[order[i]].seq
           b == frame[order[j]].seq
           h == (SeqModulus - 1) \div 2
<1>1. h \in Nat /\ Len(order) <= h /\ Len(order) \in Nat /\ DOMAIN order = 1 .. Len(order)
  BY OrderBounded, TransportAssumption DEF OrderInv
<1>2. a \in 1 .. SeqModulus - 1 /\ b \in 1 .. SeqModulus - 1
  BY Zenon DEF NumberInv
<1>3. i < j => Behind(a, b, j - i)
  BY Zenon DEF NumberInv
<1>4. j < i => Behind(b, a, i - j)
  BY Zenon DEF NumberInv
<1>5. IsStale(frame[order[i]], frame[order[j]]) <=> (a - b) % SeqModulus > h
  BY ZenonT(30) DEF IsStale
<1> HIDE DEF a, b, h
<1>6. CASE i < j
  <2>1. (a - b) % SeqModulus > h /\ a # b
    <3>1. j - i \in Nat /\ 1 <= j - i /\ j - i <= h - 1
      BY <1>1, <1>6
    <3>2. QED
      BY <1>1, <1>2, <1>3, <1>6, <3>1, Window, ZenonT(30) DEF h
  <2>2. QED
    BY <1>1, <1>5, <1>6, <2>1, ZenonT(30) DEF a, b
<1>7. CASE j < i
  <2>1. (a - b) % SeqModulus <= h /\ a # b
    <3>1. i - j \in Nat /\ 1 <= i - j /\ i - j <= h - 1
      BY <1>1, <1>7
    <3>2. QED
      BY <1>1, <1>2, <1>4, <1>7, <3>1, Window, ZenonT(30) DEF h
  <2>2. ~IsStale(frame[order[i]], frame[order[j]])
    BY <1>1, <1>2, <1>5, <2>1, TransportAssumption
  <2>3. QED
    BY <1>1, <1>7, <2>1, <2>2 DEF a, b
<1>8. CASE i = j
  <2>1. (a - b) % SeqModulus = 0
    BY <1>2, <1>8, ModWithin, TransportAssumption DEF a, b
  <2>2. QED
    BY <1>1, <1>5, <1>8, <2>1
<1>9. i < j \/ j < i \/ i = j
  BY <1>1
<1>10. QED
  BY <1>6, <1>7, <1>8, <1>9, Zenon

\* The position of a command that was issued once.
LEMMA PositionOf ==
  ASSUME NEW s, Once(s), NEW i \in DOMAIN s
  PROVE  (CHOOSE n \in DOMAIN s : s[n] = s[i]) = i
<1>1. \E n \in DOMAIN s : s[n] = s[i]
  BY ZenonT(30)
<1>2. s[CHOOSE n \in DOMAIN s : s[n] = s[i]] = s[i] /\ (CHOOSE n \in DOMAIN s : s[n] = s[i]) \in DOMAIN s
  BY <1>1, ZenonT(30)
<1>3. QED
  BY <1>2, Zenon DEF Once

\* What the invariant says of dropped commands, in terms of positions.
LEMMA StaleHere == IssueInv => StaleOnlyIfNewer
<1> SUFFICES ASSUME IssueInv, NEW c \in Commands, settled[c] \in {"stale", "duplicate"}
             PROVE  \E d \in Commands :
                      /\ PointOf[d] = PointOf[c] /\ frame[d].producer = frame[c].producer
                      /\ outcome[d] = "sent" /\ Position(c) < Position(d)
  BY Zenon DEF StaleOnlyIfNewer
<1>1. Once(order) /\ Overtaken(c)
  BY Zenon DEF IssueInv, OrderInv, StaleInv
<1>2. PICK d \in Commands :
        /\ PointOf[d] = PointOf[c] /\ frame[d].producer = frame[c].producer /\ outcome[d] = "sent"
        /\ \E i, j \in DOMAIN order : i < j /\ order[i] = c /\ order[j] = d
  BY <1>1, Zenon DEF Overtaken
<1>3. PICK i \in DOMAIN order, j \in DOMAIN order : i < j /\ order[i] = c /\ order[j] = d
  BY <1>2, Zenon
<1>4. Position(c) = i /\ Position(d) = j
  BY <1>1, <1>3, PositionOf DEF Position
<1>5. QED
  BY <1>2, <1>3, <1>4

-----------------------------------------------------------------------------
(* Steps that neither issue, carry nor accept a command *)

\* What the calls may do to the order of issue.
CallsSettle ==
  /\ \A c \in Commands : outcome'[c] = "sent" <=> outcome[c] = "sent"
  /\ \A c \in Commands : outcome'[c] = "new" => outcome[c] = "new" /\ (Encoded(c) => Encoded(c)')
  /\ \A c \in Commands : Encoded(c)' => Encoded(c)
  /\ \/ notifier'.producer = notifier.producer /\ notifier'.next = notifier.next
     \/ notifier'.producer = notifier.producer + 1

\* The numbers given out stay in step with the counter; a new process has a new producer.
LEMMA NumbersStand ==
  ASSUME TransportInv, NumberInv, UNCHANGED <<frame, order>>,
         \/ notifier'.producer = notifier.producer /\ notifier'.next = notifier.next
         \/ notifier'.producer = notifier.producer + 1
  PROVE  NumberInv'
<1>1. ASSUME NEW i \in DOMAIN order
      PROVE  /\ frame[order[i]].producer <= notifier'.producer
             /\ frame[order[i]].producer = notifier'.producer =>
                  Behind(frame[order[i]].seq, notifier'.next, Len(order) + 1 - i)
  <2>1. frame[order[i]].producer \in Nat /\ notifier.producer \in Nat
    <3>1. frame[order[i]] \in Frames
      BY Zenon DEF NumberInv
    <3>2. QED
      BY <3>1, Standing, TransportAssumption DEF Frames, Producers
  <2>2. /\ frame[order[i]].producer <= notifier.producer
        /\ frame[order[i]].producer = notifier.producer =>
             Behind(frame[order[i]].seq, notifier.next, Len(order) + 1 - i)
    BY Zenon DEF NumberInv
  <2>3. CASE notifier'.producer = notifier.producer /\ notifier'.next = notifier.next
    BY <2>2, <2>3, Zenon
  <2>4. CASE notifier'.producer = notifier.producer + 1
    BY <2>1, <2>2, <2>4
  <2>5. QED
    BY <2>3, <2>4, Zenon
<1>2. frame' = frame /\ order' = order
  BY ZenonT(30)
<1>3. \A i \in DOMAIN order' :
        /\ frame'[order'[i]] \in Frames /\ frame'[order'[i]].seq \in 1 .. SeqModulus - 1
        /\ frame'[order'[i]].cmd = order'[i]
        /\ frame'[order'[i]].producer <= notifier'.producer
        /\ frame'[order'[i]].producer = notifier'.producer =>
             Behind(frame'[order'[i]].seq, notifier'.next, Len(order') + 1 - i)
  BY <1>1, <1>2, Zenon DEF NumberInv
<1>4. \A i, j \in DOMAIN order' :
        i < j /\ frame'[order'[i]].producer = frame'[order'[j]].producer =>
          Behind(frame'[order'[i]].seq, frame'[order'[j]].seq, j - i)
  BY <1>2, Zenon DEF NumberInv
<1>5. QED
  BY <1>3, <1>4, ZenonT(30) DEF NumberInv, Behind

\* No call issues a command.
LEMMA OrderStands ==
  ASSUME TransportInv, OrderInv, NumberInv, UNCHANGED <<frame, order>>, CallsSettle
  PROVE  OrderInv' /\ NumberInv'
<1>1. OrderInv'
  <2>1. order' = order /\ \A c : Issued(c)' <=> Issued(c)
    BY Zenon DEF Issued
  <2>2. QED
    BY <2>1, Zenon DEF OrderInv, CallsSettle
<1>2. NumberInv'
  BY NumbersStand, Zenon DEF CallsSettle
<1>3. QED
  BY <1>1, <1>2, ZenonT(30)

\* A command that was overtaken stays so.
LEMMA StaleStands ==
  ASSUME StaleInv, UNCHANGED <<frame, order>>,
         \A c \in Commands : outcome[c] = "sent" => outcome'[c] = "sent",
         \A c \in Commands : settled'[c] \in {"stale", "duplicate"} => settled[c] \in {"stale", "duplicate"}
  PROVE  StaleInv'
<1>1. frame' = frame /\ order' = order
  OBVIOUS
<1>2. ASSUME NEW c \in Commands, Overtaken(c)
      PROVE  Overtaken(c)'
  BY <1>1, <1>2, ZenonT(30) DEF Overtaken
<1>3. QED
  BY <1>2, Zenon DEF StaleInv

\* The fields of an accepted frame.
LEMMA LastTyped ==
  ASSUME AcceptedInv, NEW p \in Points, last[p] # NoFrame
  PROVE  last[p] \in Frames /\ last[p].cmd \in Commands
<1>1. last[p] \in Frames
  BY ZenonT(30) DEF AcceptedInv
<1>2. QED
  BY <1>1, ZenonT(30) DEF Frames

\* Connections may be emptied and last_sequences forgotten: the order of issue stays.
LEMMA IssueStands ==
  ASSUME TransportInv, IssueInv, UNCHANGED <<frame, order>>, CallsSettle,
         \A k \in Connections : wire'[k] = wire[k] \/ wire'[k] = <<>>,
         last' \in [Points -> Frames \cup {NoFrame}], \A p \in Points : last'[p] = last[p] \/ last'[p] = NoFrame,
         \A c \in Commands : settled'[c] \in {"stale", "duplicate"} => settled[c] \in {"stale", "duplicate"}
  PROVE  IssueInv' /\ NewestAccepted
<1>1. OrderInv' /\ NumberInv'
  BY OrderStands, Zenon DEF IssueInv
<1>2. StaleInv'
  BY StaleStands, Zenon DEF IssueInv, CallsSettle
<1>3. frame' = frame /\ \A c \in Commands : outcome[c] = "sent" => outcome'[c] = "sent"
  BY Zenon DEF CallsSettle
<1>4. ASSUME NEW k \in Connections, NEW i \in DOMAIN wire'[k]
      PROVE  wire'[k] = wire[k] /\ i \in DOMAIN wire[k]
  <2>1. wire'[k] # <<>>
    BY <1>4, NothingWritten, Zenon
  <2>2. QED
    BY <1>4, <2>1, Zenon
<1>5. CarriedInv'
  <2>1. ASSUME NEW k \in Connections, NEW i \in DOMAIN wire'[k], wire'[k][i].half = 2
        PROVE  /\ wire'[k][i].frame = frame'[wire'[k][i].frame.cmd]
               /\ \A p \in Points : last'[p] # wire'[k][i].frame
               /\ \A l \in Connections : \A j \in DOMAIN wire'[l] :
                    wire'[l][j].half = 2 /\ wire'[l][j].frame = wire'[k][i].frame => l = k /\ j = i
    <3>1. wire'[k] = wire[k] /\ i \in DOMAIN wire[k] /\ wire[k][i].half = 2
      BY <1>4, <2>1, Zenon
    <3>2. /\ wire[k][i].frame = frame[wire[k][i].frame.cmd]
          /\ \A p \in Points : last[p] # wire[k][i].frame
          /\ \A l \in Connections : \A j \in DOMAIN wire[l] :
               wire[l][j].half = 2 /\ wire[l][j].frame = wire[k][i].frame => l = k /\ j = i
      <4>1. CarriedInv
        BY Zenon DEF IssueInv
      <4>2. QED
        BY <3>1, <4>1, ZenonT(30) DEF CarriedInv
    <3>3. wire[k][i].frame # NoFrame
      <4>1. wire[k][i].frame \in Frames
        BY <3>1, HalfTyped, Zenon DEF TransportInv
      <4>2. NoFrame \notin Frames
        BY DEF NoFrame, Frames, Producers
      <4>3. QED
        BY <4>1, <4>2, Zenon
    <3>4. wire'[k][i] = wire[k][i]
      BY <3>1, Zenon
    <3>5. \A p \in Points : last'[p] # wire'[k][i].frame
      BY <3>2, <3>3, <3>4, Zenon
    <3>6. ASSUME NEW l \in Connections, NEW j \in DOMAIN wire'[l], wire'[l][j].half = 2,
                 wire'[l][j].frame = wire'[k][i].frame
          PROVE  l = k /\ j = i
      <4>1. wire'[l] = wire[l] /\ j \in DOMAIN wire[l]
        BY <1>4, <3>6, Zenon
      <4>2. wire[l][j].half = 2 /\ wire[l][j].frame = wire[k][i].frame
        BY <3>4, <3>6, <4>1, Zenon
      <4>3. QED
        BY <3>2, <4>1, <4>2, Zenon
    <3>7. QED
      BY <1>3, <3>2, <3>4, <3>5, <3>6, Zenon
  <2>2. QED
    BY <2>1, Zenon DEF CarriedInv
<1>6. AcceptedInv'
  <2>1. ASSUME NEW p \in Points, last'[p] # NoFrame
        PROVE  /\ last'[p] = frame'[last'[p].cmd] /\ PointOf[last'[p].cmd] = p
               /\ outcome'[last'[p].cmd] = "sent"
    <3>1. last'[p] = last[p] /\ last[p] # NoFrame
      BY <2>1, Zenon
    <3>2. last[p] = frame[last[p].cmd] /\ PointOf[last[p].cmd] = p /\ outcome[last[p].cmd] = "sent"
      BY <3>1, Zenon DEF IssueInv, AcceptedInv
    <3>3. last[p].cmd \in Commands
      BY <3>1, LastTyped, Zenon DEF IssueInv
    <3>4. QED
      BY <1>3, <3>1, <3>2, <3>3, Zenon
  <2>2. QED
    BY <2>1, Zenon DEF AcceptedInv
<1>7. NewestAccepted
  BY Zenon DEF NewestAccepted
<1>8. QED
  BY <1>1, <1>2, <1>5, <1>6, <1>7, Zenon DEF IssueInv


\* The same for steps of the notifier.
LEMMA NotifierIssuesNothing ==
  ASSUME TransportInv, IssueInv, UNCHANGED <<frame, order, wire, last, settled>>, CallsSettle
  PROVE  IssueInv' /\ NewestAccepted
<1>1. UNCHANGED <<frame, order>> /\ wire' = wire /\ last' = last /\ settled' = settled
  BY ZenonT(30)
<1>2. last' \in [Points -> Frames \cup {NoFrame}]
  BY <1>1, ZenonT(30) DEF IssueInv, AcceptedInv
<1>3. QED
  BY <1>1, <1>2, IssueStands, Zenon

\* And for steps of the listener, which leave the calls alone.
LEMMA ListenerIssuesNothing ==
  ASSUME TransportInv, IssueInv, UNCHANGED notifierVars,
         \A k \in Connections : wire'[k] = wire[k] \/ wire'[k] = <<>>,
         last' = last \/ last' = [p \in Points |-> NoFrame],
         \A c \in Commands : settled'[c] \in {"stale", "duplicate"} => settled[c] \in {"stale", "duplicate"}
  PROVE  IssueInv' /\ NewestAccepted
<1>1. UNCHANGED <<frame, order>> /\ UNCHANGED <<call, outcome, notifier>>
  BY Zenon DEF notifierVars
<1>2. CallsSettle
  BY <1>1, Zenon DEF CallsSettle, Encoded
<1>3. last \in [Points -> Frames \cup {NoFrame}]
  BY Zenon DEF IssueInv, AcceptedInv
<1>4. last' \in [Points -> Frames \cup {NoFrame}] /\ \A p \in Points : last'[p] = last[p] \/ last'[p] = NoFrame
  BY <1>3, ZenonT(30)
<1>5. QED
  BY <1>1, <1>2, <1>4, IssueStands, Zenon

\* A call that fails.
LEMMA CallFails ==
  ASSUME TransportInv, call # Idle, Answer(call.cmd, "failed"),
         notifier'.producer = notifier.producer /\ notifier'.next = notifier.next
  PROVE  CallsSettle
<1>1. /\ call' = Idle /\ call'.pc = "idle" /\ outcome'[call.cmd] = "failed"
      /\ \A c \in Commands : c # call.cmd => outcome'[c] = outcome[c]
  BY Answered, Zenon DEF TransportInv
<1>2. outcome[call.cmd] = "new"
  BY Called, Zenon DEF TransportInv
<1>3. "idle" \notin {"attempt", "write"} /\ "failed" # "sent" /\ "new" # "sent" /\ "failed" # "new"
  OBVIOUS
<1>4. \A c : ~Encoded(c)'
  BY <1>1, <1>3, Zenon DEF Encoded
<1>5. \A c \in Commands : outcome'[c] = "new" => outcome[c] = "new" /\ ~Encoded(c)
  BY <1>1, <1>3, Zenon DEF Encoded
<1>6. \A c \in Commands : outcome'[c] = "sent" <=> outcome[c] = "sent"
  BY <1>1, <1>2, <1>3, Zenon
<1>7. QED
  BY <1>4, <1>5, <1>6, Zenon DEF CallsSettle

\* A call that begins has no number yet.
LEMMA BeginInOrder ==
  ASSUME TransportInv, IssueInv, NEW c \in Commands, Begin(c)
  PROVE  IssueInv' /\ NewestAccepted
<1>1. /\ call = Idle /\ outcome[c] = "new" /\ notifier' = notifier
      /\ UNCHANGED <<frame, order, wire, last, settled>>
  BY ZenonT(30) DEF Begin, listenerVars
<1>2. \A d : ~Encoded(d) /\ ~Encoded(d)'
  <2>1. call.pc = "idle"
    BY <1>1, IdleCall, ZenonT(30)
  <2>2. call'.pc = "idle" \/ call'.pc = "connect"
    BY IdleCall DEF Begin, Answer, Call
  <2>3. QED
    BY <2>1, <2>2, ZenonT(30) DEF Encoded
<1>3. \A d \in Commands : (outcome'[d] = "sent" <=> outcome[d] = "sent") /\ (outcome'[d] = "new" => outcome[d] = "new")
  BY <1>1, Standing, ZenonT(30) DEF Begin, Answer
<1>4. CallsSettle
  BY <1>1, <1>2, <1>3, Zenon DEF CallsSettle
<1>5. QED
  BY <1>1, <1>4, NotifierIssuesNothing, Zenon

\* The end of a backoff and a deadline leave the order alone.
LEMMA TimeInOrder ==
  ASSUME TransportInv, IssueInv, BackoffElapses \/ (\E c \in Commands : Expire(c))
  PROVE  IssueInv' /\ NewestAccepted
<1>1. /\ UNCHANGED <<frame, order, wire, last, settled>> /\ UNCHANGED <<call, outcome>>
      /\ notifier' = notifier \/ notifier' = [notifier EXCEPT !.cooling = FALSE]
  BY Zenon DEF BackoffElapses, Expire, listenerVars
<1>2. notifier'.producer = notifier.producer /\ notifier'.next = notifier.next
  BY <1>1, Standing DEF NotifierStates
<1>3. CallsSettle
  BY <1>1, <1>2, Zenon DEF CallsSettle, Encoded
<1>4. QED
  BY <1>1, <1>3, NotifierIssuesNothing, Zenon

\* A cancelled call leaves its number unused.
LEMMA InterruptionInOrder ==
  ASSUME TransportInv, IssueInv, NotifyTimesOut \/ CallDropped
  PROVE  IssueInv' /\ NewestAccepted
<1>1. /\ call # Idle /\ Answer(call.cmd, "failed") /\ UNCHANGED <<frame, order, wire, last, settled>>
      /\ notifier' = notifier \/ notifier' = [notifier EXCEPT !.stream = NoConnection, !.cooling = TRUE]
  BY Zenon DEF NotifyTimesOut, CallDropped, listenerVars
<1>2. notifier'.producer = notifier.producer /\ notifier'.next = notifier.next
  BY <1>1, Standing, ZenonT(30) DEF NotifierStates
<1>3. QED
  BY <1>1, <1>2, CallFails, NotifierIssuesNothing, Zenon

\* A new automation process numbers its commands under a new producer.
LEMMA RestartInOrder ==
  ASSUME TransportInv, IssueInv, AutomationRestarts
  PROVE  IssueInv' /\ NewestAccepted
<1>1. /\ call' = Idle /\ UNCHANGED <<frame, order, wire, last, settled>>
      /\ notifier' = [producer |-> notifier.producer + 1, next |-> 1, stream |-> NoConnection, cooling |-> FALSE]
      /\ outcome' = [c \in Commands |-> IF call # Idle /\ call.cmd = c THEN "failed" ELSE outcome[c]]
  BY ZenonT(30) DEF AutomationRestarts
<1>2. call # Idle => outcome[call.cmd] = "new"
  BY Called, Zenon DEF TransportInv
<1>3. \A c : ~Encoded(c)'
  BY <1>1, IdleCall, ZenonT(30) DEF Encoded
<1>4. \A c \in Commands : Encoded(c) => call # Idle /\ call.cmd = c
  BY IdleCall, ZenonT(30) DEF Encoded
<1>5. \A c \in Commands : /\ outcome'[c] = "sent" <=> outcome[c] = "sent"
                          /\ outcome'[c] = "new" => outcome[c] = "new" /\ ~(call # Idle /\ call.cmd = c)
  BY <1>1, <1>2
<1>6. notifier'.producer = notifier.producer + 1
  BY <1>1, ZenonT(30)
<1>7. CallsSettle
  BY <1>3, <1>4, <1>5, <1>6, Zenon DEF CallsSettle
<1>8. QED
  BY <1>1, <1>7, NotifierIssuesNothing, Zenon

\* The call goes on with its command.
LEMMA CallGoesOn ==
  ASSUME call.pc \in {"attempt", "write"}, call'.pc \in {"attempt", "write"}, call'.cmd = call.cmd,
         outcome' = outcome, notifier'.producer = notifier.producer /\ notifier'.next = notifier.next
  PROVE  CallsSettle
BY Zenon DEF CallsSettle, Encoded

\* A retry sends the same frame, with the same number.
LEMMA WriteFailsInOrder ==
  ASSUME TransportInv, IssueInv, WriteFails
  PROVE  IssueInv' /\ NewestAccepted
<1>1. call.pc = "write" /\ UNCHANGED <<frame, order, wire, last, settled>>
  BY ZenonT(30) DEF WriteFails, listenerVars
<1>2. \E b \in BOOLEAN : notifier' = [notifier EXCEPT !.cooling = b]
  BY Zenon DEF WriteFails
<1>3. notifier'.producer = notifier.producer /\ notifier'.next = notifier.next
  BY <1>2, Standing, ZenonT(30) DEF NotifierStates
<1>4. call # Idle
  BY <1>1, IdleCall, ZenonT(30)
<1>5. CASE Answer(call.cmd, "failed")
  BY <1>1, <1>3, <1>4, <1>5, CallFails, NotifierIssuesNothing, Zenon
<1>6. CASE call' = Call("attempt", call.cmd, call.attempt + 1) /\ outcome' = outcome
  <2>1. call'.pc = "attempt" /\ call'.cmd = call.cmd
    BY <1>6 DEF Call
  <2>2. QED
    BY <1>1, <1>3, <1>6, <2>1, CallGoesOn, NotifierIssuesNothing, Zenon
<1>7. QED
  BY <1>5, <1>6, Zenon DEF WriteFails

\* An attempt takes no number.
LEMMA AttemptInOrder ==
  ASSUME TransportInv, IssueInv, Attempt
  PROVE  IssueInv' /\ NewestAccepted
<1>1. call.pc = "attempt" /\ UNCHANGED <<frame, order, wire, last, settled>>
  BY ZenonT(30) DEF Attempt
<1>2. call # Idle /\ call \in CallStates
  BY <1>1, Called, ZenonT(30) DEF TransportInv
<1>3. CASE Answer(call.cmd, "failed") /\ notifier' = notifier
  BY <1>1, <1>2, <1>3, CallFails, NotifierIssuesNothing, Zenon
<1>4. CASE \E r \in Reconnects(notifier) :
             /\ Connected(r.new) /\ Fault(r.faults)
             /\ \/ Answer(call.cmd, "failed") /\ notifier' = r.notifier
                \/ /\ call' = [call EXCEPT !.pc = "write", !.stream = r.notifier.stream, !.written = 0]
                   /\ notifier' = [r.notifier EXCEPT !.stream = NoConnection] /\ outcome' = outcome
  <2>1. PICK r \in Reconnects(notifier) :
          /\ Connected(r.new) /\ Fault(r.faults)
          /\ \/ Answer(call.cmd, "failed") /\ notifier' = r.notifier
             \/ /\ call' = [call EXCEPT !.pc = "write", !.stream = r.notifier.stream, !.written = 0]
                /\ notifier' = [r.notifier EXCEPT !.stream = NoConnection] /\ outcome' = outcome
    BY <1>4, Zenon
  <2>2. r.notifier \in NotifierStates /\ r.notifier.producer = notifier.producer /\ r.notifier.next = notifier.next
    BY <2>1, Reconnected, Zenon
  <2>3. CASE Answer(call.cmd, "failed") /\ notifier' = r.notifier
    BY <1>1, <1>2, <2>2, <2>3, CallFails, NotifierIssuesNothing, Zenon
  <2>4. CASE /\ call' = [call EXCEPT !.pc = "write", !.stream = r.notifier.stream, !.written = 0]
             /\ notifier' = [r.notifier EXCEPT !.stream = NoConnection] /\ outcome' = outcome
    <3>1. call'.pc = "write" /\ call'.cmd = call.cmd
      BY <1>2, <2>4, ZenonT(30) DEF CallStates
    <3>2. notifier'.producer = notifier.producer /\ notifier'.next = notifier.next
      BY <2>2, <2>4, ZenonT(30) DEF NotifierStates
    <3>3. QED
      BY <1>1, <2>4, <3>1, <3>2, CallGoesOn, NotifierIssuesNothing, Zenon
  <2>5. QED
    BY <2>1, <2>3, <2>4, Zenon
<1>5. QED
  BY <1>3, <1>4, ZenonT(30) DEF Attempt


-----------------------------------------------------------------------------
(* A command takes its number *)

\* A command is put behind the ones that were issued before.
LEMMA OneMore ==
  ASSUME NEW s \in Seq(Commands), Once(s), NEW c \in Commands, \A i \in DOMAIN s : s[i] # c
  PROVE  LET t == Append(s, c)
         IN  /\ t \in Seq(Commands) /\ Once(t) /\ Len(t) = Len(s) + 1 /\ Len(s) \in Nat
             /\ DOMAIN s = 1 .. Len(s) /\ DOMAIN t = 1 .. Len(s) + 1
             /\ t[Len(s) + 1] = c /\ \A i \in DOMAIN s : i \in DOMAIN t /\ t[i] = s[i]
             /\ \A i \in DOMAIN t : i \in DOMAIN s \/ i = Len(s) + 1
<1> DEFINE t == Append(s, c)
<1>1. /\ t \in Seq(Commands) /\ Len(t) = Len(s) + 1 /\ Len(s) \in Nat
      /\ DOMAIN s = 1 .. Len(s) /\ DOMAIN t = 1 .. Len(s) + 1
      /\ t[Len(s) + 1] = c /\ \A i \in DOMAIN s : i \in DOMAIN t /\ t[i] = s[i]
      /\ \A i \in DOMAIN t : i \in DOMAIN s \/ i = Len(s) + 1
  OBVIOUS
<1> HIDE DEF t
<1>2. Once(t)
  BY <1>1, Zenon DEF Once
<1>3. QED
  BY <1>1, <1>2, Zenon DEF t

\* A command takes the next number, and its place in the order of issue.
LEMMA TakeInOrder ==
  ASSUME TransportInv, IssueInv, TakeSequence
  PROVE  IssueInv' /\ NewestAccepted
<1> DEFINE c == call.cmd
           f == [cmd |-> c, producer |-> notifier.producer, seq |-> notifier.next]
<1>1. PICK r \in Reconnects(notifier) :
        /\ Connected(r.new) /\ Fault(r.faults)
        /\ \/ notifier' = r.notifier /\ Answer(c, "failed") /\ frame' = frame /\ order' = order
           \/ /\ notifier' = [r.notifier EXCEPT !.next = NextSequence(@)]
              /\ frame' = [frame EXCEPT ![c] = f] /\ call' = Call("attempt", c, 0) /\ outcome' = outcome
              /\ order' = Append(order, c)
  BY ZenonT(30) DEF TakeSequence
<1>2. call.pc = "connect" /\ UNCHANGED <<wire, last, settled>>
  BY ZenonT(30) DEF TakeSequence
<1>3. NotifierInv /\ call # Idle /\ c \in Commands /\ outcome[c] = "new"
  BY <1>2, Called, Zenon DEF TransportInv
<1>4. r.notifier \in NotifierStates /\ r.notifier.producer = notifier.producer /\ r.notifier.next = notifier.next
  BY <1>1, Reconnected, Zenon
<1>5. CASE notifier' = r.notifier /\ Answer(c, "failed") /\ frame' = frame /\ order' = order
  BY <1>2, <1>3, <1>4, <1>5, CallFails, NotifierIssuesNothing, Zenon
<1>6. CASE /\ notifier' = [r.notifier EXCEPT !.next = NextSequence(@)]
           /\ frame' = [frame EXCEPT ![c] = f] /\ call' = Call("attempt", c, 0) /\ outcome' = outcome
           /\ order' = Append(order, c)
  <2> DEFINE n == Len(order)
             h == (SeqModulus - 1) \div 2
  <2>1. /\ notifier.producer \in Producers /\ notifier.producer \in Nat /\ notifier.next \in 1 .. SeqModulus - 1
        /\ notifier'.producer = notifier.producer /\ notifier'.next = NextSequence(notifier.next)
    <3>1. notifier'.producer = notifier.producer /\ notifier'.next = NextSequence(notifier.next)
      BY <1>4, <1>6, ZenonT(30) DEF NotifierStates
    <3>2. QED
      BY <1>3, <3>1, NotifierTyped, Standing, Zenon
  <2>2. f \in Frames /\ f.cmd = c /\ f.producer = notifier.producer /\ f.seq = notifier.next
    <3>1. SeqModulus \in Nat
      BY TransportAssumption, ZenonT(30)
    <3>2. notifier.next \in 0 .. SeqModulus - 1
      BY <2>1, <3>1
    <3>3. QED
      BY <1>3, <2>1, <3>2, ZenonT(30) DEF Frames
  <2>3. /\ \A d : ~Encoded(d)
        /\ \A d : Encoded(d)' <=> d = c
    BY <1>2, <1>6, ZenonT(30) DEF Encoded, Call
  <2> HIDE DEF f
  <2>4. frame'[c] = f /\ \A d \in Commands : d # c => frame'[d] = frame[d]
    BY <1>3, <1>6, Standing, ZenonT(30)
  <2>5. order \in Seq(Commands) /\ Once(order) /\ \A i \in DOMAIN order : order[i] # c
    BY <1>3, <2>3, Zenon DEF IssueInv, OrderInv, Issued
  <2> HIDE DEF c
  <2>6. /\ order' \in Seq(Commands) /\ Once(order') /\ Len(order') = n + 1 /\ n \in Nat
        /\ DOMAIN order = 1 .. n /\ DOMAIN order' = 1 .. n + 1
        /\ order'[n + 1] = c /\ \A i \in DOMAIN order : i \in DOMAIN order' /\ order'[i] = order[i]
        /\ \A i \in DOMAIN order' : i \in DOMAIN order \/ i = n + 1
    BY <1>3, <1>6, <2>5, OneMore, Zenon
  <2> HIDE DEF n
  <2>7. h \in Nat /\ n <= h - 1
    <3>1. Len(order') <= h /\ h \in Nat
      BY <2>6, OrderBounded, TransportAssumption
    <3>2. QED
      BY <2>6, <3>1
  <2>8. OrderInv'
    <3>1. \A d : Issued(d) => Issued(d)'
      BY <2>6, Zenon DEF Issued
    <3>2. \A d : d = c => Issued(d)'
      <4>1. n + 1 \in DOMAIN order'
        BY <2>6
      <4>2. QED
        BY <2>6, <4>1, Zenon DEF Issued
    <3>3. \A d : Issued(d)' => d = c \/ Issued(d)
      BY <2>6, Zenon DEF Issued
    <3>4. QED
      BY <1>6, <2>3, <2>6, <3>1, <3>2, <3>3, Zenon DEF IssueInv, OrderInv
  <2>9. \A i \in DOMAIN order : order[i] \in Commands /\ frame'[order'[i]] = frame[order[i]]
    <3>1. \A i \in DOMAIN order : order[i] \in Commands
      BY <2>5
    <3>2. QED
      BY <2>4, <2>5, <2>6, <3>1, Zenon
  <2>10. ASSUME NEW i \in DOMAIN order, frame[order[i]].producer = notifier.producer
         PROVE  /\ Behind(frame[order[i]].seq, notifier.next, n + 1 - i)
                /\ Behind(frame[order[i]].seq, NextSequence(notifier.next), n + 2 - i)
    <3>1. Behind(frame[order[i]].seq, notifier.next, n + 1 - i) /\ frame[order[i]].seq \in 1 .. SeqModulus - 1
      BY <2>10, Zenon DEF IssueInv, NumberInv, n
    <3>2. n + 1 - i \in Nat /\ n + 1 - i <= h - 1 /\ (n + 1 - i) + 1 = n + 2 - i
      BY <2>6, <2>7
    <3> DEFINE b == n + 1 - i
               a == frame[order[i]].seq
    <3>3. Behind(a, NextSequence(notifier.next), b + 1)
      <4>1. b \in Nat /\ b <= h - 1 /\ Behind(a, notifier.next, b) /\ a \in 1 .. SeqModulus - 1
        BY <3>1, <3>2, Zenon
      <4> HIDE DEF b, a
      <4>2. QED
        BY <2>1, <2>7, <4>1, NextBehind, ZenonT(30)
    <3>4. QED
      BY <3>1, <3>2, <3>3, Zenon
  <2>11. Behind(notifier.next, NextSequence(notifier.next), 1)
    <3>1. Behind(notifier.next, notifier.next, 0) /\ 0 <= h - 1 /\ 0 + 1 = 1
      BY <2>1, <2>6, <2>7, TransportAssumption DEF Behind
    <3>2. QED
      BY <2>1, <2>7, <3>1, NextBehind, ZenonT(30)
  <2>12. ASSUME NEW i \in DOMAIN order'
         PROVE  /\ frame'[order'[i]] \in Frames /\ frame'[order'[i]].seq \in 1 .. SeqModulus - 1
                /\ frame'[order'[i]].cmd = order'[i]
                /\ frame'[order'[i]].producer <= notifier'.producer
                /\ frame'[order'[i]].producer = notifier'.producer =>
                     Behind(frame'[order'[i]].seq, notifier'.next, Len(order') + 1 - i)
    <3>1. CASE i \in DOMAIN order
      <4>1. /\ frame[order[i]] \in Frames /\ frame[order[i]].seq \in 1 .. SeqModulus - 1
            /\ frame[order[i]].cmd = order[i] /\ frame[order[i]].producer <= notifier.producer
        BY <3>1, Zenon DEF IssueInv, NumberInv
      <4>2. Len(order') + 1 - i = n + 2 - i
        BY <2>6, <3>1
      <4>3. QED
        BY <2>1, <2>6, <2>9, <2>10, <3>1, <4>1, <4>2, Zenon
    <3>2. CASE i = n + 1
      <4>1. Len(order') + 1 - i = 1 /\ notifier.producer <= notifier.producer
        BY <2>1, <2>6, <3>2
      <4>2. frame'[order'[i]] = f /\ order'[i] = c
        BY <2>4, <2>6, <3>2, Zenon
      <4>3. QED
        BY <2>1, <2>2, <2>11, <4>1, <4>2, Zenon
    <3>3. QED
      BY <2>6, <3>1, <3>2, Zenon
  <2>13. ASSUME NEW i \in DOMAIN order', NEW j \in DOMAIN order', i < j,
                frame'[order'[i]].producer = frame'[order'[j]].producer
         PROVE  Behind(frame'[order'[i]].seq, frame'[order'[j]].seq, j - i)
    <3>1. i \in DOMAIN order
      BY <2>6, <2>13
    <3>2. CASE j \in DOMAIN order
      BY <2>9, <2>13, <3>1, <3>2, Zenon DEF IssueInv, NumberInv
    <3>3. CASE j = n + 1
      <4>1. frame'[order'[j]] = f /\ j - i = n + 1 - i
        BY <2>4, <2>6, <3>3
      <4>2. QED
        BY <2>2, <2>9, <2>10, <2>13, <3>1, <4>1, Zenon
    <3>4. QED
      BY <2>6, <3>2, <3>3, Zenon
  <2>14. NumberInv'
    <3> HIDE DEF n, h
    <3>1. QED
      BY <2>12, <2>13, ZenonT(30) DEF NumberInv, Behind
  <2>15. \A d \in Commands : outcome[d] = "sent" => d # c /\ frame'[d] = frame[d]
    <3>1. "new" # "sent"
      BY ZenonT(30)
    <3>2. QED
      BY <1>3, <2>4, <3>1, Zenon
  <2>16. CarriedInv'
    <3>1. ASSUME NEW k \in Connections, NEW i \in DOMAIN wire[k], wire[k][i].half = 2
          PROVE  wire[k][i].frame = frame'[wire[k][i].frame.cmd]
      <4>1. wire[k][i].frame.cmd \in Commands /\ outcome[wire[k][i].frame.cmd] = "sent"
        BY <3>1, HalfTyped, Zenon DEF TransportInv, SentInv
      <4>2. wire[k][i].frame = frame[wire[k][i].frame.cmd]
        BY <3>1, Zenon DEF IssueInv, CarriedInv
      <4>3. QED
        BY <2>15, <4>1, <4>2, Zenon
    <3>2. ASSUME NEW k \in Connections, NEW i \in DOMAIN wire[k], wire[k][i].half = 2
          PROVE  /\ \A p \in Points : last[p] # wire[k][i].frame
                 /\ \A l \in Connections : \A j \in DOMAIN wire[l] :
                      wire[l][j].half = 2 /\ wire[l][j].frame = wire[k][i].frame => l = k /\ j = i
      BY <3>2, ZenonT(30) DEF IssueInv, CarriedInv
    <3>3. wire' = wire /\ last' = last
      BY <1>2, ZenonT(30)
    <3>4. ASSUME NEW k \in Connections, NEW i \in DOMAIN wire'[k], wire'[k][i].half = 2
          PROVE  /\ wire'[k][i].frame = frame'[wire'[k][i].frame.cmd]
                 /\ \A p \in Points : last'[p] # wire'[k][i].frame
                 /\ \A l \in Connections : \A j \in DOMAIN wire'[l] :
                      wire'[l][j].half = 2 /\ wire'[l][j].frame = wire'[k][i].frame => l = k /\ j = i
      <4>1. i \in DOMAIN wire[k] /\ wire[k][i].half = 2
        BY <3>3, <3>4, Zenon
      <4>2. /\ wire[k][i].frame = frame'[wire[k][i].frame.cmd]
            /\ \A p \in Points : last[p] # wire[k][i].frame
            /\ \A l \in Connections : \A j \in DOMAIN wire[l] :
                 wire[l][j].half = 2 /\ wire[l][j].frame = wire[k][i].frame => l = k /\ j = i
        BY <3>1, <3>2, <4>1, Zenon
      <4>3. QED
        BY <3>3, <4>2, Zenon
    <3>5. QED
      BY <3>4, Zenon DEF CarriedInv
  <2>17. AcceptedInv'
    <3>1. ASSUME NEW p \in Points, last[p] # NoFrame
          PROVE  /\ last[p] = frame'[last[p].cmd] /\ PointOf[last[p].cmd] = p /\ outcome[last[p].cmd] = "sent"
      <4>1. last[p].cmd \in Commands
        BY <3>1, LastTyped, Zenon DEF IssueInv
      <4>2. last[p] = frame[last[p].cmd] /\ PointOf[last[p].cmd] = p /\ outcome[last[p].cmd] = "sent"
        BY <3>1, Zenon DEF IssueInv, AcceptedInv
      <4>3. QED
        BY <2>15, <4>1, <4>2, Zenon
    <3>2. last' = last /\ outcome' = outcome
      BY <1>2, <1>6, ZenonT(30)
    <3>3. QED
      BY <3>1, <3>2, Zenon DEF IssueInv, AcceptedInv
  <2>18. StaleInv'
    <3>1. ASSUME NEW d \in Commands, Overtaken(d)
          PROVE  Overtaken(d)'
      <4>1. PICK e \in Commands :
              /\ PointOf[e] = PointOf[d] /\ frame[e].producer = frame[d].producer /\ outcome[e] = "sent"
              /\ \E i, j \in DOMAIN order : i < j /\ order[i] = d /\ order[j] = e
        BY <3>1, Zenon DEF Overtaken
      <4>2. PICK i \in DOMAIN order, j \in DOMAIN order : i < j /\ order[i] = d /\ order[j] = e
        BY <4>1, Zenon
      <4>3. frame'[d] = frame[d] /\ frame'[e] = frame[e]
        BY <2>4, <2>5, <4>2, Zenon
      <4>4. i \in DOMAIN order' /\ j \in DOMAIN order' /\ order'[i] = d /\ order'[j] = e
        BY <2>6, <4>2, Zenon
      <4>5. QED
        BY <1>6, <4>1, <4>2, <4>3, <4>4, Zenon DEF Overtaken
    <3>2. settled' = settled
      BY <1>2, ZenonT(30)
    <3>3. QED
      BY <3>1, <3>2, Zenon DEF IssueInv, StaleInv
  <2>19. NewestAccepted
    <3>1. last' = last
      BY <1>2, ZenonT(30)
    <3>2. QED
      BY <3>1, Zenon DEF NewestAccepted
  <2>20. QED
    BY <2>8, <2>14, <2>16, <2>17, <2>18, <2>19, Zenon DEF IssueInv
<1>7. QED
  BY <1>1, <1>5, <1>6, Zenon


-----------------------------------------------------------------------------
(* A command is carried *)

\* What is known of a whole frame.
LEMMA Carried ==
  ASSUME IssueInv, NEW k \in Connections, NEW i \in DOMAIN wire[k], wire[k][i].half = 2
  PROVE  /\ wire[k][i].frame = frame[wire[k][i].frame.cmd]
         /\ \A p \in Points : last[p] # wire[k][i].frame
         /\ \A l \in Connections : \A j \in DOMAIN wire[l] :
              wire[l][j].half = 2 /\ wire[l][j].frame = wire[k][i].frame => l = k /\ j = i
BY Zenon DEF IssueInv, CarriedInv

\* At most one frame becomes whole, the first of its command to do so.
LEMMA CarriesOne ==
  ASSUME TransportInv, IssueInv, UNCHANGED <<frame, last>>, NEW k \in Connections, NEW n,
         NEW f \in Frames, f = frame[f.cmd], outcome[f.cmd] = "new",
         \A j \in Connections : \A i \in DOMAIN wire'[j] : wire'[j][i].half = 2 =>
           (i \in DOMAIN wire[j] /\ wire'[j][i] = wire[j][i]) \/ (j = k /\ i = n /\ wire'[j][i].frame = f)
  PROVE  CarriedInv'
<1>1. frame' = frame /\ last' = last /\ "new" # "sent"
  BY ZenonT(30)
<1>2. ASSUME NEW j \in Connections, NEW i \in DOMAIN wire[j], wire[j][i].half = 2
      PROVE  wire[j][i].frame # f
  BY <1>1, <1>2, Zenon DEF TransportInv, SentInv
<1>3. \A p \in Points : last[p] # f
  <2>1. NoFrame \notin Frames
    BY DEF NoFrame, Frames, Producers
  <2>2. QED
    BY <1>1, <2>1, ZenonT(30) DEF IssueInv, AcceptedInv
<1>4. ASSUME NEW j \in Connections, NEW i \in DOMAIN wire'[j], wire'[j][i].half = 2
      PROVE  /\ wire'[j][i].frame = frame'[wire'[j][i].frame.cmd]
             /\ \A p \in Points : last'[p] # wire'[j][i].frame
             /\ \A l \in Connections : \A m \in DOMAIN wire'[l] :
                  wire'[l][m].half = 2 /\ wire'[l][m].frame = wire'[j][i].frame => l = j /\ m = i
  <2>1. CASE i \in DOMAIN wire[j] /\ wire'[j][i] = wire[j][i]
    <3>1. wire[j][i].half = 2 /\ wire[j][i].frame # f
      BY <1>2, <1>4, <2>1, Zenon
    <3>2. /\ wire[j][i].frame = frame[wire[j][i].frame.cmd]
          /\ \A p \in Points : last[p] # wire[j][i].frame
          /\ \A l \in Connections : \A m \in DOMAIN wire[l] :
               wire[l][m].half = 2 /\ wire[l][m].frame = wire[j][i].frame => l = j /\ m = i
      BY <2>1, <3>1, Carried
    <3>3. ASSUME NEW l \in Connections, NEW m \in DOMAIN wire'[l], wire'[l][m].half = 2,
                 wire'[l][m].frame = wire'[j][i].frame
          PROVE  l = j /\ m = i
      <4>1. m \in DOMAIN wire[l] /\ wire'[l][m] = wire[l][m]
        BY <2>1, <3>1, <3>3, Zenon
      <4>2. wire[l][m].half = 2 /\ wire[l][m].frame = wire[j][i].frame
        BY <2>1, <3>3, <4>1, Zenon
      <4>3. QED
        BY <3>2, <4>1, <4>2, Zenon
    <3>4. wire'[j][i].frame = frame'[wire'[j][i].frame.cmd] /\ \A p \in Points : last'[p] # wire'[j][i].frame
      BY <1>1, <2>1, <3>2, Zenon
    <3>5. QED
      BY <3>3, <3>4, Zenon
  <2>2. CASE j = k /\ i = n /\ wire'[j][i].frame = f
    <3>1. ASSUME NEW l \in Connections, NEW m \in DOMAIN wire'[l], wire'[l][m].half = 2,
                 wire'[l][m].frame = wire'[j][i].frame
          PROVE  l = j /\ m = i
      <4>1. ~(m \in DOMAIN wire[l] /\ wire'[l][m] = wire[l][m])
        BY <1>2, <2>2, <3>1, ZenonT(30)
      <4>2. l = k /\ m = n
        BY <3>1, <4>1, Zenon
      <4>3. QED
        BY <2>2, <4>2, Zenon
    <3>2. wire'[j][i].frame = frame'[wire'[j][i].frame.cmd] /\ \A p \in Points : last'[p] # wire'[j][i].frame
      BY <1>1, <1>3, <2>2, Zenon
    <3>3. QED
      BY <3>1, <3>2, Zenon
  <2>3. QED
    BY <1>4, <2>1, <2>2, Zenon
<1>5. QED
  BY <1>4, Zenon DEF CarriedInv

\* What was accepted stays so.
LEMMA AcceptedStands ==
  ASSUME AcceptedInv, UNCHANGED <<frame, last>>,
         \A c \in Commands : outcome[c] = "sent" => outcome'[c] = "sent"
  PROVE  AcceptedInv' /\ NewestAccepted
<1>1. frame' = frame /\ last' = last
  OBVIOUS
<1>2. ASSUME NEW p \in Points, last[p] # NoFrame
      PROVE  last[p] = frame[last[p].cmd] /\ PointOf[last[p].cmd] = p /\ outcome'[last[p].cmd] = "sent"
  BY <1>2, LastTyped, Zenon DEF AcceptedInv
<1>3. AcceptedInv'
  BY <1>1, <1>2, Zenon DEF AcceptedInv
<1>4. NewestAccepted
  BY <1>1, Zenon DEF NewestAccepted
<1>5. QED
  BY <1>3, <1>4, ZenonT(30)

\* A half that is appended to one connection leaves what the connections carry.
LEMMA OneWritten ==
  ASSUME NEW S, NEW v \in [Connections -> Seq(S)], NEW j \in Connections, NEW h \in S, NEW u,
         NEW w, w = v[j], u = [v EXCEPT ![j] = Append(w, h)]
  PROVE  /\ \A i \in DOMAIN u[j] : (i \in DOMAIN w /\ u[j][i] = w[i]) \/ (i = Len(w) + 1 /\ u[j][i] = h)
         /\ \A l \in Connections : l # j => u[l] = v[l]
OBVIOUS

\* The last half of a frame is written once: with it the command has been sent.
LEMMA WriteInOrder ==
  ASSUME TransportInv, IssueInv, WriteHalf
  PROVE  IssueInv' /\ NewestAccepted
<1> DEFINE k == call.stream
           c == call.cmd
           f == frame[call.cmd]
           h == Halves(f)[call.written + 1]
           w == wire[call.stream]
<1>1. /\ call.pc = "write" /\ wire' = [wire EXCEPT ![k] = Append(w, h)]
      /\ UNCHANGED <<frame, order>> /\ UNCHANGED <<frame, last>> /\ settled' = settled
  BY ZenonT(30) DEF WriteHalf, listenerVars
<1>2. /\ NotifierInv /\ call # Idle /\ c \in Commands /\ outcome[c] = "new" /\ call \in CallStates
      /\ call.written \in {0, 1} /\ f \in Frames /\ f.cmd = c /\ f = frame[f.cmd] /\ outcome[f.cmd] = "new"
      /\ k \in Connections
  BY <1>1, Called, Zenon DEF TransportInv, NotifierInv, StreamInv
<1>3. h.frame = f /\ h.half = call.written + 1 /\ h \in HalfStates
  BY <1>2 DEF Halves, HalfStates
<1>4. wire \in [Connections -> Seq(HalfStates)] /\ w \in Seq(HalfStates)
  <2>1. wire \in [Connections -> Seq(HalfStates)]
    BY Zenon DEF TransportInv, WireInv
  <2>2. QED
    BY <1>2, <2>1, ZenonT(30)
<1> HIDE DEF h
<1>5. /\ \A i \in DOMAIN wire'[k] : (i \in DOMAIN w /\ wire'[k][i] = w[i]) \/ (i = Len(w) + 1 /\ wire'[k][i] = h)
      /\ \A j \in Connections : j # k => wire'[j] = wire[j]
  <2>1. h \in HalfStates /\ k \in Connections /\ w = wire[k] /\ wire' = [wire EXCEPT ![k] = Append(w, h)]
    BY <1>1, <1>2, <1>3, Zenon
  <2> HIDE DEF k, w
  <2>2. QED
    BY <1>4, <2>1, OneWritten
<1> HIDE DEF k, c, f
<1>6. CarriedInv'
  <2>1. \A j \in Connections : \A i \in DOMAIN wire'[j] :
          (i \in DOMAIN wire[j] /\ wire'[j][i] = wire[j][i]) \/ (j = k /\ i = Len(w) + 1 /\ wire'[j][i].frame = f)
    BY <1>3, <1>5, Zenon DEF k
  <2> DEFINE n == Len(w) + 1
  <2> HIDE DEF n
  <2>2. \A j \in Connections : \A i \in DOMAIN wire'[j] : wire'[j][i].half = 2 =>
          (i \in DOMAIN wire[j] /\ wire'[j][i] = wire[j][i]) \/ (j = k /\ i = n /\ wire'[j][i].frame = f)
    BY <2>1, Zenon DEF n
  <2>3. f \in Frames /\ f = frame[f.cmd] /\ outcome[f.cmd] = "new" /\ k \in Connections /\ UNCHANGED <<frame, last>>
    BY <1>1, <1>2, Zenon
  <2>4. QED
    BY <2>2, <2>3, CarriesOne
<1>7. CASE call.written = 0
  <2>1. call' = [call EXCEPT !.written = 1] /\ outcome' = outcome /\ notifier' = notifier
    BY <1>7, Zenon DEF WriteHalf
  <2>2. call'.pc = "write" /\ call'.cmd = call.cmd
    BY <1>1, <1>2, <2>1, ZenonT(30) DEF CallStates
  <2>3. CallsSettle
    BY <1>1, <2>1, <2>2, CallGoesOn, Zenon
  <2>4. OrderInv' /\ NumberInv'
    BY <1>1, <2>3, OrderStands, Zenon DEF IssueInv
  <2>5. StaleInv'
    BY <1>1, <2>1, StaleStands, Zenon DEF IssueInv
  <2>6. AcceptedInv' /\ NewestAccepted
    BY <1>1, <2>1, AcceptedStands, Zenon DEF IssueInv
  <2>7. QED
    BY <1>6, <2>4, <2>5, <2>6, Zenon DEF IssueInv
<1>8. CASE call.written = 1
  <2>1. Answer(call.cmd, "sent") /\ notifier' = [notifier EXCEPT !.stream = k]
    BY <1>8 DEF WriteHalf, k
  <2>2. /\ call' = Idle /\ call'.pc = "idle" /\ outcome'[c] = "sent"
        /\ \A d \in Commands : d # c => outcome'[d] = outcome[d]
        /\ \A d \in Commands : outcome[d] = "sent" => outcome'[d] = "sent"
    BY <1>2, <2>1, Answered, Zenon DEF c
  <2>3. notifier'.producer = notifier.producer /\ notifier'.next = notifier.next
    BY <2>1, Standing, ZenonT(30) DEF NotifierStates
  <2>4. NumberInv'
    BY <1>1, <2>3, NumbersStand, Zenon DEF IssueInv
  <2>5. OrderInv'
    <3>1. "idle" \notin {"attempt", "write"} /\ "sent" # "new"
      BY ZenonT(30)
    <3>2. order' = order /\ (\A d : Issued(d)' <=> Issued(d)) /\ \A d : ~Encoded(d)'
      BY <1>1, <2>2, <3>1, Zenon DEF Issued, Encoded
    <3>3. \A d \in Commands : Encoded(d) <=> d = c
      BY <1>1, Zenon DEF Encoded, c
    <3>4. \A d \in Commands : outcome'[d] = "sent" => Issued(d)
      BY <2>2, <3>3, Zenon DEF IssueInv, OrderInv
    <3>5. \A d \in Commands : outcome'[d] = "new" => ~Issued(d)
      BY <2>2, <3>1, <3>3, Zenon DEF IssueInv, OrderInv
    <3>6. QED
      BY <3>2, <3>4, <3>5, Zenon DEF IssueInv, OrderInv
  <2>6. StaleInv'
    BY <1>1, <2>2, StaleStands, Zenon DEF IssueInv
  <2>7. AcceptedInv' /\ NewestAccepted
    BY <1>1, <2>2, AcceptedStands, Zenon DEF IssueInv
  <2>8. QED
    BY <1>6, <2>4, <2>5, <2>6, <2>7, Zenon DEF IssueInv
<1>9. QED
  BY <1>2, <1>7, <1>8, Zenon


-----------------------------------------------------------------------------
(* A command is accepted, or dropped *)

\* A whole frame for point p, and the frame of the same producer that p accepted last.
Arrived(f, p) ==
  /\ f \in Frames /\ f = frame[f.cmd] /\ f.cmd \in Commands /\ outcome[f.cmd] = "sent"
  /\ p \in Points /\ p = PointOf[f.cmd] /\ last[p] # f /\ last[p].producer = f.producer
Decided(f, p) ==
  /\ last[p] # NoFrame /\ last[p].cmd \in Commands /\ PointOf[last[p].cmd] = p
  /\ outcome[last[p].cmd] = "sent" /\ frame[last[p].cmd].producer = f.producer
  /\ f.seq # last[p].seq
  /\ \E i, j \in DOMAIN order :
       /\ order[i] = f.cmd /\ order[j] = last[p].cmd
       /\ IsStale(f, last[p]) => i < j
       /\ ~IsStale(f, last[p]) => j < i

\* Comparing the numbers decides which of the two was issued first.
LEMMA Compared ==
  ASSUME TransportInv, IssueInv, NEW f, NEW p, Arrived(f, p)
  PROVE  Decided(f, p)
<1> f \in Frames /\ f = frame[f.cmd] /\ f.cmd \in Commands /\ outcome[f.cmd] = "sent"
  BY Zenon DEF Arrived
<1> p \in Points /\ p = PointOf[f.cmd] /\ last[p] # f /\ last[p].producer = f.producer
  BY Zenon DEF Arrived
<1> DEFINE c == f.cmd
           d == last[p].cmd
<1>1. last[p] # NoFrame
  <2>1. f.producer # 0
    BY DEF Frames, Producers
  <2>2. QED
    BY <2>1 DEF NoFrame
<1>2. d \in Commands /\ last[p] = frame[d] /\ PointOf[d] = p /\ outcome[d] = "sent"
  BY <1>1, LastTyped, Zenon DEF IssueInv, AcceptedInv
<1>3. PICK i \in DOMAIN order : order[i] = c
  BY Zenon DEF IssueInv, OrderInv, Issued
<1>4. PICK j \in DOMAIN order : order[j] = d
  BY <1>2, Zenon DEF IssueInv, OrderInv, Issued
<1>5. f = frame[order[i]] /\ last[p] = frame[order[j]]
  BY <1>2, <1>3, <1>4, Zenon
<1>6. i # j
  BY <1>5, Zenon
<1>7. /\ IsStale(f, last[p]) => i < j
      /\ ~IsStale(f, last[p]) => i >= j
      /\ f.seq = last[p].seq => i = j
  <2>1. frame[order[i]].producer = frame[order[j]].producer
    BY <1>5, Zenon
  <2>2. /\ IsStale(frame[order[i]], frame[order[j]]) => i < j
        /\ ~IsStale(frame[order[i]], frame[order[j]]) => i >= j
        /\ frame[order[i]].seq = frame[order[j]].seq => i = j
    BY <2>1, StaleIsEarlier, Zenon DEF IssueInv
  <2>3. QED
    BY <1>5, <2>2, Zenon
<1>8. i \in Nat /\ j \in Nat
  BY DEF IssueInv, OrderInv
<1>9. ~IsStale(f, last[p]) => j < i
  BY <1>6, <1>7, <1>8
<1>10. frame[d].producer = f.producer
  BY <1>2, Zenon
<1>11. QED
  BY <1>1, <1>2, <1>3, <1>4, <1>6, <1>7, <1>9, <1>10, ZenonT(30) DEF Decided

\* A whole frame leaves a connection and is accepted or dropped.
LEMMA CarriedAway ==
  ASSUME TransportInv, IssueInv, frame' = frame, NEW k \in Connections, NEW f \in Frames,
         2 \in DOMAIN wire[k], wire[k][2].half = 2, wire[k][2].frame = f,
         \A j \in Connections : j # k => wire'[j] = wire[j],
         \A i \in DOMAIN wire'[k] : i \in Nat \ {0} /\ i + 2 \in DOMAIN wire[k] /\ wire'[k][i] = wire[k][i + 2],
         \A p \in Points : last'[p] = last[p] \/ last'[p] = f
  PROVE  CarriedInv'
<1> DEFINE Was(j, i) == IF j = k THEN i + 2 ELSE i
<1>1. ASSUME NEW j \in Connections, NEW i \in DOMAIN wire'[j]
      PROVE  Was(j, i) \in DOMAIN wire[j] /\ wire'[j][i] = wire[j][Was(j, i)] /\ (j = k => Was(j, i) # 2)
  <2>1. CASE j = k
    BY <1>1, <2>1
  <2>2. CASE j # k
    <3>1. wire'[j] = wire[j] /\ Was(j, i) = i
      BY <2>2, Zenon
    <3>2. QED
      BY <1>1, <2>2, <3>1, Zenon
  <2>3. QED
    BY <2>1, <2>2, Zenon
<1>2. ASSUME NEW j \in Connections, NEW i \in DOMAIN wire'[j], NEW m \in DOMAIN wire'[j], Was(j, i) = Was(j, m)
      PROVE  i = m
  <2>1. CASE j = k
    BY <1>2, <2>1
  <2>2. CASE j # k
    BY <1>2, <2>2, Zenon
  <2>3. QED
    BY <2>1, <2>2, Zenon
<1> HIDE DEF Was
<1>3. ASSUME NEW j \in Connections, NEW i \in DOMAIN wire'[j], wire'[j][i].half = 2
      PROVE  /\ wire'[j][i].frame = frame'[wire'[j][i].frame.cmd]
             /\ \A p \in Points : last'[p] # wire'[j][i].frame
             /\ \A l \in Connections : \A m \in DOMAIN wire'[l] :
                  wire'[l][m].half = 2 /\ wire'[l][m].frame = wire'[j][i].frame => l = j /\ m = i
  <2> DEFINE n == Was(j, i)
  <2>1. n \in DOMAIN wire[j] /\ wire'[j][i] = wire[j][n] /\ (j = k => n # 2)
    BY <1>1, Zenon
  <2> HIDE DEF n
  <2>2. wire[j][n].half = 2
    BY <1>3, <2>1, Zenon
  <2>3. /\ wire[j][n].frame = frame[wire[j][n].frame.cmd]
        /\ \A p \in Points : last[p] # wire[j][n].frame
        /\ \A l \in Connections : \A m \in DOMAIN wire[l] :
             wire[l][m].half = 2 /\ wire[l][m].frame = wire[j][n].frame => l = j /\ m = n
    BY <2>1, <2>2, Carried, ZenonT(30)
  <2>4. wire[j][n].frame # f
    BY <2>1, <2>3, Zenon
  <2>5. wire'[j][i].frame = frame'[wire'[j][i].frame.cmd] /\ \A p \in Points : last'[p] # wire'[j][i].frame
    BY <2>1, <2>3, <2>4, Zenon
  <2>6. ASSUME NEW l \in Connections, NEW m \in DOMAIN wire'[l], wire'[l][m].half = 2,
               wire'[l][m].frame = wire'[j][i].frame
        PROVE  l = j /\ m = i
    <3>1. Was(l, m) \in DOMAIN wire[l] /\ wire'[l][m] = wire[l][Was(l, m)]
      BY <1>1, Zenon
    <3>2. wire[l][Was(l, m)].half = 2 /\ wire[l][Was(l, m)].frame = wire[j][n].frame
      BY <2>1, <2>6, <3>1, Zenon
    <3>3. l = j /\ Was(l, m) = n
      BY <2>3, <3>1, <3>2, Zenon
    <3>4. QED
      BY <1>2, <3>3, Zenon DEF n
  <2>7. QED
    BY <2>5, <2>6, Zenon
<1>4. QED
  BY <1>3, Zenon DEF CarriedInv


\* A frame is accepted only after every one before it that was accepted, and dropped as
\* stale only for a newer one.
LEMMA ReadInOrder ==
  ASSUME TransportInv, IssueInv, NEW k \in Connections, ReadFrame(k)
  PROVE  IssueInv' /\ NewestAccepted
<1> DEFINE w == wire[k]
           f == w[1].frame
           c == f.cmd
           p == PointOf[c]
<1>1. /\ Len(w) >= 2 /\ wire' = [wire EXCEPT ![k] = SubSeq(w, 3, Len(w))]
      /\ Handle(k, f) /\ UNCHANGED notifierVars
  BY ZenonT(30) DEF ReadFrame
<1>2. wire \in [Connections -> Seq(HalfStates)] /\ w \in Seq(HalfStates) /\ Intact(w) /\ SentInv
  <2>1. wire \in [Connections -> Seq(HalfStates)]
    BY Zenon DEF TransportInv, WireInv
  <2>2. QED
    BY <2>1, Zenon DEF TransportInv, WireInv
<1>3. /\ f \in Frames /\ 2 \in DOMAIN w /\ w[2].frame = f /\ w[2].half = 2
      /\ \A i \in DOMAIN SubSeq(w, 3, Len(w)) :
           i \in Nat \ {0} /\ i + 2 \in DOMAIN w /\ SubSeq(w, 3, Len(w))[i] = w[i + 2]
  <2> HIDE DEF w
  <2> DEFINE v == SubSeq(w, 3, Len(w))
  <2>1. /\ f \in Frames /\ 2 \in DOMAIN w /\ w[2].frame = f /\ w[2].half = 2
        /\ DOMAIN v = 1 .. Len(w) - 2 /\ Len(w) \in Nat
        /\ \A i \in DOMAIN v : i + 2 \in DOMAIN w /\ v[i] = w[i + 2]
    BY <1>1, <1>2, FrameRead, Zenon
  <2> HIDE DEF v
  <2>2. \A i \in DOMAIN v : i \in Nat \ {0}
    BY <2>1
  <2>3. QED
    BY <2>1, <2>2, Zenon DEF v
<1>4. /\ \A j \in Connections : j # k => wire'[j] = wire[j]
      /\ \A i \in DOMAIN wire'[k] : i \in Nat \ {0} /\ i + 2 \in DOMAIN wire[k] /\ wire'[k][i] = wire[k][i + 2]
  <2>1. wire'[k] = SubSeq(w, 3, Len(w)) /\ \A j \in Connections : j # k => wire'[j] = wire[j]
    BY <1>1, <1>2, Zenon
  <2>2. QED
    BY <1>3, <2>1, Zenon
<1>5. outcome[c] = "sent" /\ f = frame[c] /\ \A q \in Points : last[q] # f
  <2>1. outcome[wire[k][2].frame.cmd] = "sent"
    BY <1>2, <1>3, Zenon DEF SentInv
  <2>2. wire[k][2].frame = frame[wire[k][2].frame.cmd] /\ \A q \in Points : last[q] # wire[k][2].frame
    BY <1>3, Carried, ZenonT(30)
  <2>3. QED
    BY <1>3, <2>1, <2>2, Zenon
<1>6. 2 \in DOMAIN wire[k] /\ wire[k][2].half = 2 /\ wire[k][2].frame = f
  BY <1>3, Zenon
<1> HIDE DEF w, f
<1>7. c \in Commands /\ p \in Points
  BY <1>3, TransportAssumption, ZenonT(30) DEF Frames
<1>8. /\ UNCHANGED <<frame, order>> /\ frame' = frame /\ order' = order /\ outcome' = outcome
      /\ UNCHANGED <<call, outcome, notifier>>
  BY <1>1, Zenon DEF notifierVars
<1>9. OrderInv' /\ NumberInv'
  <2>1. CallsSettle
    BY <1>8, ZenonT(30) DEF CallsSettle, Encoded
  <2>2. QED
    BY <1>8, <2>1, OrderStands, Zenon DEF IssueInv
<1> HIDE DEF p, c
<1>10. last[p].producer = f.producer =>
         /\ last[p].cmd \in Commands /\ PointOf[last[p].cmd] = p /\ last[p] # NoFrame
         /\ outcome[last[p].cmd] = "sent" /\ frame[last[p].cmd].producer = frame[c].producer
         /\ f.seq # last[p].seq
         /\ \E i, j \in DOMAIN order :
              /\ order[i] = c /\ order[j] = last[p].cmd
              /\ IsStale(f, last[p]) => i < j
              /\ ~IsStale(f, last[p]) => j < i
  <2>1. f \in Frames /\ f = frame[f.cmd] /\ f.cmd \in Commands /\ outcome[f.cmd] = "sent" /\ p \in Points
        /\ p = PointOf[f.cmd] /\ last[p] # f /\ c = f.cmd /\ frame[c] = f
    BY <1>3, <1>5, <1>7, Zenon DEF p, c
  <2>2. ASSUME last[p].producer = f.producer
        PROVE  Decided(f, p)
    <3>1. Arrived(f, p)
      BY <2>1, <2>2, ZenonT(30) DEF Arrived
    <3>2. QED
      BY <3>1, Compared, ZenonT(30)
  <2>3. QED
    BY <2>1, <2>2, ZenonT(30) DEF Decided
<1>11. last \in [Points -> Frames \cup {NoFrame}] /\ settled \in [Commands -> Settlements] /\ StaleInv /\ AcceptedInv
  BY <1>2, Zenon DEF IssueInv, AcceptedInv, SentInv
<1>12. CASE last' = last /\ \E how \in {"expired", "stale", "duplicate"} :
              Settle(c, how) /\ (how # "expired" => last[p].producer = f.producer /\ IsStale(f, last[p]))
  <2>1. PICK how \in {"expired", "stale", "duplicate"} :
          Settle(c, how) /\ (how # "expired" => last[p].producer = f.producer /\ IsStale(f, last[p]))
    BY <1>12, Zenon
  <2>2. settled'[c] = how /\ \A d \in Commands : d # c => settled'[d] = settled[d]
    BY <1>7, <1>11, <2>1, ZenonT(30) DEF Settle
  <2>3. how # "expired" => Overtaken(c)
    <3>1. p = PointOf[c]
      BY ZenonT(30) DEF p
    <3>2. QED
      BY <1>10, <2>1, <3>1, Zenon DEF Overtaken
  <2>4. StaleInv'
    <3>1. ASSUME NEW d \in Commands, settled'[d] \in {"stale", "duplicate"}
          PROVE  Overtaken(d)
      <4>1. "expired" \notin {"stale", "duplicate"}
        BY ZenonT(30)
      <4>2. QED
        BY <1>11, <2>2, <2>3, <3>1, <4>1, Zenon DEF StaleInv
    <3>2. \A d : Overtaken(d) => Overtaken(d)'
      BY <1>8, Zenon DEF Overtaken
    <3>3. QED
      BY <3>1, <3>2, Zenon DEF StaleInv
  <2>5. CarriedInv'
    BY <1>3, <1>4, <1>6, <1>8, <1>12, CarriedAway, ZenonT(30)
  <2>6. AcceptedInv' /\ NewestAccepted
    BY <1>8, <1>11, <1>12, AcceptedStands, Zenon
  <2>7. QED
    BY <1>9, <2>4, <2>5, <2>6, Zenon DEF IssueInv
<1>13. CASE /\ last' = [last EXCEPT ![p] = f] /\ settled' = settled
            /\ last[p].producer = f.producer => ~IsStale(f, last[p])
  <2>1. /\ last' \in [Points -> Frames \cup {NoFrame}] /\ last'[p] = f
        /\ \A q \in Points : q # p => last'[q] = last[q]
    BY <1>3, <1>7, <1>11, <1>13, ZenonT(30)
  <2>2. StaleInv'
    BY <1>8, <1>11, <1>13, StaleStands, Zenon
  <2>3. CarriedInv'
    <3>1. \A q \in Points : last'[q] = last[q] \/ last'[q] = f
      BY <2>1, Zenon
    <3>2. QED
      BY <1>3, <1>4, <1>6, <1>8, <3>1, CarriedAway, ZenonT(30)
  <2>4. AcceptedInv'
    <3>1. ASSUME NEW q \in Points, last'[q] # NoFrame
          PROVE  last'[q] = frame'[last'[q].cmd] /\ PointOf[last'[q].cmd] = q /\ outcome'[last'[q].cmd] = "sent"
      <4>1. CASE q = p
        BY <1>5, <1>8, <2>1, <4>1, Zenon DEF p, c
      <4>2. CASE q # p
        <5>1. last'[q] = last[q] /\ last[q] # NoFrame
          BY <2>1, <3>1, <4>2, Zenon
        <5>2. last[q] = frame[last[q].cmd] /\ PointOf[last[q].cmd] = q /\ outcome[last[q].cmd] = "sent"
          BY <1>11, <5>1, Zenon DEF AcceptedInv
        <5>3. QED
          BY <1>8, <5>1, <5>2, Zenon
      <4>3. QED
        BY <4>1, <4>2, Zenon
    <3>2. QED
      BY <2>1, <3>1, Zenon DEF AcceptedInv
  <2>5. NewestAccepted
    <3>1. ASSUME NEW q \in Points, last'[q] # last[q], NoFrame \notin {last[q], last'[q]},
                 last'[q].producer = last[q].producer
          PROVE  Position(last[q].cmd) < Position(last'[q].cmd)
      <4>1. q = p /\ last'[q] = f /\ last[q] = last[p]
        BY <2>1, <3>1, Zenon
      <4>2. last[p].producer = f.producer /\ ~IsStale(f, last[p])
        BY <1>13, <3>1, <4>1, Zenon
      <4>3. PICK i \in DOMAIN order, j \in DOMAIN order : order[i] = c /\ order[j] = last[p].cmd /\ j < i
        BY <1>10, <4>2, Zenon
      <4>4. Once(order)
        BY DEF IssueInv, OrderInv
      <4>5. (CHOOSE n \in DOMAIN order : order[n] = c) = i /\ (CHOOSE n \in DOMAIN order : order[n] = last[p].cmd) = j
        BY <4>3, <4>4, PositionOf
      <4>6. last'[q].cmd = c
        BY <4>1 DEF c
      <4>7. QED
        BY <4>1, <4>3, <4>5, <4>6, ZenonT(30) DEF Position
    <3>2. QED
      BY <3>1, Zenon DEF NewestAccepted
  <2>6. QED
    BY <1>9, <2>2, <2>3, <2>4, <2>5, Zenon DEF IssueInv
<1>14. QED
  <2>1. SequenceKey(f.cmd) = p /\ c = f.cmd
    BY ZenonT(30) DEF SequenceKey, p, c
  <2>2. IsStale(f, last[p]) => last[p].producer = f.producer
    BY ZenonT(30) DEF IsStale
  <2>3. ~(f.producer = last[p].producer /\ f.seq = last[p].seq)
    BY <1>10, ZenonT(30)
  <2>4. QED
    BY <1>1, <1>12, <1>13, <2>1, <2>2, <2>3, ZenonT(30) DEF Handle


\* The other steps of a task accept nothing.
LEMMA ListenInOrder ==
  ASSUME TransportInv, IssueInv, NEW k \in Connections, Listen(k)
  PROVE  IssueInv' /\ NewestAccepted
<1>1. CASE ReadFrame(k)
  BY <1>1, ReadInOrder, Zenon
<1>2. CASE Offer(k) \/ SendSucceeds(k) \/ SendTimesOut(k)
  <2>1. /\ UNCHANGED notifierVars /\ wire' = wire /\ last' = last
        /\ settled' = settled \/ (\E how \in {"unregistered", "full"} : Settle(task[k].frame.cmd, how))
    BY <1>2, Zenon DEF Offer, SendSucceeds, SendTimesOut
  <2>2. \A c \in Commands : settled'[c] \in {"stale", "duplicate"} => settled[c] \in {"stale", "duplicate"}
    BY <2>1, ZenonT(30) DEF Settle, TransportInv, SentInv
  <2>3. QED
    BY <2>1, <2>2, ListenerIssuesNothing, Zenon
<1>3. CASE EndOfStream(k)
  <2>1. UNCHANGED notifierVars /\ wire' = [wire EXCEPT ![k] = <<>>] /\ last' = last /\ settled' = settled
    BY <1>3, Zenon DEF EndOfStream
  <2>2. wire \in [Connections -> Seq(HalfStates)]
    BY Zenon DEF TransportInv, WireInv
  <2>3. \A j \in Connections : wire'[j] = wire[j] \/ wire'[j] = <<>>
    BY <2>1, <2>2, Zenon
  <2>4. QED
    BY <2>1, <2>3, ListenerIssuesNothing, Zenon
<1>4. QED
  BY <1>1, <1>2, <1>3, Zenon DEF Listen

\* The channel task, the management of channels and the IO process accept nothing.
LEMMA IoInOrder ==
  ASSUME TransportInv, IssueInv, Execute \/ RemoveChannel \/ Manage \/ IoStops \/ IoStarts
  PROVE  IssueInv' /\ NewestAccepted
<1>1. UNCHANGED notifierVars
  BY Zenon DEF Execute, RemoveChannel, Manage, UnregisterChannel, ChannelStops, CreateChannel, RegisterChannel,
               SetChannel, IoStops, IoStarts
<1>2. settled \in [Commands -> Settlements]
  BY Zenon DEF TransportInv, SentInv
<1>3. CASE IoStops
  <2>1. /\ wire' = [k \in Connections |-> <<>>] /\ last' = [p \in Points |-> NoFrame]
        /\ settled' = [c \in Commands |->
                         IF outcome[c] = "sent" /\ settled[c] = "none" THEN "lost" ELSE settled[c]]
    BY <1>3, Zenon DEF IoStops
  <2>2. \A c \in Commands : settled'[c] \in {"stale", "duplicate"} => settled[c] \in {"stale", "duplicate"}
    BY <2>1, ZenonT(30)
  <2>3. \A k \in Connections : wire'[k] = <<>>
    BY <2>1, ZenonT(30)
  <2>4. QED
    BY <1>1, <2>1, <2>2, <2>3, ListenerIssuesNothing, Zenon
<1>4. CASE Execute \/ RemoveChannel \/ Manage \/ IoStarts
  <2>1. wire' = wire /\ last' = last
    BY <1>4, Zenon DEF Execute, RemoveChannel, Manage, UnregisterChannel, ChannelStops, CreateChannel, RegisterChannel,
                       SetChannel, IoStarts
  <2>2. \A c \in Commands : settled'[c] \in {"stale", "duplicate"} => settled[c] \in {"stale", "duplicate"}
    <3>1. CASE Execute
      <4>1. \E how \in {"rejected", "executed"} : Settle(Head(queue).cmd, how)
        BY <3>1, ZenonT(30) DEF Execute
      <4>2. QED
        BY <1>2, <4>1, ZenonT(30) DEF Settle
    <3>2. CASE ChannelStops
      BY <3>2, ZenonT(30) DEF ChannelStops
    <3>3. CASE settled' = settled
      BY <3>3, Zenon
    <3>4. QED
      BY <1>4, <3>1, <3>2, <3>3, Zenon
         DEF RemoveChannel, Manage, UnregisterChannel, CreateChannel, RegisterChannel, IoStarts
  <2>3. QED
    BY <1>1, <2>1, <2>2, ListenerIssuesNothing, Zenon
<1>5. QED
  BY <1>3, <1>4, Zenon

\* Nothing is issued at first.
LEMMA IssueStarts == Init => IssueInv
<1> SUFFICES ASSUME Init PROVE IssueInv
  OBVIOUS
<1>1. order \in Seq(Commands) /\ DOMAIN order = {}
  BY DEF Init
<1>2. OrderInv
  <2>1. "new" # "sent" /\ call.pc \notin {"attempt", "write"}
    BY IdleCall, ZenonT(30) DEF Init
  <2>2. \A c \in Commands : outcome[c] = "new"
    BY ZenonT(30) DEF Init
  <2>3. QED
    BY <1>1, <2>1, <2>2, Zenon DEF OrderInv, Once, Encoded, Issued
<1>3. NumberInv
  BY <1>1, Zenon DEF NumberInv
<1>4. CarriedInv
  <2>1. \A k \in Connections : DOMAIN wire[k] = {}
    BY NothingWritten, ZenonT(30) DEF Init
  <2>2. QED
    BY <2>1, Zenon DEF CarriedInv
<1>5. AcceptedInv
  BY ZenonT(30) DEF Init, AcceptedInv
<1>6. StaleInv
  BY ZenonT(30) DEF Init, StaleInv
<1>7. QED
  BY <1>2, <1>3, <1>4, <1>5, <1>6, ZenonT(30) DEF IssueInv

\* Every step keeps the order of issue and accepts in it.
LEMMA IssueKept == TransportInv /\ IssueInv /\ Next => IssueInv' /\ NewestAccepted
<1> SUFFICES ASSUME TransportInv, IssueInv, Next PROVE IssueInv' /\ NewestAccepted
  BY ZenonT(30)
<1>1. CASE \E c \in Commands : Begin(c) \/ Expire(c)
  BY <1>1, BeginInOrder, TimeInOrder, Zenon
<1>2. CASE Notify
  BY <1>2, TakeInOrder, AttemptInOrder, WriteInOrder, WriteFailsInOrder, InterruptionInOrder, Zenon DEF Notify
<1>3. CASE BackoffElapses \/ AutomationRestarts
  BY <1>3, TimeInOrder, RestartInOrder, Zenon
<1>4. CASE \E k \in Connections : Listen(k)
  BY <1>4, ListenInOrder, Zenon
<1>5. CASE Execute \/ RemoveChannel \/ Manage \/ IoStops \/ IoStarts
  BY <1>5, IoInOrder, Zenon
<1>6. QED
  BY <1>1, <1>2, <1>3, <1>4, <1>5, ZenonT(30) DEF Next

\* A step of another part of the system.
LEMMA IssueUnchanged == TransportInv /\ IssueInv /\ UNCHANGED vars => IssueInv'
<1> SUFFICES ASSUME TransportInv, IssueInv, UNCHANGED vars PROVE IssueInv'
  BY ZenonT(30)
<1>1. UNCHANGED notifierVars /\ wire' = wire /\ last' = last /\ settled' = settled
  BY Zenon DEF vars, notifierVars
<1>2. QED
  BY <1>1, ListenerIssuesNothing, Zenon

(***************************************************************************)
(* For any number of commands up to half the range of the u64 counter:     *)
(* however connections overtake each other, calls fail and processes       *)
(* restart, handle_notification accepts one producer's commands for one    *)
(* point in the order in which CommandNotifier::notify numbered them, and  *)
(* drops one as stale or duplicate only for a newer one that was sent.     *)
(***************************************************************************)
THEOREM IssueOrderAlwaysKept == Spec => IssueOrderKept
<1>1. Init => TransportInv /\ IssueInv
  BY TransportStarts, IssueStarts, ZenonT(30)
<1>2. TransportInv /\ IssueInv /\ [Next]_vars => TransportInv' /\ IssueInv'
  BY TransportKept, IssueKept, IssueUnchanged, ZenonT(30)
<1>3. TransportInv /\ IssueInv /\ [Next]_vars => [NewestAccepted]_vars
  BY IssueKept
<1>4. IssueInv => StaleOnlyIfNewer
  BY StaleHere
<1>5. QED
  BY <1>1, <1>2, <1>3, <1>4, PTL DEF Spec, IssueOrderKept
=============================================================================
