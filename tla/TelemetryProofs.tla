--------------------------- MODULE TelemetryProofs ---------------------------
(***************************************************************************)
(* Proofs about the telemetry hubs, for any number of ranks and clients,   *)
(* any order of commands, any bound on them and any size of the outbox.    *)
(*                                                                         *)
(* IInv (Telemetry) is inductive.  Its parts are what the four results     *)
(* need of one another:                                                    *)
(*   - ControlsAgree follows from ControlInv: the controls a rank has yet  *)
(*     to apply are one sequence (Pending), however far each of them has   *)
(*     come through the queues, and the last of a kind in it is the value  *)
(*     that rank 0 has (Settled).                                          *)
(*   - SnapshotComplete follows from LineInv.  The frames of a line are    *)
(*     read one after the other; that each is still recent enough when it  *)
(*     is read needs FrameInv, that the frames of a rank arrive in order   *)
(*     as long as it runs.                                                 *)
(*   - OutboxKeeps follows from OutboxInv.  A flush sends k parts of the   *)
(*     lines queued; which line and which part the i-th is, is division    *)
(*     by LineParts (Row, Col), and Walk says how they follow each other.  *)
(*     That a line queued is newer than the last one is the numbering of   *)
(*     lines, which only the broadcast thread and the final line touch.    *)
(* FinalsInv bounds the count of final frames, which TypeOK asks for.      *)
(*                                                                         *)
(* Most actions leave the hubs alone (Quiet) or only move one to another   *)
(* place (Move); Steps lists the five others.  What those five do to a hub *)
(* is said once (Listened, Emitted, ShutDown, Asked), and each part of     *)
(* IInv then has one lemma <part>Next.                                     *)
(***************************************************************************)
EXTENDS Telemetry, FiniteSetTheorems, SequenceTheorems, TLAPS

Wires == [Rank -> [Tag -> Seq(Frame)]]

\* Rank 0 is a rank of every run, and there are WorldSize of them.
LEMMA Ranks ==
    /\ 0 \in Rank /\ IsFiniteSet(Rank) /\ Cardinality(Rank) = WorldSize /\ WorldSize \in Nat
    /\ 0 \in Live /\ Live \subseteq Rank
<1>1. WorldSize \in Nat /\ WorldSize - 1 \in Int /\ WorldSize >= 2
  BY WorldAssumption
<1>2. IsFiniteSet(0 .. WorldSize - 1) /\ Cardinality(0 .. WorldSize - 1) = WorldSize
  BY <1>1, FS_Interval
<1> QED
  BY <1>1, <1>2 DEF Rank, Live

\* What a step at most does to a hub that moves to another place and does nothing else.
SameHub == \A q \in Rank :
    /\ hub'[q].running = hub[q].running /\ hub'[q].paused = hub[q].paused
    /\ hub'[q].interval = hub[q].interval /\ hub'[q].due = hub[q].due
    /\ hub'[q].answered = hub[q].answered /\ hub'[q].seq = hub[q].seq

\* A hub that moves to another place.
LEMMA Moves ==
    ASSUME hub \in [Rank -> Hub], NEW r \in Rank, NEW x \in Place,
           hub' = [hub EXCEPT ![r].at = x]
    PROVE  /\ hub' \in [Rank -> Hub] /\ SameHub /\ hub'[r].at = x
           /\ \A q \in Rank : q # r => hub'[q] = hub[q]
<1>1. /\ \A q \in Rank : q # r => hub'[q] = hub[q]
      /\ hub'[r] = [hub[r] EXCEPT !.at = x]
  OBVIOUS
<1>2. hub[r] \in Hub
  OBVIOUS
<1>3. /\ hub'[r] \in Hub /\ hub'[r].at = x /\ hub'[r].running = hub[r].running
      /\ hub'[r].paused = hub[r].paused
      /\ hub'[r].interval = hub[r].interval /\ hub'[r].due = hub[r].due
      /\ hub'[r].answered = hub[r].answered /\ hub'[r].seq = hub[r].seq
  BY <1>1, <1>2 DEF Hub
<1>4. SameHub
  BY <1>1, <1>3 DEF SameHub
<1> QED
  BY <1>1, <1>3, <1>4

\* Nothing follows the only element of a sequence.
LEMMA OnlyOne == ASSUME NEW S, NEW s \in Seq(S), Len(s) = 1 PROVE Tail(s) = <<>>
<1>1. s # <<>>
  OBVIOUS
<1>2. Tail(s) \in Seq(S) /\ Len(Tail(s)) = 0
  BY <1>1, HeadTailProperties
<1> QED
  BY <1>2, EmptySeq

\* A frame that is published: the last on its way with its tag, or the only one in the slot.
LEMMA Published ==
    ASSUME wire \in Wires, NEW r \in Rank, NEW t \in Tag, NEW f \in Frame
    PROVE  /\ publish(r, t, f) \in Wires
           /\ \A q \in Rank : q # r => publish(r, t, f)[q] = wire[q]
           /\ mode = "MT_ONLY" => /\ publish(r, t, f)[r]["regular"] = <<f>>
                                  /\ publish(r, t, f)[r]["final"] = wire[r]["final"]
           /\ mode # "MT_ONLY" => /\ publish(r, t, f)[r][t] = Append(wire[r][t], f)
                                  /\ \A u \in Tag : u # t => publish(r, t, f)[r][u] = wire[r][u]
<1>1. CASE mode = "MT_ONLY"
  <2>1. publish(r, t, f) = [wire EXCEPT ![r]["regular"] = <<f>>]
    BY <1>1 DEF publish, publish_local, Tag
  <2>2. <<f>> \in Seq(Frame) /\ "regular" \in Tag /\ "final" \in Tag
    BY DEF Tag
  <2> QED
    BY <1>1, <2>1, <2>2 DEF Wires
<1>2. CASE mode # "MT_ONLY"
  <2>1. publish(r, t, f) = [wire EXCEPT ![r][t] = Append(wire[r][t], f)]
    BY <1>2 DEF publish, post_isend, Wires
  <2>2. Append(wire[r][t], f) \in Seq(Frame)
    BY DEF Wires
  <2> QED
    BY <1>2, <2>1, <2>2 DEF Wires
<1> QED
  BY <1>1, <1>2

\* A frame that is received: the first on its way with its tag.
LEMMA Taken ==
    ASSUME wire \in Wires, NEW r \in Rank, NEW t \in Tag, wire[r][t] # <<>>,
           wire' = [wire EXCEPT ![r][t] = Tail(@)]
    PROVE  /\ wire' \in Wires /\ Head(wire[r][t]) \in Frame
           /\ \A q \in Rank : q # r => wire'[q] = wire[q]
           /\ wire'[r][t] = Tail(wire[r][t])
           /\ \A u \in Tag : u # t => wire'[r][u] = wire[r][u]
<1>1. wire[r][t] \in Seq(Frame)
  BY DEF Wires
<1>2. Head(wire[r][t]) \in Frame /\ Tail(wire[r][t]) \in Seq(Frame)
  BY <1>1
<1> QED
  BY <1>1, <1>2 DEF Wires

-----------------------------------------------------------------------------
(* What the steps do to the hubs *)

\* A control that is applied.
LEMMA Applied ==
    ASSUME NEW h \in Hub, NEW m \in Control
    PROVE  /\ Apply(h, m) \in Hub
           /\ Apply(h, m).at = h.at /\ Apply(h, m).running = h.running
           /\ Apply(h, m).answered = h.answered /\ Apply(h, m).seq = h.seq
           /\ Apply(h, m).due = IF m.kind = "SNAPSHOT" THEN m.value ELSE h.due
           /\ Apply(h, m).paused = IF m.kind \in {"PAUSE", "RESUME"} THEN m.kind = "PAUSE"
                                   ELSE h.paused
           /\ Apply(h, m).interval = IF m.kind = "SET_INTERVAL_MS" THEN m.value ELSE h.interval
<1>1. CASE m.kind = "PAUSE"
  <2>1. Apply(h, m) = [h EXCEPT !.paused = TRUE]
    BY <1>1 DEF Apply
  <2> QED
    BY <1>1, <2>1 DEF Hub
<1>2. CASE m.kind = "RESUME"
  <2>1. Apply(h, m) = [h EXCEPT !.paused = FALSE]
    BY <1>2 DEF Apply
  <2> QED
    BY <1>2, <2>1 DEF Hub
<1>3. CASE m.kind = "SET_INTERVAL_MS"
  <2>1. Apply(h, m) = [h EXCEPT !.interval = m.value] /\ m.value \in Interval
    BY <1>3 DEF Apply, Control
  <2> QED
    BY <1>3, <2>1 DEF Hub
<1>4. CASE m.kind = "SNAPSHOT"
  <2>1. Apply(h, m) = [h EXCEPT !.due = m.value] /\ m.value \in Nat
    BY <1>4 DEF Apply, Control
  <2> QED
    BY <1>4, <2>1 DEF Hub
<1> QED
  BY <1>1, <1>2, <1>3, <1>4 DEF Control

\* A line of a client is a control that rank 0 passes on, but for one that is ignored.
LEMMA Commanded ==
    ASSUME NEW line \in Line, parse_control_line(line).kind # "UNSPECIFIED"
    PROVE  /\ parse_control_line(line) \in Control
           /\ parse_control_line(line).kind # "SNAPSHOT"
<1>1. CASE line.kind = "pause"
  <2>1. parse_control_line(line) = [kind |-> "PAUSE", value |-> 0]
    BY <1>1 DEF parse_control_line
  <2> QED
    BY <2>1 DEF Control
<1>2. CASE line.kind = "resume"
  <2>1. parse_control_line(line) = [kind |-> "RESUME", value |-> 0]
    BY <1>2 DEF parse_control_line
  <2> QED
    BY <2>1 DEF Control
<1>3. CASE line.kind = "set_node_interval_ms"
  <2>1. parse_control_line(line) = [kind |-> "UNSPECIFIED", value |-> line.value]
    BY <1>3 DEF parse_control_line
  <2> QED
    BY <2>1
<1>4. CASE line.kind \notin {"pause", "resume", "set_node_interval_ms"}
  <2>1. parse_control_line(line) = [kind |-> "SET_INTERVAL_MS", value |-> clamp(line.value)]
    BY <1>4 DEF parse_control_line
  <2>2. line.value \in Int
    BY <1>4, IntervalsAssumption DEF Line
  <2>3. \A v \in Int : clamp(v) \in Interval
    BY SMT DEF clamp, Interval
  <2> QED
    BY <2>1, <2>2, <2>3 DEF Control
<1> QED
  BY <1>1, <1>2, <1>3, <1>4

\* The steps that leave every hub alone.
Quiet ==
    \/ ReceiveSlot \/ \E r \in Rank : ReceiveFrame(r)
    \/ FlushFinal \/ \E c \in Client : Accept(c) \/ Disconnect(c)
    \/ BroadcastThread \/ ClientSnapshotTooSoon \/ SnapshotExpires \/ FinalWaitExpires
    \/ FlushExpires \/ Finished

\* A quiet step leaves every hub as it is.
LEMMA Quietly == Quiet => UNCHANGED hub
  BY DEF Quiet, ReceiveSlot, ReceiveFrame, FlushFinal, Accept, Disconnect, BroadcastThread,
         StopSeen, Push, StartLine, ReadFrame, Deliver, ClientSnapshotTooSoon, SnapshotExpires,
         FinalWaitExpires, FlushExpires, Finished, vars

\* The steps that move the hub of one rank to another place and do nothing else to it.
Move(r) ==
    \/ NotDue(r) \/ Reset(r)
    \/ r = 0 /\ (Fanout \/ ProbeFailed \/ CheckFinals \/ Stop \/ Join \/ CloseClients)

\* Every step is one of them or one of five more.
LEMMA Steps ==
    Next =>
      \/ Quiet \/ \E r \in Rank : Move(r)
      \/ \E r \in Rank : try_recv_control(r) \/ Emit(r) \/ Shutdown(r)
      \/ \E line \in Line : ClientControl(parse_control_line(line))
      \/ ClientSnapshot
<1>1. RankZero => ReceiveSlot \/ (\E r \in Rank : ReceiveFrame(r)) \/ Move(0)
  BY DEF RankZero, Move
<1> QED
  BY <1>1, Ranks DEF Next, Quiet, Move

\* What the actions of Move do: one hub comes to another place and nothing else of it changes.
LEMMA Moving ==
    ASSUME hub \in [Rank -> Hub], RunningInv, NEW r \in Rank, Move(r)
    PROVE  /\ hub' \in [Rank -> Hub] /\ SameHub
           /\ \A q \in Rank : q # r => hub'[q] = hub[q]
           /\ hub'[r].at \in {"loop", "tick", "fanout"} => hub[r].running
           /\ hub[r].running => r \in Live /\ hub'[r].at \in {"loop", "tick", "fanout"} \cup Tag
<1> DEFINE Fine(x) == /\ x \in Place
                      /\ x \in {"loop", "tick", "fanout"} => hub[r].running
                      /\ hub[r].running => x \in {"loop", "tick", "fanout"} \cup Tag
<1>1. /\ hub[r] \in Hub
      /\ hub[r].at \in {"loop", "tick", "fanout"} => hub[r].running
      /\ hub[r].running => r \in Live /\ hub[r].at \in {"loop", "tick", "fanout"} \cup Tag
  BY DEF RunningInv
<1>2. \E x \in Place : hub' = [hub EXCEPT ![r].at = x] /\ Fine(x)
  <2>1. CASE NotDue(r)
    BY <2>1, <1>1 DEF NotDue, AfterEmit, Place, Tag
  <2>2. CASE Reset(r)
    BY <2>2, <1>1 DEF Reset, Place, Tag
  <2>3. CASE r = 0 /\ Fanout
    BY <2>3, <1>1 DEF Fanout, Place, Tag
  <2>4. CASE r = 0 /\ ProbeFailed
    BY <2>4, <1>1 DEF ProbeFailed, Place, Tag
  <2>5. CASE r = 0 /\ CheckFinals
    BY <2>5, <1>1 DEF CheckFinals, Place, Tag
  <2>6. CASE r = 0 /\ Stop
    BY <2>6, <1>1 DEF Stop, Place, Tag
  <2>7. CASE r = 0 /\ Join
    BY <2>7, <1>1 DEF Join, Place, Tag
  <2>8. CASE r = 0 /\ CloseClients
    BY <2>8, <1>1 DEF CloseClients, Place, Tag
  <2> QED
    BY <2>1, <2>2, <2>3, <2>4, <2>5, <2>6, <2>7, <2>8 DEF Move
<1>3. PICK x \in Place : hub' = [hub EXCEPT ![r].at = x] /\ Fine(x)
  BY <1>2
<1>4. /\ hub' \in [Rank -> Hub] /\ SameHub /\ hub'[r].at = x
      /\ \A q \in Rank : q # r => hub'[q] = hub[q]
  BY <1>3, Moves
<1> QED
  BY <1>1, <1>3, <1>4

\* A rank that applies a control.
LEMMA Listened ==
    ASSUME hub \in [Rank -> Hub], control \in [Rank -> Seq(Control)], RunningInv,
           NEW r \in Rank, try_recv_control(r)
    PROVE  LET m == Head(control[r]) IN
           /\ m \in Control
           /\ hub' \in [Rank -> Hub] /\ \A q \in Rank : q # r => hub'[q] = hub[q]
           /\ hub[r].running /\ hub'[r].running
           /\ hub'[r].at = "tick" /\ hub'[r].seq = hub[r].seq /\ hub'[r].answered = hub[r].answered
           /\ hub'[r].due = IF m.kind = "SNAPSHOT" THEN m.value ELSE hub[r].due
           /\ hub'[r].paused = IF m.kind \in {"PAUSE", "RESUME"} THEN m.kind = "PAUSE"
                               ELSE hub[r].paused
           /\ hub'[r].interval = IF m.kind = "SET_INTERVAL_MS" THEN m.value ELSE hub[r].interval
           /\ UNCHANGED <<wire, latest, fanout, snapshot, server, finals>>
<1> DEFINE m == Head(control[r])
           h == Apply(hub[r], m)
<1>1. /\ control[r] # <<>> /\ hub' = [hub EXCEPT ![r] = [h EXCEPT !.at = "tick"]]
      /\ hub[r].at \in {"loop", "tick"}
      /\ UNCHANGED <<wire, latest, fanout, snapshot, server, finals>>
  BY DEF try_recv_control
<1>2. hub[r] \in Hub /\ hub[r].running
  BY <1>1 DEF RunningInv
<1>3. m \in Control
  BY <1>1
<1> HIDE DEF m
<1>4. /\ h \in Hub /\ h.running = hub[r].running
      /\ h.answered = hub[r].answered /\ h.seq = hub[r].seq
      /\ h.due = IF m.kind = "SNAPSHOT" THEN m.value ELSE hub[r].due
      /\ h.paused = IF m.kind \in {"PAUSE", "RESUME"} THEN m.kind = "PAUSE" ELSE hub[r].paused
      /\ h.interval = IF m.kind = "SET_INTERVAL_MS" THEN m.value ELSE hub[r].interval
  BY <1>2, <1>3, Applied
<1> HIDE DEF h
<1>5. hub'[r] = [h EXCEPT !.at = "tick"] /\ \A q \in Rank : q # r => hub'[q] = hub[q]
  BY <1>1
<1>6. /\ hub'[r] \in Hub /\ hub'[r].at = "tick" /\ hub'[r].running = h.running
      /\ hub'[r].answered = h.answered /\ hub'[r].seq = h.seq /\ hub'[r].due = h.due
      /\ hub'[r].paused = h.paused /\ hub'[r].interval = h.interval
  BY <1>4, <1>5 DEF Hub, Place
<1>7. hub' \in [Rank -> Hub]
  BY <1>1, <1>6
<1> QED
  BY <1>1, <1>2, <1>3, <1>4, <1>5, <1>6, <1>7 DEF m

\* A rank that emits a frame.
LEMMA Emitted ==
    ASSUME hub \in [Rank -> Hub], wire \in Wires, RunningInv, NEW r \in Rank, Emit(r)
    PROVE  /\ hub' \in [Rank -> Hub] /\ \A q \in Rank : q # r => hub'[q] = hub[q]
           /\ hub[r].running /\ hub'[r].running
           /\ hub'[r].at = AfterEmit(r) /\ hub'[r].seq = hub[r].seq + 1 /\ hub'[r].due = 0
           /\ hub'[r].answered = IF hub[r].due # 0 THEN hub[r].due ELSE hub[r].answered
           /\ hub'[r].paused = hub[r].paused /\ hub'[r].interval = hub[r].interval
           /\ wire' \in Wires /\ \A q \in Rank : q # r => wire'[q] = wire[q]
           /\ LET f == snapshot_worker_frame(hub'[r], FALSE) IN
              /\ f \in Frame
              /\ wire'[r]["regular"] = IF mode = "MT_ONLY" THEN <<f>>
                                       ELSE Append(wire[r]["regular"], f)
              /\ wire'[r]["final"] = wire[r]["final"]
           /\ UNCHANGED <<mode, control, latest, fanout, snapshot, server, finals>>
<1> DEFINE a == IF hub[r].due # 0 THEN hub[r].due ELSE hub[r].answered
           h == [hub[r] EXCEPT !.at = AfterEmit(r), !.due = 0, !.seq = @ + 1, !.answered = a]
           f == snapshot_worker_frame(h, FALSE)
<1>1. /\ hub[r].at \in {"loop", "tick"} /\ hub' = [hub EXCEPT ![r] = h]
      /\ wire' = publish(r, "regular", f)
      /\ UNCHANGED <<mode, control, latest, fanout, snapshot, server, finals>>
  BY DEF Emit
<1>2. hub[r] \in Hub /\ hub[r].running /\ a \in Nat /\ AfterEmit(r) \in Place
  BY <1>1 DEF RunningInv, Hub, AfterEmit, Place
<1> HIDE DEF a
<1>3. /\ h \in Hub /\ h.running = hub[r].running /\ h.at = AfterEmit(r)
      /\ h.seq = hub[r].seq + 1 /\ h.due = 0 /\ h.answered = a
      /\ h.paused = hub[r].paused /\ h.interval = hub[r].interval
  <2>1. hub[r].seq + 1 \in Nat
    BY <1>2 DEF Hub
  <2>2. h \in Hub
    BY <1>2, <2>1 DEF Hub
  <2>3. DOMAIN hub[r] = {"at", "running", "paused", "interval", "due", "answered", "seq"}
    BY <1>2 DEF Hub
  <2> QED
    BY <2>2, <2>3
<1> HIDE DEF h
<1>4. f \in Frame
  BY <1>3 DEF snapshot_worker_frame, Frame, Hub
<1>5. hub'[r] = h /\ hub' \in [Rank -> Hub] /\ \A q \in Rank : q # r => hub'[q] = hub[q]
  BY <1>1, <1>3
<1>6. f = snapshot_worker_frame(hub'[r], FALSE)
  BY <1>5
<1> HIDE DEF f
<1>7. /\ wire' \in Wires /\ \A q \in Rank : q # r => wire'[q] = wire[q]
      /\ wire'[r]["regular"] = IF mode = "MT_ONLY" THEN <<f>> ELSE Append(wire[r]["regular"], f)
      /\ wire'[r]["final"] = wire[r]["final"]
  <2>1. "regular" \in Tag /\ "final" \in Tag
    BY DEF Tag
  <2> QED
    BY <1>1, <1>4, <2>1, Published
<1> QED
  BY <1>1, <1>2, <1>3, <1>4, <1>5, <1>6, <1>7 DEF a

\* A rank that shuts down.
LEMMA ShutDown ==
    ASSUME hub \in [Rank -> Hub], wire \in Wires, RunningInv, NEW r \in Rank, Shutdown(r)
    PROVE  /\ hub' \in [Rank -> Hub] /\ \A q \in Rank : q # r => hub'[q] = hub[q]
           /\ hub[r].running /\ ~hub'[r].running
           /\ hub'[r].at \notin {"loop", "tick", "fanout"}
           /\ hub'[r].seq = hub[r].seq + 1 /\ hub'[r].due = hub[r].due
           /\ hub'[r].answered = hub[r].answered
           /\ hub'[r].paused = hub[r].paused /\ hub'[r].interval = hub[r].interval
           /\ wire' \in Wires /\ \A q \in Rank : q # r => wire'[q] = wire[q]
           /\ LET f == snapshot_worker_frame(hub'[r], TRUE) IN
              /\ f \in Frame
              /\ mode = "MT_ONLY" => /\ wire'[r]["regular"] = <<f>>
                                     /\ wire'[r]["final"] = wire[r]["final"]
              /\ mode # "MT_ONLY" => /\ wire'[r]["regular"] = wire[r]["regular"]
                                     /\ wire'[r]["final"] = Append(wire[r]["final"], f)
           /\ UNCHANGED <<mode, control, latest, fanout, snapshot, server, finals>>
<1> DEFINE x == IF r = 0 THEN "regular" ELSE "reset"
           h == [hub[r] EXCEPT !.running = FALSE, !.seq = @ + 1, !.at = x]
           f == snapshot_worker_frame(h, TRUE)
<1>1. /\ hub[r].at = "loop" /\ hub' = [hub EXCEPT ![r] = h] /\ wire' = publish(r, "final", f)
      /\ UNCHANGED <<mode, control, latest, fanout, snapshot, server, finals>>
  BY DEF Shutdown
<1>2. hub[r] \in Hub /\ hub[r].running /\ x \in Place /\ x \notin {"loop", "tick", "fanout"}
  BY <1>1 DEF RunningInv, Place, Tag
<1> HIDE DEF x
<1>3. /\ h \in Hub /\ ~h.running /\ h.at = x /\ h.due = hub[r].due
      /\ h.seq = hub[r].seq + 1 /\ h.answered = hub[r].answered
      /\ h.paused = hub[r].paused /\ h.interval = hub[r].interval
  <2>1. hub[r].seq + 1 \in Nat
    BY <1>2 DEF Hub
  <2>2. h \in Hub
    BY <1>2, <2>1 DEF Hub
  <2>3. DOMAIN hub[r] = {"at", "running", "paused", "interval", "due", "answered", "seq"}
    BY <1>2 DEF Hub
  <2> QED
    BY <2>2, <2>3
<1> HIDE DEF h
<1>4. f \in Frame
  BY <1>3 DEF snapshot_worker_frame, Frame, Hub
<1>5. hub'[r] = h /\ hub' \in [Rank -> Hub] /\ \A q \in Rank : q # r => hub'[q] = hub[q]
  BY <1>1, <1>3
<1>6. f = snapshot_worker_frame(hub'[r], TRUE)
  BY <1>5
<1> HIDE DEF f
<1>7. /\ wire' \in Wires /\ \A q \in Rank : q # r => wire'[q] = wire[q]
      /\ mode = "MT_ONLY" => /\ wire'[r]["regular"] = <<f>>
                             /\ wire'[r]["final"] = wire[r]["final"]
      /\ mode # "MT_ONLY" => /\ wire'[r]["regular"] = wire[r]["regular"]
                             /\ wire'[r]["final"] = Append(wire[r]["final"], f)
  <2>1. "regular" \in Tag /\ "final" \in Tag /\ "final" # "regular"
    BY DEF Tag
  <2> QED
    BY <1>1, <1>4, <2>1, Published
<1> QED
  BY <1>1, <1>2, <1>3, <1>4, <1>5, <1>6, <1>7

\* Rank 0 takes a command of a client.
LEMMA Asked ==
    ASSUME hub \in [Rank -> Hub], snapshot.requested \in Nat,
           ClientSnapshot \/ \E line \in Line : ClientControl(parse_control_line(line))
    PROVE  /\ hub' \in [Rank -> Hub] /\ \A q \in Rank : q # 0 => hub'[q] = hub[q]
           /\ \A q \in Rank : /\ hub'[q].running = hub[q].running /\ hub'[q].at = hub[q].at
                              /\ hub'[q].seq = hub[q].seq /\ hub'[q].answered = hub[q].answered
           /\ UNCHANGED <<mode, wire, control, latest, finals>>
<1>1. PICK m \in Control : hub' = [hub EXCEPT ![0] = Apply(hub[0], m)]
  <2>1. CASE ClientSnapshot
    <3> DEFINE id == snapshot.requested + 1
    <3>1. hub' = [hub EXCEPT ![0].due = id] /\ id \in Nat
      BY <2>1 DEF ClientSnapshot
    <3>2. [kind |-> "SNAPSHOT", value |-> id] \in Control
      BY <3>1 DEF Control
    <3> HIDE DEF id
    <3>3. Apply(hub[0], [kind |-> "SNAPSHOT", value |-> id]) = [hub[0] EXCEPT !.due = id]
      BY DEF Apply
    <3> QED
      BY <3>1, <3>2, <3>3, Ranks
  <2>2. ASSUME NEW line \in Line, ClientControl(parse_control_line(line))
        PROVE  \E m \in Control : hub' = [hub EXCEPT ![0] = Apply(hub[0], m)]
    BY <2>2, Commanded DEF ClientControl
  <2> QED
    BY <2>1, <2>2
<1>2. hub[0] \in Hub
  BY Ranks
<1>3. /\ Apply(hub[0], m) \in Hub /\ Apply(hub[0], m).at = hub[0].at
      /\ Apply(hub[0], m).running = hub[0].running
      /\ Apply(hub[0], m).answered = hub[0].answered /\ Apply(hub[0], m).seq = hub[0].seq
  BY <1>2, Applied
<1>4. /\ hub' \in [Rank -> Hub] /\ hub'[0] = Apply(hub[0], m)
      /\ \A q \in Rank : q # 0 => hub'[q] = hub[q]
  BY <1>1, <1>3, Ranks
<1>5. UNCHANGED <<mode, wire, control, latest, finals>>
  BY DEF ClientSnapshot, ClientControl
<1> QED
  BY <1>3, <1>4, <1>5

-----------------------------------------------------------------------------
(* Type correctness *)

IsClient(cs) == DOMAIN cs = ClientFields /\ cs.state \in {"none", "open", "closed"}

\* A client stays one, whatever is queued for it and however much of it is sent.
LEMMA ClientKept ==
    ASSUME NEW cs, IsClient(cs)
    PROVE  /\ \A n : IsClient(push(cs, n))
           /\ \A fs \in Flushed(cs) : IsClient(fs)
           /\ IsClient(Closed(cs)) /\ IsClient([cs EXCEPT !.state = "open"])
<1>1. \A n : IsClient(push(cs, n))
  BY DEF IsClient, push, ClientFields
<1>2. IsClient(Closed(cs)) /\ IsClient([cs EXCEPT !.state = "open"])
  BY DEF IsClient, Closed, ClientFields
<1>3. \A k : IsClient(flush(cs, k))
  BY DEF IsClient, flush, ClientFields
<1>4. \A fs \in Flushed(cs) : fs = Closed(cs) \/ \E k : fs = flush(cs, k)
  BY DEF Flushed
<1> QED
  BY <1>1, <1>2, <1>3, <1>4

\* The initial state is well formed.
LEMMA TypeInit == Init => TypeOK
<1> SUFFICES ASSUME Init PROVE TypeOK
  OBVIOUS
<1> USE DEF Init
<1>1. mode \in Modes /\ commands \in Nat /\ lines \in Nat
  OBVIOUS
<1>2. hub \in [Rank -> Hub]
  <2>1. 1000 \in Interval
    BY SMT DEF Interval
  <2> QED
    BY <2>1 DEF Hub, Place
<1>3. wire \in [Rank -> [Tag -> Seq(Frame)]]
  OBVIOUS
<1>4. control \in [Rank -> Seq(Control)] /\ fanout \in Seq(Control)
  OBVIOUS
<1>5. latest \in [Rank -> Frame \cup {None}]
  OBVIOUS
<1>6. /\ snapshot \in [requested : Nat, expired : BOOLEAN]
      /\ finals \in [received : 0 .. WorldSize, expired : BOOLEAN]
  BY Ranks
<1>7. server \in Server
  BY DEF Server
<1>8. DOMAIN client = Client /\ \A c \in Client : IsClient(client[c])
  BY DEF IsClient, ClientFields
<1> QED
  BY <1>1, <1>2, <1>3, <1>4, <1>5, <1>6, <1>7, <1>8 DEF TypeOK, IsClient

-----------------------------------------------------------------------------
(* Final frames *)

FinalsOut == {r \in Rank : wire[r]["final"] # <<>>}
Ended == {r \in Rank : ~hub[r].running}

\* The ranks whose final frame is on its way, and those that have ended, are finitely many.
LEMMA FinalSets ==
    /\ IsFiniteSet(FinalsOut) /\ IsFiniteSet(Ended)
    /\ Cardinality(FinalsOut) \in Nat /\ Cardinality(Ended) \in Nat
    /\ Cardinality(Ended) <= WorldSize
<1>1. FinalsOut \subseteq Rank /\ Ended \subseteq Rank
  BY DEF FinalsOut, Ended
<1>2. /\ IsFiniteSet(FinalsOut) /\ IsFiniteSet(Ended)
      /\ Cardinality(Ended) <= WorldSize
  BY <1>1, Ranks, FS_Subset
<1>3. Cardinality(FinalsOut) \in Nat /\ Cardinality(Ended) \in Nat
  BY <1>2, FS_CardinalityType
<1> QED
  BY <1>2, <1>3

\* No final frame comes onto its way, none is taken from it and no rank runs again.
LEMMA FinalsKept ==
    ASSUME FinalsInv, finals.received \in Nat, finals'.received = finals.received,
           FinalsOut' \subseteq FinalsOut, Ended \subseteq Ended'
    PROVE  FinalsInv'
<1>1. Ended' \subseteq Rank /\ IsFiniteSet(Ended')
  BY Ranks, FS_Subset DEF Ended
<1>2. Cardinality(FinalsOut') <= Cardinality(FinalsOut) /\ Cardinality(FinalsOut') \in Nat
  BY FinalSets, FS_Subset, FS_CardinalityType
<1>3. Cardinality(Ended) <= Cardinality(Ended') /\ Cardinality(Ended') \in Nat
  BY <1>1, FS_Subset, FS_CardinalityType
<1>4. finals.received + Cardinality(FinalsOut) <= Cardinality(Ended)
  BY DEF FinalsInv, FinalsOut, Ended
<1>5. finals'.received + Cardinality(FinalsOut') <= Cardinality(Ended')
  BY <1>2, <1>3, <1>4, FinalSets
<1> QED
  BY <1>5 DEF FinalsInv, FinalsOut, Ended

\* A final frame is received.
LEMMA FinalTaken ==
    ASSUME FinalsInv, finals.received \in Nat, finals'.received = finals.received + 1,
           NEW r \in FinalsOut, FinalsOut' = FinalsOut \ {r}, Ended' = Ended
    PROVE  FinalsInv' /\ finals'.received <= WorldSize
<1>1. Cardinality(FinalsOut') = Cardinality(FinalsOut) - 1
  BY FinalSets, FS_RemoveElement
<1>2. finals.received + Cardinality(FinalsOut) <= Cardinality(Ended)
  BY DEF FinalsInv, FinalsOut, Ended
<1>3. Cardinality(FinalsOut') \in Nat
  BY FinalSets, FS_Subset, FS_CardinalityType
<1>4. Cardinality(Ended') = Cardinality(Ended)
  OBVIOUS
<1>5. /\ finals'.received + Cardinality(FinalsOut') <= Cardinality(Ended')
      /\ finals'.received <= WorldSize
  BY <1>1, <1>2, <1>3, <1>4, FinalSets, Ranks
<1> QED
  BY <1>5 DEF FinalsInv, FinalsOut, Ended

\* A rank ends, and its final frame comes onto its way.
LEMMA FinalSent ==
    ASSUME FinalsInv, finals.received \in Nat, finals'.received = finals.received,
           NEW r \in Rank, r \notin Ended, Ended' = Ended \cup {r},
           FinalsOut' \subseteq FinalsOut \cup {r}
    PROVE  FinalsInv'
<1>1. Cardinality(Ended') = Cardinality(Ended) + 1
  BY FinalSets, FS_AddElement
<1>2. IsFiniteSet(FinalsOut \cup {r}) /\ Cardinality(FinalsOut \cup {r}) <= Cardinality(FinalsOut) + 1
  <2>1. /\ IsFiniteSet(FinalsOut \cup {r})
        /\ \/ Cardinality(FinalsOut \cup {r}) = Cardinality(FinalsOut)
           \/ Cardinality(FinalsOut \cup {r}) = Cardinality(FinalsOut) + 1
    BY FinalSets, FS_AddElement
  <2> QED
    BY <2>1, FinalSets
<1>3. /\ Cardinality(FinalsOut') <= Cardinality(FinalsOut \cup {r})
      /\ Cardinality(FinalsOut') \in Nat /\ Cardinality(FinalsOut \cup {r}) \in Nat
  BY <1>2, FS_Subset, FS_CardinalityType
<1>4. finals.received + Cardinality(FinalsOut) <= Cardinality(Ended)
  BY DEF FinalsInv, FinalsOut, Ended
<1>5. finals'.received + Cardinality(FinalsOut') <= Cardinality(Ended')
  BY <1>1, <1>2, <1>3, <1>4, FinalSets
<1> QED
  BY <1>5 DEF FinalsInv, FinalsOut, Ended

\* Every step keeps the count of final frames within the number of ranks that have ended.
LEMMA FinalsNext == IInv /\ Next => FinalsInv' /\ finals' \in [received : 0 .. WorldSize, expired : BOOLEAN]
<1> SUFFICES ASSUME IInv, Next
             PROVE  FinalsInv' /\ finals' \in [received : 0 .. WorldSize, expired : BOOLEAN]
  OBVIOUS
<1>1. /\ finals \in [received : 0 .. WorldSize, expired : BOOLEAN]
      /\ hub \in [Rank -> Hub] /\ wire \in Wires
      /\ RunningInv /\ FrameInv /\ FinalsInv
  BY DEF IInv, TypeOK, Wires
<1>2. finals.received \in Nat /\ finals.expired \in BOOLEAN
  BY <1>1, Ranks
<1>3. CASE UNCHANGED <<hub, wire>> /\ (finals' = finals \/ finals' = [finals EXCEPT !.expired = TRUE])
  <2>1. finals'.received = finals.received /\ finals' \in [received : 0 .. WorldSize, expired : BOOLEAN]
    BY <1>1, <1>3
  <2>2. FinalsOut' \subseteq FinalsOut /\ Ended \subseteq Ended'
    BY <1>3 DEF FinalsOut, Ended
  <2> QED
    BY <1>1, <1>2, <2>1, <2>2, FinalsKept
<1>4. ASSUME NEW r \in Rank, ReceiveFrame(r)
      PROVE  FinalsInv' /\ finals' \in [received : 0 .. WorldSize, expired : BOOLEAN]
  <2> DEFINE t == hub[0].at
  <2>1. /\ t \in Tag /\ wire[r][t] # <<>> /\ wire' = [wire EXCEPT ![r][t] = Tail(@)]
        /\ finals' = IF t = "final" THEN [finals EXCEPT !.received = @ + 1] ELSE finals
        /\ hub' = hub
    BY <1>4 DEF ReceiveFrame
  <2> HIDE DEF t
  <2>2. /\ \A q \in Rank : q # r => wire'[q] = wire[q]
        /\ wire'[r][t] = Tail(wire[r][t])
        /\ \A u \in Tag : u # t => wire'[r][u] = wire[r][u]
    BY <1>1, <2>1, Taken
  <2>3. Ended' = Ended
    BY <2>1 DEF Ended
  <2>4. CASE t = "final"
    <3>1. Len(wire[r]["final"]) = 1 /\ wire[r]["final"] \in Seq(Frame)
      BY <1>1, <2>1, <2>4 DEF FrameInv, FramesOrdered, Wires
    <3>2. wire'[r]["final"] = <<>>
      BY <2>2, <2>4, <3>1, OnlyOne
    <3>3. r \in FinalsOut /\ FinalsOut' = FinalsOut \ {r}
      BY <2>1, <2>2, <2>4, <3>2 DEF FinalsOut
    <3>4. finals' = [finals EXCEPT !.received = finals.received + 1]
      BY <2>1, <2>4
    <3>5. finals'.received = finals.received + 1 /\ finals'.expired = finals.expired
      BY <1>1, <3>4
    <3>6. FinalsInv' /\ finals'.received <= WorldSize
      BY <1>1, <1>2, <2>3, <3>3, <3>5, FinalTaken
    <3>7. finals.received + 1 \in 0 .. WorldSize
      BY <1>2, <3>5, <3>6, Ranks
    <3> QED
      BY <1>1, <3>4, <3>6, <3>7
  <2>5. CASE t # "final"
    <3>1. FinalsOut' \subseteq FinalsOut
      BY <2>2, <2>5 DEF FinalsOut, Tag
    <3>2. finals' = finals
      BY <2>1, <2>5
    <3> QED
      BY <1>1, <1>2, <2>3, <3>1, <3>2, FinalsKept
  <2> QED
    BY <2>4, <2>5
<1>5. CASE ReceiveSlot
  <2> DEFINE t == hub[0].at
  <2>1. /\ t \in Tag /\ wire' = [wire EXCEPT ![0][t] = <<>>] /\ finals' = finals /\ hub' = hub
    BY <1>5 DEF ReceiveSlot
  <2> HIDE DEF t
  <2>2. FinalsOut' \subseteq FinalsOut /\ Ended' = Ended
    BY <1>1, <2>1, Ranks DEF FinalsOut, Ended, Wires, Tag
  <2> QED
    BY <1>1, <1>2, <2>1, <2>2, FinalsKept
<1>6. ASSUME NEW r \in Rank, Move(r)
      PROVE  FinalsInv' /\ finals' \in [received : 0 .. WorldSize, expired : BOOLEAN]
  <2>1. \A q \in Rank : hub'[q].running = hub[q].running
    BY <1>1, <1>6, Moving DEF SameHub
  <2>2. Ended' = Ended
    BY <2>1 DEF Ended
  <2>3. wire' = wire \/ wire' = [q \in Rank |-> [u \in Tag |-> <<>>]]
    BY <1>6 DEF Move, NotDue, Reset, Fanout, ProbeFailed, CheckFinals, Stop, Join, CloseClients
  <2>4. FinalsOut' \subseteq FinalsOut
    BY <2>3 DEF FinalsOut, Tag
  <2>5. finals' = finals \/ finals' = [finals EXCEPT !.expired = FALSE]
    BY <1>6 DEF Move, NotDue, Reset, Fanout, ProbeFailed, CheckFinals, Stop, Join, CloseClients
  <2>6. finals'.received = finals.received /\ finals' \in [received : 0 .. WorldSize, expired : BOOLEAN]
    BY <1>1, <2>5
  <2> QED
    BY <1>1, <1>2, <2>2, <2>4, <2>6, FinalsKept
<1>7. ASSUME NEW r \in Rank, try_recv_control(r) \/ Emit(r)
      PROVE  FinalsInv' /\ finals' \in [received : 0 .. WorldSize, expired : BOOLEAN]
  <2>1. finals' = finals
    BY <1>7 DEF try_recv_control, Emit
  <2>2. \A q \in Rank : /\ hub'[q].running <=> hub[q].running
                        /\ wire'[q]["final"] = wire[q]["final"]
    <3>1. CASE try_recv_control(r)
      <4>1. /\ \A q \in Rank : q # r => hub'[q] = hub[q]
            /\ hub[r].running /\ hub'[r].running /\ wire' = wire
        BY <1>1, <3>1, Listened DEF IInv, TypeOK
      <4> QED
        BY <4>1
    <3>2. CASE Emit(r)
      <4>1. /\ \A q \in Rank : q # r => hub'[q] = hub[q] /\ wire'[q] = wire[q]
            /\ hub[r].running /\ hub'[r].running /\ wire'[r]["final"] = wire[r]["final"]
        BY <1>1, <3>2, Emitted
      <4> QED
        BY <4>1
    <3> QED
      BY <1>7, <3>1, <3>2
  <2>3. Ended' = Ended /\ FinalsOut' = FinalsOut
    BY <2>2 DEF Ended, FinalsOut
  <2> QED
    BY <1>1, <1>2, <2>1, <2>3, FinalsKept
<1>8. ASSUME NEW r \in Rank, Shutdown(r)
      PROVE  FinalsInv' /\ finals' \in [received : 0 .. WorldSize, expired : BOOLEAN]
  <2>1. finals' = finals
    BY <1>8 DEF Shutdown
  <2>2. /\ \A q \in Rank : q # r => hub'[q] = hub[q] /\ wire'[q] = wire[q]
        /\ hub[r].running /\ ~hub'[r].running
    BY <1>1, <1>8, ShutDown
  <2>3. r \notin Ended /\ Ended' = Ended \cup {r} /\ FinalsOut' \subseteq FinalsOut \cup {r}
    BY <2>2 DEF Ended, FinalsOut
  <2> QED
    BY <1>1, <1>2, <2>1, <2>3, FinalSent
<1>9. ASSUME ClientSnapshot \/ \E line \in Line : ClientControl(parse_control_line(line))
      PROVE  FinalsInv' /\ finals' \in [received : 0 .. WorldSize, expired : BOOLEAN]
  <2>1. finals' = finals /\ wire' = wire
    BY <1>9 DEF ClientControl, ClientSnapshot
  <2>2. \A q \in Rank : hub'[q].running = hub[q].running
    BY <1>1, <1>9, Asked DEF IInv, TypeOK
  <2>3. Ended' = Ended /\ FinalsOut' = FinalsOut
    BY <2>1, <2>2 DEF Ended, FinalsOut
  <2> QED
    BY <1>1, <1>2, <2>1, <2>3, FinalsKept
<1>10. CASE Quiet
  <2> DEFINE Passive == /\ UNCHANGED wire
                        /\ finals' = finals \/ finals' = [finals EXCEPT !.expired = TRUE]
  <2>1. FlushFinal \/ (\E c \in Client : Accept(c) \/ Disconnect(c)) => Passive
    BY DEF FlushFinal, Accept, Disconnect
  <2>2. BroadcastThread => Passive
    BY DEF BroadcastThread, StopSeen, Push, StartLine, ReadFrame, Deliver
  <2>3. ClientSnapshotTooSoon \/ SnapshotExpires => Passive
    BY DEF ClientSnapshotTooSoon, SnapshotExpires
  <2>4. FinalWaitExpires \/ FlushExpires \/ Finished => Passive
    BY DEF FinalWaitExpires, FlushExpires, Finished, vars
  <2>5. ReceiveSlot \/ (\E r \in Rank : ReceiveFrame(r)) \/ Passive
    BY <1>10, <2>1, <2>2, <2>3, <2>4 DEF Quiet
  <2> QED
    BY <1>3, <1>4, <1>5, <1>10, <2>5, Quietly
<1> QED
  BY <1>6, <1>7, <1>8, <1>9, <1>10, Steps

-----------------------------------------------------------------------------
(* Type correctness of every step *)

\* Every step keeps the hubs well formed.
LEMMA HubNext == IInv /\ Next => hub' \in [Rank -> Hub]
<1> SUFFICES ASSUME IInv, Next PROVE hub' \in [Rank -> Hub]
  OBVIOUS
<1>1. /\ hub \in [Rank -> Hub] /\ wire \in Wires /\ RunningInv
      /\ control \in [Rank -> Seq(Control)] /\ snapshot.requested \in Nat
  BY DEF IInv, TypeOK, Wires
<1>2. CASE Quiet
  BY <1>1, <1>2, Quietly
<1>3. ASSUME NEW r \in Rank, Move(r) PROVE hub' \in [Rank -> Hub]
  BY <1>1, <1>3, Moving
<1>4. ASSUME NEW r \in Rank, try_recv_control(r) PROVE hub' \in [Rank -> Hub]
  BY <1>1, <1>4, Listened
<1>5. ASSUME NEW r \in Rank, Emit(r) PROVE hub' \in [Rank -> Hub]
  BY <1>1, <1>5, Emitted
<1>6. ASSUME NEW r \in Rank, Shutdown(r) PROVE hub' \in [Rank -> Hub]
  BY <1>1, <1>6, ShutDown
<1>7. CASE ClientSnapshot \/ \E line \in Line : ClientControl(parse_control_line(line))
  BY <1>1, <1>7, Asked
<1> QED
  BY <1>2, <1>3, <1>4, <1>5, <1>6, <1>7, Steps

\* Every step keeps the frames well formed, on their way and received.
LEMMA FramesTyped ==
    IInv /\ Next => wire' \in Wires /\ latest' \in [Rank -> Frame \cup {None}] /\ mode' = mode
<1> SUFFICES ASSUME IInv, Next
             PROVE  wire' \in Wires /\ latest' \in [Rank -> Frame \cup {None}] /\ mode' = mode
  OBVIOUS
<1>1. /\ hub \in [Rank -> Hub] /\ wire \in Wires /\ RunningInv
      /\ latest \in [Rank -> Frame \cup {None}]
  BY DEF IInv, TypeOK, Wires
<1>2. CASE UNCHANGED <<wire, latest, mode>>
  BY <1>1, <1>2
<1>3. ASSUME NEW r \in Rank, ReceiveFrame(r)
      PROVE  wire' \in Wires /\ latest' \in [Rank -> Frame \cup {None}] /\ mode' = mode
  <2> DEFINE t == hub[0].at
  <2>1. /\ t \in Tag /\ wire[r][t] # <<>> /\ wire' = [wire EXCEPT ![r][t] = Tail(@)]
        /\ latest' = [latest EXCEPT ![r] = Head(wire[r][t])] /\ mode' = mode
    BY <1>3 DEF ReceiveFrame
  <2> HIDE DEF t
  <2>2. wire' \in Wires /\ Head(wire[r][t]) \in Frame
    BY <1>1, <2>1, Taken
  <2> QED
    BY <1>1, <2>1, <2>2
<1>4. CASE ReceiveSlot
  <2> DEFINE t == hub[0].at
  <2>1. /\ t \in Tag /\ wire[0][t] # <<>> /\ wire' = [wire EXCEPT ![0][t] = <<>>]
        /\ latest' = [latest EXCEPT ![0] = wire[0][t][1]] /\ mode' = mode
    BY <1>4 DEF ReceiveSlot
  <2> HIDE DEF t
  <2>2. wire' \in Wires
    BY <2>1, Ranks, <1>1 DEF Wires
  <2>3. wire[0][t] \in Seq(Frame)
    BY <1>1, <2>1, Ranks DEF Wires
  <2>4. wire[0][t][1] \in Frame
    BY <2>1, <2>3
  <2> QED
    BY <1>1, <2>1, <2>2, <2>4
<1>5. ASSUME NEW r \in Rank, Move(r)
      PROVE  wire' \in Wires /\ latest' \in [Rank -> Frame \cup {None}] /\ mode' = mode
  <2>1. /\ wire' = wire \/ wire' = [q \in Rank |-> [u \in Tag |-> <<>>]]
        /\ latest' = latest /\ mode' = mode
    BY <1>5 DEF Move, NotDue, Reset, Fanout, ProbeFailed, CheckFinals, Stop, Join, CloseClients
  <2>2. [q \in Rank |-> [u \in Tag |-> <<>>]] \in Wires
    BY DEF Wires
  <2> QED
    BY <1>1, <2>1, <2>2
<1>6. ASSUME NEW r \in Rank, Emit(r) \/ Shutdown(r)
      PROVE  wire' \in Wires /\ latest' \in [Rank -> Frame \cup {None}] /\ mode' = mode
  <2>1. wire' \in Wires
    BY <1>1, <1>6, Emitted, ShutDown
  <2>2. latest' = latest /\ mode' = mode
    BY <1>6 DEF Emit, Shutdown
  <2> QED
    BY <1>1, <2>1, <2>2
<1>7. CASE (\E r \in Rank : try_recv_control(r)) \/ ClientSnapshot
             \/ \E line \in Line : ClientControl(parse_control_line(line))
  BY <1>2, <1>7 DEF try_recv_control, ClientControl, ClientSnapshot
<1>8. CASE Quiet
  <2>1. FlushFinal \/ (\E c \in Client : Accept(c) \/ Disconnect(c)) => UNCHANGED <<wire, latest, mode>>
    BY DEF FlushFinal, Accept, Disconnect
  <2>2. BroadcastThread => UNCHANGED <<wire, latest, mode>>
    BY DEF BroadcastThread, StopSeen, Push, StartLine, ReadFrame, Deliver
  <2>3. ClientSnapshotTooSoon \/ SnapshotExpires \/ FinalWaitExpires \/ FlushExpires \/ Finished
          => UNCHANGED <<wire, latest, mode>>
    BY DEF ClientSnapshotTooSoon, SnapshotExpires, FinalWaitExpires, FlushExpires, Finished, vars
  <2> QED
    BY <1>2, <1>3, <1>4, <1>8, <2>1, <2>2, <2>3 DEF Quiet
<1> QED
  BY <1>5, <1>6, <1>7, <1>8, Steps

\* Every step keeps the controls and the snapshot requests well formed.
LEMMA ControlTyped ==
    IInv /\ Next => /\ control' \in [Rank -> Seq(Control)] /\ fanout' \in Seq(Control)
                    /\ snapshot' \in [requested : Nat, expired : BOOLEAN]
<1> SUFFICES ASSUME IInv, Next
             PROVE  /\ control' \in [Rank -> Seq(Control)] /\ fanout' \in Seq(Control)
                    /\ snapshot' \in [requested : Nat, expired : BOOLEAN]
  OBVIOUS
<1>1. /\ control \in [Rank -> Seq(Control)] /\ fanout \in Seq(Control)
      /\ snapshot \in [requested : Nat, expired : BOOLEAN]
      /\ server.at = "push" => server.msg \in Control
  BY DEF IInv, TypeOK, ControlInv
<1>2. CASE UNCHANGED <<control, fanout, snapshot>>
  BY <1>1, <1>2
<1>3. CASE SnapshotExpires
  BY <1>1, <1>3 DEF SnapshotExpires
<1>4. CASE ClientSnapshot
  <2> DEFINE id == snapshot.requested + 1
  <2>1. id \in Nat
    BY <1>1
  <2>2. /\ snapshot' = [requested |-> id, expired |-> FALSE] /\ control' = control
        /\ fanout' = Append(fanout, [kind |-> "SNAPSHOT", value |-> id])
    BY <1>4 DEF ClientSnapshot
  <2> HIDE DEF id
  <2>3. [kind |-> "SNAPSHOT", value |-> id] \in Control
    BY <2>1 DEF Control
  <2>4. fanout' \in Seq(Control)
    BY <1>1, <2>2, <2>3
  <2> QED
    BY <1>1, <2>1, <2>2, <2>4
<1>5. CASE Push
  BY <1>1, <1>5 DEF Push
<1>6. ASSUME NEW r \in Rank, try_recv_control(r)
      PROVE  /\ control' \in [Rank -> Seq(Control)] /\ fanout' \in Seq(Control)
             /\ snapshot' \in [requested : Nat, expired : BOOLEAN]
  <2>1. /\ control[r] # <<>> /\ control' = [control EXCEPT ![r] = Tail(@)]
        /\ UNCHANGED <<fanout, snapshot>>
    BY <1>6 DEF try_recv_control
  <2>2. Tail(control[r]) \in Seq(Control)
    BY <1>1, <2>1
  <2> QED
    BY <1>1, <2>1, <2>2
<1>7. CASE Fanout
  <2>1. /\ control' = [r \in Rank |-> Sent(r)] /\ fanout' = <<>> /\ snapshot' = snapshot
    BY <1>7 DEF Fanout
  <2>2. \A r \in Rank : Sent(r) \in Seq(Control)
    BY <1>1 DEF Sent
  <2> QED
    BY <1>1, <2>1, <2>2
<1>8. ASSUME NEW r \in Rank, Reset(r)
      PROVE  /\ control' \in [Rank -> Seq(Control)] /\ fanout' \in Seq(Control)
             /\ snapshot' \in [requested : Nat, expired : BOOLEAN]
  BY <1>1, <1>8 DEF Reset
<1>9. ASSUME NEW r \in Rank, NotDue(r) \/ Emit(r) \/ Shutdown(r)
      PROVE  UNCHANGED <<control, fanout, snapshot>>
  BY <1>9 DEF NotDue, Emit, Shutdown
<1>10. ProbeFailed \/ CheckFinals \/ Stop \/ Join \/ CloseClients => UNCHANGED <<control, fanout, snapshot>>
  BY DEF ProbeFailed, CheckFinals, Stop, Join, CloseClients
<1>11. ReceiveSlot \/ (\E r \in Rank : ReceiveFrame(r)) => UNCHANGED <<control, fanout, snapshot>>
  BY DEF ReceiveSlot, ReceiveFrame
<1>12. FlushFinal \/ (\E c \in Client : Accept(c) \/ Disconnect(c)) => UNCHANGED <<control, fanout, snapshot>>
  BY DEF FlushFinal, Accept, Disconnect
<1>13. StopSeen \/ StartLine \/ ReadFrame \/ Deliver => UNCHANGED <<control, fanout, snapshot>>
  BY DEF StopSeen, StartLine, ReadFrame, Deliver
<1>14. ClientSnapshotTooSoon \/ FinalWaitExpires \/ FlushExpires \/ Finished
          => UNCHANGED <<control, fanout, snapshot>>
  BY DEF ClientSnapshotTooSoon, FinalWaitExpires, FlushExpires, Finished, vars
<1>15. (\E line \in Line : ClientControl(parse_control_line(line))) => UNCHANGED <<control, fanout, snapshot>>
  BY DEF ClientControl
<1>16. CASE Quiet
  BY <1>2, <1>3, <1>5, <1>11, <1>12, <1>13, <1>14, <1>16 DEF Quiet, BroadcastThread
<1>17. ASSUME NEW r \in Rank, Move(r)
       PROVE  /\ control' \in [Rank -> Seq(Control)] /\ fanout' \in Seq(Control)
              /\ snapshot' \in [requested : Nat, expired : BOOLEAN]
  BY <1>2, <1>7, <1>8, <1>9, <1>10, <1>17 DEF Move
<1> QED
  BY <1>2, <1>4, <1>6, <1>9, <1>15, <1>16, <1>17, Steps

\* Every step keeps the state of the TCP server well formed.
LEMMA ServerTyped == IInv /\ Next => server' \in Server /\ commands' \in Nat /\ lines' \in Nat
<1> SUFFICES ASSUME IInv, Next PROVE server' \in Server /\ commands' \in Nat /\ lines' \in Nat
  OBVIOUS
<1>1. /\ server \in Server /\ commands \in Nat /\ lines \in Nat
      /\ latest \in [Rank -> Frame \cup {None}]
      /\ server.at = "build" => server.line \in BroadcastLine
      /\ snapshot \in [requested : Nat, expired : BOOLEAN]
  BY DEF IInv, TypeOK, LineInv
<1>2. CASE UNCHANGED <<server, commands, lines>>
  BY <1>1, <1>2
<1>3. CASE StopSeen
  BY <1>1, <1>3 DEF StopSeen, Server
<1>4. CASE Push
  BY <1>1, <1>4 DEF Push, Server
<1>5. CASE StartLine
  <2> DEFINE with_frames == snapshot_ready \/ ~hub[0].paused
             line == [no |-> lines + 1, frames |-> [r \in Rank |-> None],
                      snapshot |-> IF snapshot_ready /\ ~snapshot.expired
                                   THEN snapshot.requested ELSE 0]
             at == IF with_frames THEN "build" ELSE "flush"
             broadcast == IF snapshot_ready THEN snapshot.requested ELSE server.broadcast
             left == IF with_frames THEN Live ELSE {}
  <2>1. /\ server' = [server EXCEPT !.at = at, !.broadcast = broadcast, !.line = line, !.left = left]
        /\ lines' = lines + 1 /\ commands' = commands
    BY <1>5 DEF StartLine
  <2>2. line \in BroadcastLine
    BY <1>1 DEF BroadcastLine
  <2>3. /\ at \in {"build", "flush"} /\ left \in SUBSET Rank /\ broadcast \in Nat
    BY <1>1, Ranks DEF Server
  <2> HIDE DEF line, at, broadcast, left
  <2>4. server' \in Server
    BY <1>1, <2>1, <2>2, <2>3 DEF Server
  <2> QED
    BY <1>1, <2>1, <2>4
<1>6. CASE ReadFrame
  <2>1. PICK r \in server.left :
          server' = [server EXCEPT !.line.frames[r] = latest[r], !.left = @ \ {r},
                                   !.at = IF server.left = {r} THEN "flush" ELSE "build"]
    BY <1>6 DEF ReadFrame
  <2>2. /\ server.at = "build" /\ UNCHANGED <<commands, lines>>
    BY <1>6 DEF ReadFrame
  <2>3. server.line \in BroadcastLine /\ r \in Rank
    BY <1>1, <2>2 DEF Server
  <2> DEFINE line == [server.line EXCEPT !.frames[r] = latest[r]]
  <2>4. line \in BroadcastLine
    BY <1>1, <2>3 DEF BroadcastLine
  <2>5. server' = [server EXCEPT !.line = line, !.left = @ \ {r},
                                 !.at = IF server.left = {r} THEN "flush" ELSE "build"]
    BY <2>1
  <2> HIDE DEF line
  <2>6. server' \in Server
    BY <1>1, <2>4, <2>5 DEF Server
  <2> QED
    BY <1>1, <2>2, <2>6
<1>7. CASE Deliver
  BY <1>1, <1>7 DEF Deliver, Server
<1>8. CASE Stop
  BY <1>1, <1>8 DEF Stop, Server
<1>9. ASSUME NEW line \in Line, ClientControl(parse_control_line(line))
      PROVE  server' \in Server /\ commands' \in Nat /\ lines' \in Nat
  <2> DEFINE m == parse_control_line(line)
  <2>1. /\ m.kind # "UNSPECIFIED" /\ commands' = commands + 1 /\ lines' = lines
        /\ server' = [server EXCEPT !.at = "push", !.msg = m]
    BY <1>9 DEF ClientControl
  <2>2. m \in Control
    BY <2>1, Commanded
  <2> HIDE DEF m
  <2>3. server' \in Server
    BY <1>1, <2>1, <2>2 DEF Server
  <2> QED
    BY <1>1, <2>1, <2>3
<1>10. CASE Join
  BY <1>1, <1>10 DEF Join
<1>11. CASE ClientSnapshot \/ ClientSnapshotTooSoon
  BY <1>1, <1>11 DEF ClientSnapshot, ClientSnapshotTooSoon
<1>12. ASSUME NEW r \in Rank, NotDue(r) \/ Emit(r) \/ Shutdown(r) \/ try_recv_control(r) \/ Reset(r)
       PROVE  UNCHANGED <<server, commands, lines>>
  BY <1>12 DEF NotDue, Emit, Shutdown, try_recv_control, Reset
<1>13. Fanout \/ ProbeFailed \/ CheckFinals \/ CloseClients => UNCHANGED <<server, commands, lines>>
  BY DEF Fanout, ProbeFailed, CheckFinals, CloseClients
<1>14. ReceiveSlot \/ (\E r \in Rank : ReceiveFrame(r)) => UNCHANGED <<server, commands, lines>>
  BY DEF ReceiveSlot, ReceiveFrame
<1>15. FlushFinal \/ (\E c \in Client : Accept(c) \/ Disconnect(c)) => UNCHANGED <<server, commands, lines>>
  BY DEF FlushFinal, Accept, Disconnect
<1>16. SnapshotExpires \/ FinalWaitExpires \/ FlushExpires \/ Finished => UNCHANGED <<server, commands, lines>>
  BY DEF SnapshotExpires, FinalWaitExpires, FlushExpires, Finished, vars
<1>17. CASE Quiet
  BY <1>2, <1>3, <1>4, <1>5, <1>6, <1>7, <1>11, <1>14, <1>15, <1>16, <1>17 DEF Quiet, BroadcastThread
<1>18. ASSUME NEW r \in Rank, Move(r)
       PROVE  server' \in Server /\ commands' \in Nat /\ lines' \in Nat
  BY <1>2, <1>8, <1>10, <1>12, <1>13, <1>18 DEF Move
<1> QED
  BY <1>2, <1>9, <1>11, <1>12, <1>17, <1>18, Steps

\* Every step keeps the clients well formed.
LEMMA ClientTyped ==
    IInv /\ Next => DOMAIN client' = Client /\ \A c \in Client : IsClient(client'[c])
<1> SUFFICES ASSUME IInv, Next
             PROVE  DOMAIN client' = Client /\ \A c \in Client : IsClient(client'[c])
  OBVIOUS
<1>1. DOMAIN client = Client /\ \A c \in Client : IsClient(client[c])
  BY DEF IInv, TypeOK, IsClient
<1> DEFINE Kept == DOMAIN client' = Client /\ \A c \in Client : IsClient(client'[c])
<1>2. CASE UNCHANGED client
  BY <1>1, <1>2
<1>3. ASSUME NEW c \in Client, Accept(c) \/ Disconnect(c) PROVE Kept
  <2>1. \E cs : client' = [client EXCEPT ![c] = cs] /\ IsClient(cs)
    BY <1>1, <1>3, ClientKept DEF Accept, Disconnect
  <2> QED
    BY <1>1, <2>1
<1>4. CASE Deliver
  <2> DEFINE Queued(c) == IF server.at = "flush" THEN push(client[c], server.line.no) ELSE client[c]
  <2>1. PICK after \in [Open -> UNION {Flushed(Queued(c)) : c \in Open}] :
          /\ \A c \in Open : after[c] \in Flushed(Queued(c))
          /\ client' = [c \in Client |-> IF c \in Open THEN after[c] ELSE client[c]]
    BY <1>4 DEF Deliver
  <2>2. \A c \in Client : IsClient(Queued(c))
    BY <1>1, ClientKept
  <2> HIDE DEF Queued
  <2>3. \A c \in Open : IsClient(after[c])
    BY <2>1, <2>2, ClientKept DEF Open
  <2> QED
    BY <1>1, <2>1, <2>3
<1>5. CASE FlushFinal
  <2>1. PICK after \in [Open -> UNION {Flushed(client[c]) : c \in Open}] :
          /\ \A c \in Open : after[c] \in Flushed(client[c])
          /\ client' = [c \in Client |-> IF c \in Open THEN after[c] ELSE client[c]]
    BY <1>5 DEF FlushFinal
  <2>2. \A c \in Open : IsClient(after[c])
    BY <1>1, <2>1, ClientKept DEF Open
  <2> QED
    BY <1>1, <2>1, <2>2
<1>6. CASE Join
  BY <1>1, <1>6, ClientKept DEF Join
<1>7. CASE CloseClients
  BY <1>1, <1>7, ClientKept DEF CloseClients
<1>8. ASSUME NEW r \in Rank, NotDue(r) \/ Emit(r) \/ Shutdown(r) \/ try_recv_control(r) \/ Reset(r)
      PROVE  UNCHANGED client
  BY <1>8 DEF NotDue, Emit, Shutdown, try_recv_control, Reset
<1>9. Fanout \/ ProbeFailed \/ CheckFinals \/ Stop => UNCHANGED client
  BY DEF Fanout, ProbeFailed, CheckFinals, Stop
<1>10. ReceiveSlot \/ (\E r \in Rank : ReceiveFrame(r)) => UNCHANGED client
  BY DEF ReceiveSlot, ReceiveFrame
<1>11. StopSeen \/ Push \/ StartLine \/ ReadFrame => UNCHANGED client
  BY DEF StopSeen, Push, StartLine, ReadFrame
<1>12. ClientSnapshotTooSoon \/ SnapshotExpires \/ FinalWaitExpires \/ FlushExpires \/ Finished => UNCHANGED client
  BY DEF ClientSnapshotTooSoon, SnapshotExpires, FinalWaitExpires, FlushExpires, Finished, vars
<1>13. ClientSnapshot \/ (\E line \in Line : ClientControl(parse_control_line(line))) => UNCHANGED client
  BY DEF ClientSnapshot, ClientControl
<1>14. CASE Quiet
  BY <1>2, <1>3, <1>4, <1>5, <1>10, <1>11, <1>12, <1>14 DEF Quiet, BroadcastThread
<1>15. ASSUME NEW r \in Rank, Move(r) PROVE Kept
  BY <1>2, <1>6, <1>7, <1>8, <1>9, <1>15 DEF Move
<1> QED
  BY <1>2, <1>8, <1>13, <1>14, <1>15, Steps

\* Every step keeps the state well formed.
LEMMA TypeNext == IInv /\ Next => TypeOK'
<1> SUFFICES ASSUME IInv, Next PROVE TypeOK'
  OBVIOUS
<1>1. hub' \in [Rank -> Hub]
  BY HubNext
<1>2. /\ wire' \in Wires /\ latest' \in [Rank -> Frame \cup {None}] /\ mode' \in Modes
  BY FramesTyped DEF IInv, TypeOK
<1>3. /\ control' \in [Rank -> Seq(Control)] /\ fanout' \in Seq(Control)
      /\ snapshot' \in [requested : Nat, expired : BOOLEAN]
  BY ControlTyped
<1>4. server' \in Server /\ commands' \in Nat /\ lines' \in Nat
  BY ServerTyped
<1>5. DOMAIN client' = Client /\ \A c \in Client : IsClient(client'[c])
  BY ClientTyped
<1>6. finals' \in [received : 0 .. WorldSize, expired : BOOLEAN]
  BY FinalsNext
<1> QED
  BY <1>1, <1>2, <1>3, <1>4, <1>5, <1>6 DEF TypeOK, IsClient, Wires

-----------------------------------------------------------------------------
(* Places and frames *)

\* Every step keeps a rank running until it enters shutdown.
LEMMA RunningNext == IInv /\ Next => RunningInv'
<1> SUFFICES ASSUME IInv, Next PROVE RunningInv'
  OBVIOUS
<1>1. /\ hub \in [Rank -> Hub] /\ wire \in Wires /\ RunningInv
      /\ control \in [Rank -> Seq(Control)] /\ snapshot.requested \in Nat
      /\ Live' = Live
  BY FramesTyped DEF IInv, TypeOK, Wires, Live
<1> DEFINE Runs(h, q) ==
      /\ h.at \in {"loop", "tick", "fanout"} => h.running
      /\ h.running => q \in Live /\ h.at \in {"loop", "tick", "fanout"} \cup Tag
<1>2. \A q \in Rank : Runs(hub[q], q)
  BY <1>1 DEF RunningInv
<1>3. SUFFICES \A q \in Rank : Runs(hub'[q], q)
  BY <1>1, <1>3 DEF RunningInv
<1>4. CASE Quiet
  BY <1>2, <1>4, Quietly
<1>5. ASSUME NEW r \in Rank, Move(r) PROVE \A q \in Rank : Runs(hub'[q], q)
  <2>1. /\ \A q \in Rank : q # r => hub'[q] = hub[q]
        /\ hub'[r].running = hub[r].running
        /\ hub'[r].at \in {"loop", "tick", "fanout"} => hub[r].running
        /\ hub[r].running => r \in Live /\ hub'[r].at \in {"loop", "tick", "fanout"} \cup Tag
    BY <1>1, <1>5, Moving DEF SameHub
  <2> QED
    BY <1>2, <2>1
<1>6. ASSUME NEW r \in Rank, try_recv_control(r) PROVE \A q \in Rank : Runs(hub'[q], q)
  <2>1. /\ \A q \in Rank : q # r => hub'[q] = hub[q]
        /\ hub[r].running /\ hub'[r].running /\ hub'[r].at = "tick"
    BY <1>1, <1>6, Listened
  <2> QED
    BY <1>2, <2>1
<1>7. ASSUME NEW r \in Rank, Emit(r) PROVE \A q \in Rank : Runs(hub'[q], q)
  <2>1. /\ \A q \in Rank : q # r => hub'[q] = hub[q]
        /\ hub[r].running /\ hub'[r].running /\ hub'[r].at \in {"loop", "fanout"}
    BY <1>1, <1>7, Emitted DEF AfterEmit
  <2> QED
    BY <1>2, <2>1
<1>8. ASSUME NEW r \in Rank, Shutdown(r) PROVE \A q \in Rank : Runs(hub'[q], q)
  <2>1. /\ \A q \in Rank : q # r => hub'[q] = hub[q]
        /\ ~hub'[r].running /\ hub'[r].at \notin {"loop", "tick", "fanout"}
    BY <1>1, <1>8, ShutDown
  <2> QED
    BY <1>2, <2>1
<1>9. CASE ClientSnapshot \/ \E line \in Line : ClientControl(parse_control_line(line))
  <2>1. \A q \in Rank : hub'[q].running = hub[q].running /\ hub'[q].at = hub[q].at
    BY <1>1, <1>9, Asked
  <2> QED
    BY <1>2, <2>1
<1> QED
  BY <1>4, <1>5, <1>6, <1>7, <1>8, <1>9, Steps

\* What a hub does that changes neither its number, its answer nor whether it runs.
LEMMA OrderedKept ==
    ASSUME NEW regular, NEW final, NEW last, NEW h, NEW g, FramesOrdered(regular, final, last, h),
           g.seq = h.seq, g.answered = h.answered, g.running <=> h.running
    PROVE  FramesOrdered(regular, final, last, g)
  BY DEF FramesOrdered, Older

\* The first regular frame becomes the latest one: no older than the one before, unless that was
\* the final frame of the rank.
LEMMA RegularTaken ==
    ASSUME NEW regular \in Seq(Frame), NEW final, NEW last, NEW h,
           FramesOrdered(regular, final, last, h), regular # <<>>
    PROVE  /\ FramesOrdered(Tail(regular), final, Head(regular), h)
           /\ last # None => NotNewer(last, Head(regular)) \/ last.final
<1>1. /\ Head(regular) = regular[1] /\ Head(regular) \in Frame /\ 1 \in DOMAIN regular
      /\ \A i \in DOMAIN Tail(regular) : /\ i + 1 \in DOMAIN regular /\ i \in Nat
                                         /\ Tail(regular)[i] = regular[i + 1]
  BY HeadTailProperties
<1>2. \A i, j \in DOMAIN Tail(regular) : i <= j => NotNewer(Tail(regular)[i], Tail(regular)[j])
  BY <1>1 DEF FramesOrdered
<1>3. \A i \in DOMAIN Tail(regular) : /\ Older(Tail(regular)[i], h) /\ (Tail(regular)[i].final => ~h.running)
                                      /\ NotNewer(Head(regular), Tail(regular)[i])
  BY <1>1 DEF FramesOrdered
<1>4. Older(Head(regular), h) /\ (Head(regular).final => ~h.running)
  BY <1>1 DEF FramesOrdered
<1>5. last # None => NotNewer(last, Head(regular)) \/ last.final
  BY <1>1 DEF FramesOrdered
<1> QED
  BY <1>2, <1>3, <1>4, <1>5 DEF FramesOrdered

\* The final frame becomes the latest one, whatever regular frames are still on their way.
LEMMA FinalReceived ==
    ASSUME NEW regular, NEW final \in Seq(Frame), NEW last, NEW h \in Hub,
           FramesOrdered(regular, final, last, h), final # <<>>
    PROVE  /\ FramesOrdered(regular, <<>>, Head(final), h) /\ Tail(final) = <<>>
           /\ last # None => NotNewer(last, Head(final))
<1>1. Head(final) = final[1] /\ 1 \in DOMAIN final /\ Head(final) \in Frame
  OBVIOUS
<1>2. Head(final).seq = h.seq /\ Head(final).id = h.answered /\ Head(final).final /\ ~h.running
  BY <1>1 DEF FramesOrdered
<1>3. Older(Head(final), h)
  BY <1>2 DEF Older, Hub
<1>4. Tail(final) = <<>>
  BY OnlyOne DEF FramesOrdered
<1>5. last # None => NotNewer(last, Head(final))
  BY <1>2 DEF FramesOrdered, Older, NotNewer
<1> QED
  BY <1>2, <1>3, <1>4, <1>5 DEF FramesOrdered

\* A rank without frames has them in order.
LEMMA NothingOnItsWay ==
    ASSUME NEW regular, NEW final, NEW last, NEW h, FramesOrdered(regular, final, last, h)
    PROVE  FramesOrdered(<<>>, <<>>, last, h)
  BY DEF FramesOrdered

\* A frame that its rank takes now: it is newer than all others.
LEMMA OrderedGrows ==
    ASSUME NEW regular \in Seq(Frame), NEW final, NEW last \in Frame \cup {None}, NEW h \in Hub, NEW g \in Hub,
           NEW f \in Frame, FramesOrdered(regular, final, last, h), h.running,
           g.seq = h.seq + 1, g.answered >= h.answered, f.seq = g.seq, f.id = g.answered,
           f.final => ~g.running
    PROVE  /\ FramesOrdered(Append(regular, f), final, last, g)
           /\ FramesOrdered(<<f>>, final, last, g)
           /\ f.final => FramesOrdered(regular, Append(final, f), last, g)
<1>1. final = <<>>
  BY DEF FramesOrdered
<1>2. \A e \in Frame : Older(e, h) => Older(e, g) /\ NotNewer(e, f)
  BY DEF Older, NotNewer, Hub, Frame
<1>3. Older(f, g) /\ NotNewer(f, f)
  BY DEF Older, NotNewer, Frame
<1>4. \A i \in DOMAIN regular : regular[i] \in Frame
  OBVIOUS
<1>5. \A i \in DOMAIN regular : /\ Older(regular[i], g) /\ NotNewer(regular[i], f) /\ ~regular[i].final
  BY <1>2, <1>4 DEF FramesOrdered
<1>6. last # None => /\ Older(last, g) /\ NotNewer(last, f) /\ ~last.final
                     /\ \A i \in DOMAIN regular : NotNewer(last, regular[i])
  BY <1>2 DEF FramesOrdered
<1>7. FramesOrdered(<<f>>, final, last, g)
  <2>1. DOMAIN <<f>> = {1} /\ <<f>>[1] = f
    OBVIOUS
  <2> QED
    BY <1>1, <1>3, <1>6, <2>1 DEF FramesOrdered
<1>8. FramesOrdered(Append(regular, f), final, last, g)
  <2> DEFINE s == Append(regular, f)
             n == Len(regular) + 1
  <2>1. /\ n \in Nat /\ DOMAIN s = 1 .. n /\ DOMAIN regular = 1 .. n - 1
        /\ s[n] = f /\ \A i \in 1 .. n - 1 : s[i] = regular[i]
    BY AppendProperties, LenProperties
  <2> HIDE DEF s, n
  <2>2. \A i \in DOMAIN s : i # n => i \in DOMAIN regular /\ s[i] = regular[i]
    BY <2>1
  <2>3. \A i \in DOMAIN s : /\ Older(s[i], g) /\ (s[i].final => ~g.running)
                            /\ NotNewer(s[i], f) /\ (last # None => NotNewer(last, s[i]))
    BY <1>3, <1>5, <1>6, <2>1, <2>2
  <2>4. \A i, j \in DOMAIN s : i <= j => NotNewer(s[i], s[j])
    <3> SUFFICES ASSUME NEW i \in DOMAIN s, NEW j \in DOMAIN s, i <= j PROVE NotNewer(s[i], s[j])
      OBVIOUS
    <3>1. CASE j = n
      BY <2>1, <2>3, <3>1
    <3>2. CASE j # n
      <4>1. i # n
        BY <2>1, <3>2
      <4> QED
        BY <2>2, <3>2, <4>1 DEF FramesOrdered
    <3> QED
      BY <3>1, <3>2
  <2>5. FramesOrdered(s, final, last, g)
    BY <1>1, <1>6, <2>3, <2>4 DEF FramesOrdered
  <2> QED
    BY <2>5 DEF s
<1>9. f.final => FramesOrdered(regular, Append(final, f), last, g)
  <2>1. Append(final, f) = <<f>> /\ DOMAIN <<f>> = {1} /\ <<f>>[1] = f /\ Len(<<f>>) = 1
    BY <1>1
  <2>2. \A i, j \in DOMAIN regular : i <= j => NotNewer(regular[i], regular[j])
    BY DEF FramesOrdered
  <2> QED
    BY <1>5, <1>6, <2>1, <2>2 DEF FramesOrdered
<1> QED
  BY <1>7, <1>8, <1>9

\* Every step keeps the frames of every rank in order.
LEMMA FrameNext == IInv /\ Next => FrameInv'
<1> SUFFICES ASSUME IInv, Next PROVE FrameInv'
  OBVIOUS
<1>1. /\ hub \in [Rank -> Hub] /\ wire \in Wires /\ RunningInv
      /\ control \in [Rank -> Seq(Control)] /\ snapshot.requested \in Nat
      /\ latest \in [Rank -> Frame \cup {None}]
      /\ "regular" \in Tag /\ "final" \in Tag /\ "regular" # "final"
  BY DEF IInv, TypeOK, Wires, Tag
<1>2. \A r \in Rank : /\ wire[r]["regular"] \in Seq(Frame) /\ wire[r]["final"] \in Seq(Frame)
                      /\ hub[r] \in Hub /\ latest[r] \in Frame \cup {None}
  BY <1>1 DEF Wires
<1>3. \A r \in Rank : FramesOrdered(wire[r]["regular"], wire[r]["final"], latest[r], hub[r])
  BY DEF IInv, FrameInv
<1> DEFINE Right(q) == FramesOrdered(wire'[q]["regular"], wire'[q]["final"], latest'[q], hub'[q])
<1>4. SUFFICES \A q \in Rank : Right(q)
  BY <1>4 DEF FrameInv
<1>5. ASSUME NEW q \in Rank, wire'[q] = wire[q], latest'[q] = latest[q],
             hub'[q].seq = hub[q].seq, hub'[q].answered = hub[q].answered,
             hub'[q].running <=> hub[q].running
      PROVE  Right(q)
  <2>1. FramesOrdered(wire[q]["regular"], wire[q]["final"], latest[q], hub'[q])
    BY <1>3, <1>5, OrderedKept
  <2> QED
    BY <1>5, <2>1
<1>6. ASSUME NEW q \in Rank, hub'[q] = hub[q], wire'[q] = wire[q], latest'[q] = latest[q]
      PROVE  Right(q)
  BY <1>3, <1>6
<1>7. ASSUME NEW r \in Rank, ReceiveFrame(r) PROVE \A q \in Rank : Right(q)
  <2> DEFINE t == hub[0].at
  <2>1. /\ t \in Tag /\ wire[r][t] # <<>> /\ wire' = [wire EXCEPT ![r][t] = Tail(@)]
        /\ latest' = [latest EXCEPT ![r] = Head(wire[r][t])] /\ hub' = hub
    BY <1>7 DEF ReceiveFrame
  <2> HIDE DEF t
  <2>2. /\ \A q \in Rank : q # r => wire'[q] = wire[q] /\ latest'[q] = latest[q]
        /\ wire'[r][t] = Tail(wire[r][t]) /\ latest'[r] = Head(wire[r][t])
        /\ \A u \in Tag : u # t => wire'[r][u] = wire[r][u]
    BY <1>1, <2>1, Taken
  <2>3. Right(r)
    <3>1. CASE t = "regular"
      <4>1. FramesOrdered(Tail(wire[r]["regular"]), wire[r]["final"], Head(wire[r]["regular"]), hub[r])
        BY <1>2, <1>3, <2>1, <3>1, RegularTaken
      <4> QED
        BY <1>1, <2>1, <2>2, <3>1, <4>1
    <3>2. CASE t = "final"
      <4>1. /\ FramesOrdered(wire[r]["regular"], <<>>, Head(wire[r]["final"]), hub[r])
            /\ Tail(wire[r]["final"]) = <<>>
        BY <1>2, <1>3, <2>1, <3>2, FinalReceived
      <4> QED
        BY <1>1, <2>1, <2>2, <3>2, <4>1
    <3> QED
      BY <2>1, <3>1, <3>2 DEF Tag
  <2> QED
    BY <1>6, <2>1, <2>2, <2>3
<1>8. CASE ReceiveSlot
  <2> DEFINE t == hub[0].at
  <2>1. /\ t \in Tag /\ wire[0][t] # <<>> /\ wire' = [wire EXCEPT ![0][t] = <<>>]
        /\ latest' = [latest EXCEPT ![0] = wire[0][t][1]] /\ hub' = hub
    BY <1>8 DEF ReceiveSlot
  <2> HIDE DEF t
  <2>2. /\ \A q \in Rank : q # 0 => wire'[q] = wire[q] /\ latest'[q] = latest[q]
        /\ wire'[0][t] = <<>> /\ latest'[0] = Head(wire[0][t])
        /\ \A u \in Tag : u # t => wire'[0][u] = wire[0][u]
    BY <1>1, <2>1, Ranks DEF Wires
  <2>3. Right(0)
    <3>1. CASE t = "regular"
      <4>1. FramesOrdered(Tail(wire[0]["regular"]), wire[0]["final"], Head(wire[0]["regular"]), hub[0])
        BY <1>2, <1>3, <2>1, <3>1, Ranks, RegularTaken
      <4>2. FramesOrdered(<<>>, wire[0]["final"], Head(wire[0]["regular"]), hub[0])
        BY <4>1 DEF FramesOrdered
      <4> QED
        BY <1>1, <2>1, <2>2, <3>1, <4>2
    <3>2. CASE t = "final"
      <4>1. FramesOrdered(wire[0]["regular"], <<>>, Head(wire[0]["final"]), hub[0])
        BY <1>2, <1>3, <2>1, <3>2, Ranks, FinalReceived
      <4> QED
        BY <1>1, <2>1, <2>2, <3>2, <4>1
    <3> QED
      BY <2>1, <3>1, <3>2 DEF Tag
  <2> QED
    BY <1>6, <2>1, <2>2, <2>3
<1>9. ASSUME NEW r \in Rank, Move(r) PROVE \A q \in Rank : Right(q)
  <2>1. \A q \in Rank : /\ hub'[q].seq = hub[q].seq /\ hub'[q].answered = hub[q].answered
                        /\ hub'[q].running <=> hub[q].running
    BY <1>1, <1>9, Moving DEF SameHub
  <2>2. /\ wire' = wire \/ wire' = [q \in Rank |-> [u \in Tag |-> <<>>]]
        /\ latest' = latest
    BY <1>9 DEF Move, NotDue, Reset, Fanout, ProbeFailed, CheckFinals, Stop, Join, CloseClients
  <2>3. CASE wire' = wire
    BY <1>5, <2>1, <2>2, <2>3
  <2>4. CASE wire' = [q \in Rank |-> [u \in Tag |-> <<>>]]
    <3> SUFFICES ASSUME NEW q \in Rank PROVE Right(q)
      OBVIOUS
    <3>1. wire'[q]["regular"] = <<>> /\ wire'[q]["final"] = <<>> /\ latest'[q] = latest[q]
      BY <1>1, <2>2, <2>4
    <3>2. FramesOrdered(<<>>, <<>>, latest[q], hub[q])
      BY <1>3, NothingOnItsWay
    <3>3. FramesOrdered(<<>>, <<>>, latest[q], hub'[q])
      BY <2>1, <3>2, OrderedKept
    <3> QED
      BY <3>1, <3>3
  <2> QED
    BY <2>2, <2>3, <2>4
<1>10. ASSUME NEW r \in Rank, try_recv_control(r) PROVE \A q \in Rank : Right(q)
  <2>1. /\ \A q \in Rank : q # r => hub'[q] = hub[q]
        /\ hub[r].running /\ hub'[r].running /\ wire' = wire /\ latest' = latest
        /\ hub'[r].seq = hub[r].seq /\ hub'[r].answered = hub[r].answered
    BY <1>1, <1>10, Listened
  <2> QED
    BY <1>5, <1>6, <2>1
<1>11. ASSUME NEW r \in Rank, Emit(r) PROVE \A q \in Rank : Right(q)
  <2> DEFINE f == snapshot_worker_frame(hub'[r], FALSE)
  <2>1. /\ hub' \in [Rank -> Hub] /\ hub[r].running /\ hub'[r].seq = hub[r].seq + 1
        /\ hub'[r].answered = IF hub[r].due # 0 THEN hub[r].due ELSE hub[r].answered
        /\ \A q \in Rank : q # r => wire'[q] = wire[q] /\ hub'[q] = hub[q]
        /\ f \in Frame /\ latest' = latest
        /\ wire'[r]["regular"] = IF mode = "MT_ONLY" THEN <<f>> ELSE Append(wire[r]["regular"], f)
        /\ wire'[r]["final"] = wire[r]["final"]
    BY <1>1, <1>11, Emitted
  <2>2. hub'[r].answered >= hub[r].answered
    BY <1>2, <2>1 DEF IInv, ControlInv, Hub
  <2>3. f.seq = hub'[r].seq /\ f.id = hub'[r].answered /\ ~f.final
    BY DEF snapshot_worker_frame
  <2>4. hub'[r] \in Hub
    BY <2>1
  <2> HIDE DEF f
  <2>5. /\ wire[r]["regular"] \in Seq(Frame) /\ latest[r] \in Frame \cup {None}
        /\ hub[r] \in Hub /\ hub'[r] \in Hub /\ f \in Frame
        /\ FramesOrdered(wire[r]["regular"], wire[r]["final"], latest[r], hub[r])
        /\ hub[r].running /\ hub'[r].seq = hub[r].seq + 1 /\ (f.final => ~hub'[r].running)
    BY <1>2, <1>3, <2>1, <2>3, <2>4
  <2>6. /\ FramesOrdered(Append(wire[r]["regular"], f), wire[r]["final"], latest[r], hub'[r])
        /\ FramesOrdered(<<f>>, wire[r]["final"], latest[r], hub'[r])
    BY <2>2, <2>3, <2>5, OrderedGrows
  <2>7. Right(r)
    BY <2>1, <2>6
  <2> QED
    BY <1>6, <2>1, <2>7
<1>12. ASSUME NEW r \in Rank, Shutdown(r) PROVE \A q \in Rank : Right(q)
  <2> DEFINE f == snapshot_worker_frame(hub'[r], TRUE)
  <2>1. /\ hub' \in [Rank -> Hub] /\ hub[r].running /\ ~hub'[r].running /\ hub'[r].seq = hub[r].seq + 1
        /\ hub'[r].answered = hub[r].answered
        /\ \A q \in Rank : q # r => wire'[q] = wire[q] /\ hub'[q] = hub[q]
        /\ f \in Frame /\ latest' = latest
        /\ mode = "MT_ONLY" => /\ wire'[r]["regular"] = <<f>>
                               /\ wire'[r]["final"] = wire[r]["final"]
        /\ mode # "MT_ONLY" => /\ wire'[r]["regular"] = wire[r]["regular"]
                               /\ wire'[r]["final"] = Append(wire[r]["final"], f)
    BY <1>1, <1>12, ShutDown
  <2>2. hub'[r].answered >= hub[r].answered
    BY <1>2, <2>1 DEF Hub
  <2>3. f.seq = hub'[r].seq /\ f.id = hub'[r].answered
    BY DEF snapshot_worker_frame
  <2>4. f.final
    BY DEF snapshot_worker_frame
  <2>5. hub'[r] \in Hub
    BY <2>1
  <2> HIDE DEF f
  <2>6. /\ wire[r]["regular"] \in Seq(Frame) /\ latest[r] \in Frame \cup {None}
        /\ hub[r] \in Hub /\ hub'[r] \in Hub /\ f \in Frame
        /\ FramesOrdered(wire[r]["regular"], wire[r]["final"], latest[r], hub[r])
        /\ hub[r].running /\ hub'[r].seq = hub[r].seq + 1 /\ (f.final => ~hub'[r].running)
    BY <1>2, <1>3, <2>1, <2>3, <2>5
  <2>7. /\ FramesOrdered(<<f>>, wire[r]["final"], latest[r], hub'[r])
        /\ f.final => FramesOrdered(wire[r]["regular"], Append(wire[r]["final"], f), latest[r], hub'[r])
    <3> DEFINE regular == wire[r]["regular"]
               final == wire[r]["final"]
               last == latest[r]
               h == hub[r]
               g == hub'[r]
    <3>1. /\ regular \in Seq(Frame) /\ last \in Frame \cup {None} /\ h \in Hub /\ g \in Hub
          /\ f \in Frame /\ FramesOrdered(regular, final, last, h) /\ h.running
          /\ g.seq = h.seq + 1 /\ g.answered >= h.answered /\ f.seq = g.seq /\ f.id = g.answered
          /\ f.final => ~g.running
      BY <2>2, <2>3, <2>6
    <3> HIDE DEF regular, final, last, h, g
    <3>2. /\ FramesOrdered(<<f>>, final, last, g)
          /\ f.final => FramesOrdered(regular, Append(final, f), last, g)
      BY <3>1, OrderedGrows
    <3> QED
      BY <3>2 DEF regular, final, last, g
  <2>8. Right(r)
    BY <2>1, <2>4, <2>7
  <2> QED
    BY <1>6, <2>1, <2>8
<1>13. CASE ClientSnapshot \/ \E line \in Line : ClientControl(parse_control_line(line))
  <2>1. /\ \A q \in Rank : /\ hub'[q].running = hub[q].running
                           /\ hub'[q].seq = hub[q].seq /\ hub'[q].answered = hub[q].answered
        /\ wire' = wire /\ latest' = latest
    BY <1>1, <1>13, Asked
  <2> QED
    BY <1>5, <2>1
<1>14. CASE Quiet
  <2>1. FlushFinal \/ (\E c \in Client : Accept(c) \/ Disconnect(c)) => UNCHANGED <<wire, latest>>
    BY DEF FlushFinal, Accept, Disconnect
  <2>2. BroadcastThread => UNCHANGED <<wire, latest>>
    BY DEF BroadcastThread, StopSeen, Push, StartLine, ReadFrame, Deliver
  <2>3. ClientSnapshotTooSoon \/ SnapshotExpires \/ FinalWaitExpires \/ FlushExpires \/ Finished
          => UNCHANGED <<wire, latest>>
    BY DEF ClientSnapshotTooSoon, SnapshotExpires, FinalWaitExpires, FlushExpires, Finished, vars
  <2>4. CASE UNCHANGED <<wire, latest>>
    BY <1>6, <1>14, <2>4, Quietly
  <2> QED
    BY <1>7, <1>8, <1>14, <2>1, <2>2, <2>3, <2>4 DEF Quiet
<1> QED
  BY <1>9, <1>10, <1>11, <1>12, <1>13, <1>14, Steps

-----------------------------------------------------------------------------
(* Controls on their way *)

\* The control at the head is applied.
LEMMA SettledTaken ==
    ASSUME NEW todo \in Seq(Control), todo # <<>>, NEW kinds, NEW has, NEW center, NEW next,
           Settled(todo, kinds, has, center),
           next = IF Head(todo).kind \in kinds THEN Effect(Head(todo)) ELSE has
    PROVE  Settled(Tail(todo), kinds, next, center)
<1> DEFINE rest == Tail(todo)
<1>1. /\ Head(todo) = todo[1] /\ 1 \in DOMAIN todo
      /\ \A i \in DOMAIN rest : i + 1 \in DOMAIN todo /\ rest[i] = todo[i + 1]
      /\ \A i \in DOMAIN todo : i # 1 => /\ i - 1 \in DOMAIN rest /\ rest[i - 1] = todo[i] /\ i > 1
      /\ \A i \in DOMAIN todo : i \in Nat
      /\ \A i \in DOMAIN rest : i \in Nat \ {0}
  BY HeadTailProperties, LenProperties
<1> HIDE DEF rest
<1>2. ASSUME NEW i \in DOMAIN rest, rest[i].kind \in kinds,
             \A j \in DOMAIN rest : j > i => rest[j].kind \notin kinds
      PROVE  center = Effect(rest[i])
  <2>1. i + 1 \in DOMAIN todo /\ todo[i + 1] = rest[i]
    BY <1>1
  <2>2. ASSUME NEW j \in DOMAIN todo, j > i + 1 PROVE todo[j].kind \notin kinds
    <3>1. j - 1 \in DOMAIN rest /\ rest[j - 1] = todo[j] /\ j - 1 > i
      BY <1>1, <2>2
    <3> QED
      BY <1>2, <3>1
  <2> QED
    BY <1>2, <2>1, <2>2 DEF Settled
<1>3. next = center \/ \E i \in DOMAIN rest : rest[i].kind \in kinds
  <2> SUFFICES ASSUME \A i \in DOMAIN rest : rest[i].kind \notin kinds PROVE next = center
    OBVIOUS
  <2>1. \A j \in DOMAIN todo : j # 1 => todo[j].kind \notin kinds
    BY <1>1
  <2>2. CASE todo[1].kind \in kinds
    <3>1. \A j \in DOMAIN todo : j > 1 => todo[j].kind \notin kinds
      BY <1>1, <2>1
    <3>2. center = Effect(todo[1])
      BY <1>1, <2>2, <3>1 DEF Settled
    <3> QED
      BY <1>1, <2>2, <3>2
  <2>3. CASE todo[1].kind \notin kinds
    <3>1. has = center
      BY <1>1, <2>1, <2>3 DEF Settled
    <3> QED
      BY <1>1, <2>3, <3>1
  <2> QED
    BY <2>2, <2>3
<1> QED
  BY <1>2, <1>3 DEF Settled, rest

\* Rank 0 applies a control and passes it on.
LEMMA SettledSent ==
    ASSUME NEW todo \in Seq(Control), NEW m \in Control, NEW kinds, NEW has, NEW center, NEW next,
           Settled(todo, kinds, has, center),
           next = IF m.kind \in kinds THEN Effect(m) ELSE center
    PROVE  Settled(Append(todo, m), kinds, has, next)
<1> DEFINE s == Append(todo, m)
           n == Len(todo) + 1
<1>1. /\ n \in Nat /\ DOMAIN s = 1 .. n /\ DOMAIN todo = 1 .. n - 1
      /\ s[n] = m /\ \A i \in 1 .. n - 1 : s[i] = todo[i]
  BY AppendProperties, LenProperties
<1> HIDE DEF s, n
<1>2. /\ n \in DOMAIN s /\ \A i \in DOMAIN todo : i \in DOMAIN s /\ s[i] = todo[i] /\ n > i
      /\ \A i \in DOMAIN s : i # n => i \in DOMAIN todo
  <2>1. n >= 1
    BY <1>1, LenProperties DEF n
  <2> QED
    BY <1>1, <2>1
<1>3. CASE m.kind \in kinds
  <2>1. ASSUME NEW i \in DOMAIN s, s[i].kind \in kinds,
               \A j \in DOMAIN s : j > i => s[j].kind \notin kinds
        PROVE  next = Effect(s[i])
    <3>1. i = n
      BY <1>1, <1>2, <1>3, <2>1
    <3> QED
      BY <1>1, <1>3, <3>1
  <2>2. \E i \in DOMAIN s : s[i].kind \in kinds
    BY <1>1, <1>2, <1>3
  <2> QED
    BY <2>1, <2>2 DEF Settled, s
<1>4. CASE m.kind \notin kinds
  <2>1. next = center
    BY <1>4
  <2>2. ASSUME NEW i \in DOMAIN s, s[i].kind \in kinds,
               \A j \in DOMAIN s : j > i => s[j].kind \notin kinds
        PROVE  center = Effect(s[i])
    <3>1. i # n
      BY <1>1, <1>4, <2>2
    <3>2. i \in DOMAIN todo /\ todo[i] = s[i]
      BY <1>2, <3>1
    <3>3. \A j \in DOMAIN todo : j > i => todo[j].kind \notin kinds
      BY <1>2, <2>2
    <3> QED
      BY <2>2, <3>2, <3>3 DEF Settled
  <2>3. has = center \/ \E i \in DOMAIN s : s[i].kind \in kinds
    BY <1>2 DEF Settled
  <2> QED
    BY <2>1, <2>2, <2>3 DEF Settled, s
<1> QED
  BY <1>3, <1>4

\* The snapshots on their way, as the first one is taken and one is added.
LEMMA AheadTaken ==
    ASSUME NEW todo \in Seq(Control), todo # <<>>, NEW due, NEW answered, NEW requested, NEW next,
           SnapshotsAhead(todo, due, answered, requested),
           next = IF Head(todo).kind = "SNAPSHOT" THEN Head(todo).value ELSE due
    PROVE  SnapshotsAhead(Tail(todo), next, answered, requested)
<1> DEFINE rest == Tail(todo)
<1>1. /\ Head(todo) = todo[1] /\ 1 \in DOMAIN todo
      /\ \A i \in DOMAIN rest : i + 1 \in DOMAIN todo /\ rest[i] = todo[i + 1] /\ 1 < i + 1
      /\ \A i, j \in DOMAIN rest : i < j => i + 1 < j + 1
  BY HeadTailProperties, LenProperties
<1> HIDE DEF rest
<1>2. \A i, j \in DOMAIN rest :
         i < j /\ rest[i].kind = "SNAPSHOT" /\ rest[j].kind = "SNAPSHOT" =>
           rest[i].value <= rest[j].value
  BY <1>1 DEF SnapshotsAhead
<1>3. ASSUME NEW i \in DOMAIN rest, rest[i].kind = "SNAPSHOT"
      PROVE  next <= rest[i].value /\ answered <= rest[i].value /\ rest[i].value <= requested
  BY <1>1, <1>3 DEF SnapshotsAhead
<1> QED
  BY <1>2, <1>3 DEF SnapshotsAhead, rest

\* A control is added to those on their way: a snapshot among them has the highest number.
LEMMA AheadSent ==
    ASSUME NEW todo \in Seq(Control), NEW m \in Control, NEW due \in Nat, NEW answered \in Nat,
           NEW requested \in Nat, NEW next \in Nat,
           SnapshotsAhead(todo, due, answered, requested), requested <= next,
           due <= requested, answered <= requested,
           m.kind = "SNAPSHOT" => m.value = next
    PROVE  SnapshotsAhead(Append(todo, m), due, answered, next)
<1> DEFINE s == Append(todo, m)
           n == Len(todo) + 1
<1>1. /\ n \in Nat /\ DOMAIN s = 1 .. n /\ DOMAIN todo = 1 .. n - 1
      /\ s[n] = m /\ \A i \in 1 .. n - 1 : s[i] = todo[i]
  BY AppendProperties, LenProperties
<1> HIDE DEF s, n
<1>2. \A i \in DOMAIN s : i # n => i \in DOMAIN todo /\ s[i] = todo[i]
  BY <1>1
<1>3. \A i \in DOMAIN todo : todo[i].kind = "SNAPSHOT" =>
         /\ due <= todo[i].value /\ answered <= todo[i].value
         /\ todo[i].value <= requested /\ todo[i].value \in Nat
  <2>1. \A i \in DOMAIN todo : todo[i] \in Control
    OBVIOUS
  <2> QED
    BY <2>1 DEF SnapshotsAhead, Control
<1>4. \A i \in DOMAIN s : s[i].kind = "SNAPSHOT" =>
         due <= s[i].value /\ answered <= s[i].value /\ s[i].value <= next
  BY <1>1, <1>2, <1>3
<1>5. \A i, j \in DOMAIN s :
         i < j /\ s[i].kind = "SNAPSHOT" /\ s[j].kind = "SNAPSHOT" => s[i].value <= s[j].value
  <2> SUFFICES ASSUME NEW i \in DOMAIN s, NEW j \in DOMAIN s, i < j,
                      s[i].kind = "SNAPSHOT", s[j].kind = "SNAPSHOT"
               PROVE  s[i].value <= s[j].value
    OBVIOUS
  <2>1. CASE j = n
    BY <1>1, <1>4, <2>1
  <2>2. CASE j # n
    <3>1. i # n
      BY <1>1, <2>2
    <3> QED
      BY <1>2, <2>2, <3>1 DEF SnapshotsAhead
  <2> QED
    BY <2>1, <2>2
<1> QED
  BY <1>4, <1>5 DEF SnapshotsAhead, s

\* What rank r has yet to apply is all controls, in one order however far they have come.
LEMMA PendingTyped ==
    ASSUME control \in [Rank -> Seq(Control)], fanout \in Seq(Control),
           server.at = "push" => server.msg \in Control, NEW r \in Rank
    PROVE  Pending(r) \in Seq(Control)
  BY DEF Pending, Passing

\* A control that pauses, resumes or sets the interval has the effect of its kind.
LEMMA Effects ==
    \A m \in Control :
      /\ m.kind \in {"PAUSE", "RESUME"} => Effect(m) = (m.kind = "PAUSE")
      /\ m.kind \in {"SET_INTERVAL_MS"} => Effect(m) = m.value
  BY DEF Effect

\* A rank that applies the next control stays told of what rank 0 has.
LEMMA ToldTaken ==
    ASSUME NEW todo \in Seq(Control), todo # <<>>, NEW h, NEW g, NEW center, Told(todo, h, center),
           g.paused = IF Head(todo).kind \in {"PAUSE", "RESUME"} THEN Head(todo).kind = "PAUSE"
                      ELSE h.paused,
           g.interval = IF Head(todo).kind = "SET_INTERVAL_MS" THEN Head(todo).value ELSE h.interval
    PROVE  Told(Tail(todo), g, center)
<1>1. Head(todo) \in Control
  OBVIOUS
<1>2. g.paused = IF Head(todo).kind \in {"PAUSE", "RESUME"} THEN Effect(Head(todo)) ELSE h.paused
  BY <1>1, Effects
<1>3. g.interval = IF Head(todo).kind \in {"SET_INTERVAL_MS"} THEN Effect(Head(todo)) ELSE h.interval
  BY <1>1, Effects
<1>4. Settled(Tail(todo), {"PAUSE", "RESUME"}, g.paused, center.paused)
  BY <1>2, SettledTaken DEF Told
<1>5. Settled(Tail(todo), {"SET_INTERVAL_MS"}, g.interval, center.interval)
  BY <1>3, SettledTaken DEF Told
<1> QED
  BY <1>4, <1>5 DEF Told

\* A rank stays told of what rank 0 has as rank 0 takes a control and passes it on.
LEMMA ToldSent ==
    ASSUME NEW todo \in Seq(Control), NEW m \in Control, NEW h, NEW center, NEW next,
           Told(todo, h, center),
           next.paused = IF m.kind \in {"PAUSE", "RESUME"} THEN m.kind = "PAUSE" ELSE center.paused,
           next.interval = IF m.kind = "SET_INTERVAL_MS" THEN m.value ELSE center.interval
    PROVE  Told(Append(todo, m), h, next)
<1>1. next.paused = IF m.kind \in {"PAUSE", "RESUME"} THEN Effect(m) ELSE center.paused
  BY Effects
<1>2. next.interval = IF m.kind \in {"SET_INTERVAL_MS"} THEN Effect(m) ELSE center.interval
  BY Effects
<1>3. Settled(Append(todo, m), {"PAUSE", "RESUME"}, h.paused, next.paused)
  BY <1>1, SettledSent DEF Told
<1>4. Settled(Append(todo, m), {"SET_INTERVAL_MS"}, h.interval, next.interval)
  BY <1>2, SettledSent DEF Told
<1> QED
  BY <1>3, <1>4 DEF Told

\* A command of a client, as rank 0 takes it.
LEMMA Command ==
    ASSUME hub \in [Rank -> Hub], NEW line \in Line, ClientControl(parse_control_line(line))
    PROVE  LET m == parse_control_line(line) IN
           /\ m \in Control /\ m.kind # "SNAPSHOT"
           /\ hub'[0].due = hub[0].due
           /\ hub'[0].paused = IF m.kind \in {"PAUSE", "RESUME"} THEN m.kind = "PAUSE"
                               ELSE hub[0].paused
           /\ hub'[0].interval = IF m.kind = "SET_INTERVAL_MS" THEN m.value ELSE hub[0].interval
           /\ server.at = "drain" /\ server'.at = "push" /\ server'.msg = m
           /\ UNCHANGED <<control, fanout, snapshot>>
<1> DEFINE m == parse_control_line(line)
<1>1. /\ m.kind # "UNSPECIFIED" /\ hub' = [hub EXCEPT ![0] = Apply(@, m)]
      /\ server.at = "drain" /\ server' = [server EXCEPT !.at = "push", !.msg = m]
      /\ UNCHANGED <<control, fanout, snapshot>>
  BY DEF ClientControl
<1>2. m \in Control /\ m.kind # "SNAPSHOT"
  BY <1>1, Commanded
<1> HIDE DEF m
<1>3. hub[0] \in Hub /\ hub'[0] = Apply(hub[0], m)
  BY <1>1, Ranks
<1>4. /\ hub'[0].due = hub[0].due
      /\ hub'[0].paused = IF m.kind \in {"PAUSE", "RESUME"} THEN m.kind = "PAUSE" ELSE hub[0].paused
      /\ hub'[0].interval = IF m.kind = "SET_INTERVAL_MS" THEN m.value ELSE hub[0].interval
  BY <1>2, <1>3, Applied
<1> QED
  BY <1>1, <1>2, <1>4 DEF m

\* A snapshot that is asked for, as rank 0 takes it.
LEMMA SnapshotAsked ==
    ASSUME hub \in [Rank -> Hub], snapshot.requested \in Nat, ClientSnapshot
    PROVE  LET id == snapshot.requested + 1
               m == [kind |-> "SNAPSHOT", value |-> id]
           IN  /\ m \in Control /\ snapshot'.requested = id
               /\ hub'[0].due = id /\ hub'[0].paused = hub[0].paused
               /\ hub'[0].interval = hub[0].interval
               /\ fanout' = Append(fanout, m) /\ server.at = "drain"
               /\ UNCHANGED <<control, server>>
<1> DEFINE id == snapshot.requested + 1
           m == [kind |-> "SNAPSHOT", value |-> id]
<1>1. /\ snapshot' = [requested |-> id, expired |-> FALSE] /\ hub' = [hub EXCEPT ![0].due = id]
      /\ fanout' = Append(fanout, m) /\ server.at = "drain" /\ UNCHANGED <<control, server>>
  BY DEF ClientSnapshot
<1>2. id \in Nat /\ m \in Control
  BY DEF Control
<1> HIDE DEF id
<1>3. hub[0] \in Hub /\ hub'[0] = [hub[0] EXCEPT !.due = id]
  BY <1>1, Ranks
<1>4. hub'[0].due = id /\ hub'[0].paused = hub[0].paused /\ hub'[0].interval = hub[0].interval
  BY <1>2, <1>3 DEF Hub
<1> QED
  BY <1>1, <1>2, <1>4 DEF id

\* The numbers of the snapshots that rank r knows of.
Numbered(h, requested) ==
    /\ h.due <= requested /\ h.answered <= requested
    /\ h.due # 0 => h.answered <= h.due

\* Every step keeps the snapshot a rank owes and the one it answered within those requested.
LEMMA NumbersNext == IInv /\ Next => \A r \in Rank : Numbered(hub'[r], snapshot'.requested)
<1> SUFFICES ASSUME IInv, Next PROVE \A q \in Rank : Numbered(hub'[q], snapshot'.requested)
  OBVIOUS
<1>1. /\ hub \in [Rank -> Hub] /\ wire \in Wires /\ RunningInv
      /\ control \in [Rank -> Seq(Control)]
      /\ snapshot \in [requested : Nat, expired : BOOLEAN] /\ snapshot.requested \in Nat
      /\ \A q \in Rank : Numbered(hub[q], snapshot.requested)
      /\ control[0] = <<>>
  BY DEF IInv, TypeOK, Wires, ControlInv, Numbered
<1>2. \A q \in Rank : hub[q] \in Hub /\ hub[q].due \in Nat /\ hub[q].answered \in Nat
  BY <1>1 DEF Hub
<1>3. ASSUME snapshot' = snapshot, NEW r \in Rank, \A q \in Rank : q # r => hub'[q] = hub[q],
             Numbered(hub'[r], snapshot.requested)
      PROVE  \A q \in Rank : Numbered(hub'[q], snapshot'.requested)
  BY <1>1, <1>3
<1>4. ASSUME NEW r \in Rank, Move(r) PROVE \A q \in Rank : Numbered(hub'[q], snapshot'.requested)
  <2>1. \A q \in Rank : hub'[q].due = hub[q].due /\ hub'[q].answered = hub[q].answered
    BY <1>1, <1>4, Moving DEF SameHub
  <2>2. snapshot' = snapshot
    BY <1>4 DEF Move, NotDue, Reset, Fanout, ProbeFailed, CheckFinals, Stop, Join, CloseClients
  <2> QED
    BY <1>1, <2>1, <2>2 DEF Numbered
<1>5. ASSUME NEW r \in Rank, try_recv_control(r)
      PROVE  \A q \in Rank : Numbered(hub'[q], snapshot'.requested)
  <2> DEFINE m == Head(control[r])
  <2>1. /\ \A q \in Rank : q # r => hub'[q] = hub[q]
        /\ hub[r].running /\ hub'[r].answered = hub[r].answered
        /\ hub'[r].due = IF m.kind = "SNAPSHOT" THEN m.value ELSE hub[r].due
        /\ snapshot' = snapshot /\ control[r] # <<>>
    BY <1>1, <1>5, Listened DEF try_recv_control
  <2>2. r \in Live \ {0}
    BY <1>1, <2>1 DEF RunningInv
  <2>3. /\ SnapshotsAhead(Pending(r), hub[r].due, hub[r].answered, snapshot.requested)
        /\ Head(Pending(r)) = m /\ 1 \in DOMAIN Pending(r) /\ Pending(r)[1] = m
    <3>1. SnapshotsAhead(Pending(r), hub[r].due, hub[r].answered, snapshot.requested)
      BY <2>1, <2>2 DEF IInv, ControlInv
    <3>2. control[r] \in Seq(Control) /\ fanout \in Seq(Control) /\ Passing \in Seq(Control)
      BY <1>1 DEF IInv, TypeOK, ControlInv, Passing
    <3>3. /\ 1 \in DOMAIN Pending(r) /\ Pending(r)[1] = m /\ Head(Pending(r)) = m
      BY <2>1, <3>2 DEF Pending
    <3> QED
      BY <3>1, <3>3
  <2> HIDE DEF m
  <2>4. m.kind = "SNAPSHOT" => hub[r].answered <= m.value /\ m.value <= snapshot.requested
    BY <2>3 DEF SnapshotsAhead
  <2>5. Numbered(hub'[r], snapshot.requested)
    BY <1>1, <2>1, <2>4 DEF Numbered
  <2> QED
    BY <1>3, <2>1, <2>5
<1>6. ASSUME NEW r \in Rank, Emit(r) PROVE \A q \in Rank : Numbered(hub'[q], snapshot'.requested)
  <2>1. /\ \A q \in Rank : q # r => hub'[q] = hub[q]
        /\ hub'[r].due = 0 /\ snapshot' = snapshot
        /\ hub'[r].answered = IF hub[r].due # 0 THEN hub[r].due ELSE hub[r].answered
    BY <1>1, <1>6, Emitted
  <2>2. Numbered(hub'[r], snapshot.requested)
    BY <1>1, <2>1 DEF Numbered
  <2> QED
    BY <1>3, <2>1, <2>2
<1>7. ASSUME NEW r \in Rank, Shutdown(r) PROVE \A q \in Rank : Numbered(hub'[q], snapshot'.requested)
  <2>1. /\ \A q \in Rank : q # r => hub'[q] = hub[q]
        /\ hub'[r].due = hub[r].due /\ hub'[r].answered = hub[r].answered /\ snapshot' = snapshot
    BY <1>1, <1>7, ShutDown
  <2>2. Numbered(hub'[r], snapshot.requested)
    BY <1>1, <2>1 DEF Numbered
  <2> QED
    BY <1>3, <2>1, <2>2
<1>8. CASE ClientSnapshot
  <2>1. /\ \A q \in Rank : q # 0 => hub'[q] = hub[q]
        /\ \A q \in Rank : hub'[q].answered = hub[q].answered
        /\ snapshot'.requested = snapshot.requested + 1
        /\ hub'[0].due = snapshot.requested + 1
    BY <1>1, <1>8, Asked, SnapshotAsked
  <2> SUFFICES ASSUME NEW q \in Rank PROVE Numbered(hub'[q], snapshot'.requested)
    OBVIOUS
  <2>2. /\ hub[q].due <= snapshot.requested /\ hub[q].answered <= snapshot.requested
        /\ hub[q].due # 0 => hub[q].answered <= hub[q].due
    BY <1>1 DEF Numbered
  <2>3. CASE q = 0
    BY <1>1, <1>2, <2>1, <2>2, <2>3 DEF Numbered
  <2>4. CASE q # 0
    BY <1>1, <1>2, <2>1, <2>2, <2>4 DEF Numbered
  <2> QED
    BY <2>3, <2>4
<1>9. ASSUME NEW line \in Line, ClientControl(parse_control_line(line))
      PROVE  \A q \in Rank : Numbered(hub'[q], snapshot'.requested)
  <2>1. /\ \A q \in Rank : q # 0 => hub'[q] = hub[q]
        /\ \A q \in Rank : hub'[q].answered = hub[q].answered
    BY <1>1, <1>9, Asked
  <2>2. hub'[0].due = hub[0].due /\ snapshot' = snapshot
    BY <1>1, <1>9, Command
  <2>3. Numbered(hub'[0], snapshot.requested)
    BY <1>1, <2>1, <2>2, Ranks DEF Numbered
  <2> QED
    BY <1>3, <2>1, <2>2, <2>3, Ranks
<1>10. CASE Quiet
  <2>1. snapshot' = snapshot \/ snapshot' = [snapshot EXCEPT !.expired = TRUE]
    <3>1. FlushFinal \/ (\E c \in Client : Accept(c) \/ Disconnect(c)) => snapshot' = snapshot
      BY DEF FlushFinal, Accept, Disconnect
    <3>2. BroadcastThread => snapshot' = snapshot
      BY DEF BroadcastThread, StopSeen, Push, StartLine, ReadFrame, Deliver
    <3>3. ClientSnapshotTooSoon \/ FinalWaitExpires \/ FlushExpires \/ Finished => snapshot' = snapshot
      BY DEF ClientSnapshotTooSoon, FinalWaitExpires, FlushExpires, Finished, vars
    <3>4. ReceiveSlot \/ (\E r \in Rank : ReceiveFrame(r)) => snapshot' = snapshot
      BY DEF ReceiveSlot, ReceiveFrame
    <3>5. SnapshotExpires => snapshot' = [snapshot EXCEPT !.expired = TRUE]
      BY DEF SnapshotExpires
    <3> QED
      BY <1>10, <3>1, <3>2, <3>3, <3>4, <3>5 DEF Quiet
  <2>2. snapshot'.requested = snapshot.requested
    BY <1>1, <2>1
  <2> QED
    BY <1>1, <1>10, <2>2, Quietly
<1> QED
  BY <1>4, <1>5, <1>6, <1>7, <1>8, <1>9, <1>10, Steps

\* The head of the first of two queues, put one behind the other, is the head of both together.
LEMMA TailOfConcat ==
    ASSUME NEW S, NEW s \in Seq(S), NEW u \in Seq(S), s # <<>>
    PROVE  /\ s \o u \in Seq(S) /\ s \o u # <<>> /\ Head(s \o u) = Head(s)
           /\ Tail(s \o u) = Tail(s) \o u
<1>1. /\ s \o u \in Seq(S) /\ Len(s \o u) = Len(s) + Len(u) /\ Len(s) \in Nat \ {0} /\ Len(u) \in Nat
      /\ \A i \in 1 .. Len(s) + Len(u) :
           (s \o u)[i] = IF i <= Len(s) THEN s[i] ELSE u[i - Len(s)]
  BY ConcatProperties, LenProperties, EmptySeq
<1>2. s \o u # <<>>
  BY <1>1, EmptySeq
<1>3. Head(s \o u) = Head(s)
  BY <1>1, <1>2
<1>4. /\ Tail(s) \in Seq(S) /\ Len(Tail(s)) = Len(s) - 1
      /\ \A i \in 1 .. Len(Tail(s)) : Tail(s)[i] = s[i + 1]
  BY HeadTailProperties
<1>5. /\ Tail(s \o u) \in Seq(S) /\ Len(Tail(s \o u)) = Len(s) + Len(u) - 1
      /\ \A i \in 1 .. Len(s) + Len(u) - 1 : Tail(s \o u)[i] = (s \o u)[i + 1]
  BY <1>1, <1>2, HeadTailProperties
<1>6. /\ Tail(s) \o u \in Seq(S) /\ Len(Tail(s) \o u) = Len(s) - 1 + Len(u)
      /\ \A i \in 1 .. Len(s) - 1 + Len(u) :
           (Tail(s) \o u)[i] = IF i <= Len(s) - 1 THEN Tail(s)[i] ELSE u[i - (Len(s) - 1)]
  BY <1>4, ConcatProperties
<1>7. ASSUME NEW i \in 1 .. Len(s) + Len(u) - 1 PROVE Tail(s \o u)[i] = (Tail(s) \o u)[i]
  <2>1. CASE i <= Len(s) - 1
    <3>1. i + 1 \in 1 .. Len(s) + Len(u) /\ i + 1 <= Len(s) /\ i \in 1 .. Len(Tail(s))
      BY <1>1, <1>4, <1>7, <2>1
    <3> QED
      BY <1>1, <1>4, <1>5, <1>6, <1>7, <2>1, <3>1
  <2>2. CASE ~(i <= Len(s) - 1)
    <3>1. /\ i + 1 \in 1 .. Len(s) + Len(u) /\ ~(i + 1 <= Len(s))
          /\ i + 1 - Len(s) = i - (Len(s) - 1)
      BY <1>1, <1>7, <2>2
    <3>2. (s \o u)[i + 1] = u[i + 1 - Len(s)]
      BY <1>1, <3>1
    <3> QED
      BY <1>1, <1>5, <1>6, <1>7, <2>2, <3>1, <3>2
  <2> QED
    BY <2>1, <2>2
<1>8. Len(Tail(s \o u)) = Len(Tail(s) \o u)
  BY <1>1, <1>5, <1>6
<1>9. \A i \in 1 .. Len(Tail(s \o u)) : Tail(s \o u)[i] = (Tail(s) \o u)[i]
  BY <1>5, <1>7
<1>10. Tail(s \o u) = Tail(s) \o u
  BY <1>5, <1>6, <1>8, <1>9, SeqEqual
<1> QED
  BY <1>1, <1>2, <1>3, <1>10

\* Rank 0 reads no controls, and passes on none that is a snapshot one by one.
LEMMA PushNext ==
    IInv /\ Next => /\ control'[0] = <<>>
                    /\ server'.at = "push" => server'.msg \in Control /\ server'.msg.kind # "SNAPSHOT"
<1> SUFFICES ASSUME IInv, Next
             PROVE  /\ control'[0] = <<>>
                    /\ server'.at = "push" => server'.msg \in Control /\ server'.msg.kind # "SNAPSHOT"
  OBVIOUS
<1>1. /\ hub \in [Rank -> Hub] /\ control \in [Rank -> Seq(Control)] /\ RunningInv
      /\ snapshot.requested \in Nat /\ server \in Server
      /\ control[0] = <<>> /\ 0 \in Rank
      /\ server.at = "push" => server.msg \in Control /\ server.msg.kind # "SNAPSHOT"
  BY Ranks DEF IInv, TypeOK, ControlInv
<1>2. CASE UNCHANGED <<control, server>>
  BY <1>1, <1>2
<1>3. ASSUME NEW r \in Rank, try_recv_control(r)
      PROVE  control' = [control EXCEPT ![r] = Tail(@)] /\ r # 0 /\ server' = server
  BY <1>1, <1>3 DEF try_recv_control
<1>4. CASE \E r \in Rank : try_recv_control(r)
  BY <1>1, <1>3, <1>4
<1>5. CASE \E r \in Rank : Reset(r)
  BY <1>1, <1>5 DEF Reset
<1>6. CASE Fanout
  BY <1>1, <1>6 DEF Fanout, Sent
<1>7. CASE Stop
  <2>1. control' = control /\ server' = [server EXCEPT !.running = FALSE]
    BY <1>7 DEF Stop
  <2>2. server'.at = server.at /\ server'.msg = server.msg
    BY <1>1, <2>1 DEF Server
  <2> QED
    BY <1>1, <2>1, <2>2
<1>8. ASSUME NEW line \in Line, ClientControl(parse_control_line(line))
      PROVE  /\ control'[0] = <<>>
             /\ server'.at = "push" => server'.msg \in Control /\ server'.msg.kind # "SNAPSHOT"
  BY <1>1, <1>8, Command
<1>9. CASE BroadcastThread
  <2>1. control' = control
    BY <1>9 DEF BroadcastThread, StopSeen, Push, StartLine, ReadFrame, Deliver
  <2>2. server'.at # "push"
    <3>1. CASE StopSeen
      BY <1>1, <3>1 DEF StopSeen, Server
    <3>2. CASE Push
      BY <1>1, <3>2 DEF Push, Server
    <3>3. CASE StartLine
      BY <1>1, <3>3 DEF StartLine, Server
    <3>4. CASE ReadFrame
      BY <1>1, <3>4 DEF ReadFrame, Server
    <3>5. CASE Deliver
      BY <1>1, <3>5 DEF Deliver, Server
    <3> QED
      BY <1>9, <3>1, <3>2, <3>3, <3>4, <3>5 DEF BroadcastThread
  <2> QED
    BY <1>1, <2>1, <2>2
<1>10. ClientSnapshot \/ (\E r \in Rank : Emit(r) \/ Shutdown(r) \/ NotDue(r)) => UNCHANGED <<control, server>>
  BY DEF ClientSnapshot, Emit, Shutdown, NotDue
<1>11. ProbeFailed \/ CheckFinals \/ Join \/ CloseClients => UNCHANGED <<control, server>>
  BY DEF ProbeFailed, CheckFinals, Join, CloseClients
<1>12. ReceiveSlot \/ (\E r \in Rank : ReceiveFrame(r)) => UNCHANGED <<control, server>>
  BY DEF ReceiveSlot, ReceiveFrame
<1>13. FlushFinal \/ (\E c \in Client : Accept(c) \/ Disconnect(c)) => UNCHANGED <<control, server>>
  BY DEF FlushFinal, Accept, Disconnect
<1>14. ClientSnapshotTooSoon \/ SnapshotExpires \/ FinalWaitExpires \/ FlushExpires \/ Finished
          => UNCHANGED <<control, server>>
  BY DEF ClientSnapshotTooSoon, SnapshotExpires, FinalWaitExpires, FlushExpires, Finished, vars
<1>15. CASE Quiet
  BY <1>2, <1>9, <1>12, <1>13, <1>14, <1>15 DEF Quiet
<1>16. CASE \E r \in Rank : Move(r)
  BY <1>2, <1>5, <1>6, <1>7, <1>10, <1>11, <1>16 DEF Move
<1> QED
  BY <1>2, <1>4, <1>8, <1>10, <1>15, <1>16, Steps

\* A control moves from the end of one queue to the next queue.
LEMMA PassedOn ==
    ASSUME NEW s \in Seq(Control), NEW t \in Seq(Control), NEW m \in Control
    PROVE  (s \o Append(t, m)) \o <<>> = (s \o t) \o <<m>>
<1> DEFINE one == <<m>>
<1>1. one \in Seq(Control) /\ Append(t, m) = t \o one /\ Append(t, m) \in Seq(Control)
  BY AppendIsConcat, AppendProperties
<1> HIDE DEF one
<1>2. s \o Append(t, m) \in Seq(Control)
  BY <1>1, ConcatProperties
<1>3. (s \o Append(t, m)) \o <<>> = s \o Append(t, m)
  BY <1>2, ConcatEmptySeq
<1>4. (s \o t) \o one = s \o (t \o one)
  BY <1>1, ConcatAssociative
<1> QED
  BY <1>1, <1>3, <1>4 DEF one

\* A quiet step leaves all that is on its way where it is, or passes it on.
LEMMA PendingQuiet ==
    ASSUME IInv, Quiet, NEW r \in Rank
    PROVE  Pending(r)' = Pending(r) /\ snapshot'.requested = snapshot.requested
<1>1. /\ control[r] \in Seq(Control) /\ fanout \in Seq(Control) /\ server \in Server
      /\ server.at = "push" => server.msg \in Control
      /\ snapshot \in [requested : Nat, expired : BOOLEAN]
  BY DEF IInv, TypeOK, ControlInv
<1>2. CASE UNCHANGED <<control, fanout, server, snapshot>>
  BY <1>2 DEF Pending, Passing
<1>3. CASE SnapshotExpires
  <2>1. snapshot' = [snapshot EXCEPT !.expired = TRUE] /\ UNCHANGED <<control, fanout, server>>
    BY <1>3 DEF SnapshotExpires
  <2> QED
    BY <1>1, <2>1 DEF Pending, Passing
<1>4. CASE Push
  <2>1. /\ server.at = "push" /\ fanout' = Append(fanout, server.msg) /\ control' = control
        /\ server'.at = "drain" /\ snapshot' = snapshot
    BY <1>1, <1>4 DEF Push, Server
  <2> DEFINE m == server.msg
  <2>2. m \in Control
    BY <1>1, <2>1
  <2>3. Pending(r)' = (control[r] \o Append(fanout, m)) \o <<>>
    BY <2>1 DEF Pending, Passing
  <2>4. Pending(r) = (control[r] \o fanout) \o <<m>>
    BY <2>1 DEF Pending, Passing
  <2> HIDE DEF m
  <2> QED
    BY <1>1, <2>1, <2>2, <2>3, <2>4, PassedOn
<1>5. CASE StopSeen \/ StartLine \/ ReadFrame \/ Deliver
  <2>1. UNCHANGED <<control, fanout, snapshot>>
    BY <1>5 DEF StopSeen, StartLine, ReadFrame, Deliver
  <2>2. server.at # "push" /\ server'.at # "push"
    <3>1. CASE StopSeen
      BY <1>1, <3>1 DEF StopSeen, Server
    <3>2. CASE StartLine
      BY <1>1, <3>2 DEF StartLine, Server
    <3>3. CASE ReadFrame
      BY <1>1, <3>3 DEF ReadFrame, Server
    <3>4. CASE Deliver
      BY <1>1, <3>4 DEF Deliver, Server
    <3> QED
      BY <1>5, <3>1, <3>2, <3>3, <3>4
  <2> QED
    BY <2>1, <2>2 DEF Pending, Passing
<1>6. ReceiveSlot \/ (\E q \in Rank : ReceiveFrame(q)) => UNCHANGED <<control, fanout, server, snapshot>>
  BY DEF ReceiveSlot, ReceiveFrame
<1>7. FlushFinal \/ (\E c \in Client : Accept(c) \/ Disconnect(c))
         => UNCHANGED <<control, fanout, server, snapshot>>
  BY DEF FlushFinal, Accept, Disconnect
<1>8. ClientSnapshotTooSoon \/ FinalWaitExpires \/ FlushExpires \/ Finished
         => UNCHANGED <<control, fanout, server, snapshot>>
  BY DEF ClientSnapshotTooSoon, FinalWaitExpires, FlushExpires, Finished, vars
<1> QED
  BY <1>2, <1>3, <1>4, <1>5, <1>6, <1>7, <1>8 DEF Quiet, BroadcastThread

\* So does every step that moves a hub to another place.
LEMMA PendingMoved ==
    ASSUME IInv, NEW q \in Rank, Move(q), NEW r \in Live \ {0}, hub[r].running
    PROVE  Pending(r)' = Pending(r) /\ snapshot' = snapshot
<1>1. /\ r \in Rank /\ r # 0 /\ hub[r].at \in {"loop", "tick", "fanout"} \cup Tag
      /\ control \in [Rank -> Seq(Control)] /\ control[r] \in Seq(Control)
      /\ fanout \in Seq(Control) /\ server \in Server
  BY Ranks DEF IInv, TypeOK, RunningInv
<1>2. CASE UNCHANGED <<control, fanout, server, snapshot>>
  BY <1>2 DEF Pending, Passing
<1>3. CASE Reset(q)
  <2>1. /\ hub[q].at = "reset" /\ control' = [control EXCEPT ![q] = <<>>]
        /\ UNCHANGED <<fanout, server, snapshot>>
    BY <1>3 DEF Reset
  <2>2. q # r
    BY <1>1, <2>1 DEF Tag
  <2>3. control'[r] = control[r]
    BY <1>1, <2>1, <2>2
  <2> QED
    BY <2>1, <2>3 DEF Pending, Passing
<1>4. CASE Fanout
  <2>1. /\ control' = [p \in Rank |-> Sent(p)] /\ fanout' = <<>> /\ UNCHANGED <<server, snapshot>>
    BY <1>4 DEF Fanout
  <2>2. control'[r] = control[r] \o fanout
    BY <1>1, <2>1 DEF Sent, Tag
  <2>3. (control[r] \o fanout) \o <<>> = control[r] \o fanout
    BY <1>1, ConcatEmptySeq, ConcatProperties
  <2> QED
    BY <2>1, <2>2, <2>3 DEF Pending, Passing
<1>5. CASE Stop
  <2>1. server' = [server EXCEPT !.running = FALSE]
    BY <1>5 DEF Stop
  <2>2. server'.at = server.at /\ server'.msg = server.msg
    BY <1>1, <2>1 DEF Server
  <2>3. Passing' = Passing
    BY <2>2 DEF Passing
  <2>4. UNCHANGED <<control, fanout, snapshot>>
    BY <1>5 DEF Stop
  <2> QED
    BY <2>3, <2>4 DEF Pending
<1>6. NotDue(q) => UNCHANGED <<control, fanout, server, snapshot>>
  BY DEF NotDue
<1>7. ProbeFailed \/ CheckFinals \/ Join \/ CloseClients => UNCHANGED <<control, fanout, server, snapshot>>
  BY DEF ProbeFailed, CheckFinals, Join, CloseClients
<1> QED
  BY <1>2, <1>3, <1>4, <1>5, <1>6, <1>7 DEF Move

\* A control that a rank applies is the next that is on its way.
LEMMA PendingTaken ==
    ASSUME IInv, NEW r \in Rank, try_recv_control(r)
    PROVE  /\ Pending(r) \in Seq(Control) /\ Pending(r) # <<>>
           /\ Head(Pending(r)) = Head(control[r]) /\ Pending(r)' = Tail(Pending(r))
           /\ \A q \in Rank : q # r => Pending(q)' = Pending(q)
<1>1. /\ control \in [Rank -> Seq(Control)] /\ control[r] \in Seq(Control)
      /\ fanout \in Seq(Control) /\ Passing \in Seq(Control)
  BY DEF IInv, TypeOK, ControlInv, Passing
<1>2. /\ control[r] # <<>> /\ control' = [control EXCEPT ![r] = Tail(@)]
      /\ UNCHANGED <<fanout, server>>
  BY DEF try_recv_control
<1> DEFINE s == control[r]
           u == fanout \o Passing
<1>3. /\ control'[r] = Tail(s) /\ \A q \in Rank : q # r => control'[q] = control[q]
      /\ s \in Seq(Control) /\ s # <<>> /\ Tail(s) \in Seq(Control) /\ u \in Seq(Control)
  BY <1>1, <1>2
<1>4. Pending(r) = s \o u
  BY <1>1, <1>3, ConcatAssociative DEF Pending
<1>5. Pending(r)' = Tail(s) \o u
  <2>1. Pending(r)' = (Tail(s) \o fanout) \o Passing
    BY <1>2, <1>3 DEF Pending, Passing
  <2>2. (Tail(s) \o fanout) \o Passing = Tail(s) \o (fanout \o Passing)
    <3> DEFINE rest == Tail(s)
    <3>1. rest \in Seq(Control)
      BY <1>3
    <3> HIDE DEF rest
    <3>2. (rest \o fanout) \o Passing = rest \o (fanout \o Passing)
      BY <1>1, <3>1, ConcatAssociative
    <3> QED
      BY <3>2 DEF rest
  <2> QED
    BY <2>1, <2>2
<1>6. \A q \in Rank : q # r => Pending(q)' = Pending(q)
  BY <1>2, <1>3 DEF Pending, Passing
<1> HIDE DEF s, u
<1>7. /\ s \o u \in Seq(Control) /\ s \o u # <<>> /\ Head(s \o u) = Head(s)
      /\ Tail(s \o u) = Tail(s) \o u
  BY <1>3, TailOfConcat
<1> QED
  BY <1>4, <1>5, <1>6, <1>7 DEF s

\* A control that rank 0 takes is the last that is on its way.
LEMMA PendingSent ==
    ASSUME IInv, NEW r \in Rank, NEW m \in Control, server.at = "drain", control' = control,
           \/ fanout' = fanout /\ server'.at = "push" /\ server'.msg = m
           \/ fanout' = Append(fanout, m) /\ server' = server
    PROVE  Pending(r) \in Seq(Control) /\ Pending(r)' = Append(Pending(r), m)
<1>1. /\ control[r] \in Seq(Control) /\ fanout \in Seq(Control)
  BY DEF IInv, TypeOK
<1> DEFINE s == control[r]
           one == <<m>>
<1>2. s \in Seq(Control) /\ s \o fanout \in Seq(Control) /\ one \in Seq(Control)
  BY <1>1
<1>3. Pending(r) = s \o fanout
  <2>1. Pending(r) = (s \o fanout) \o <<>>
    BY DEF Pending, Passing
  <2> HIDE DEF s
  <2> QED
    BY <1>2, <2>1, ConcatEmptySeq
<1>4. Append(s \o fanout, m) = (s \o fanout) \o one
  <2> HIDE DEF s
  <2> QED
    BY <1>2, AppendIsConcat
<1>5. CASE fanout' = fanout /\ server'.at = "push" /\ server'.msg = m
  <2>1. Pending(r)' = (s \o fanout) \o one
    BY <1>5 DEF Pending, Passing
  <2> QED
    BY <1>2, <1>3, <1>4, <2>1
<1>6. CASE fanout' = Append(fanout, m) /\ server' = server
  <2>1. Pending(r)' = (s \o Append(fanout, m)) \o <<>>
    BY <1>6 DEF Pending, Passing
  <2> QED
    BY <1>1, <1>2, <1>3, <1>4, <2>1, PassedOn
<1> QED
  BY <1>5, <1>6

\* Every step keeps what ControlInv says of the controls on their way.
LEMMA ControlNext == IInv /\ Next => ControlInv'
<1> SUFFICES ASSUME IInv, Next PROVE ControlInv'
  OBVIOUS
<1>1. /\ hub \in [Rank -> Hub] /\ wire \in Wires /\ RunningInv
      /\ control \in [Rank -> Seq(Control)]
      /\ snapshot.requested \in Nat /\ control[0] = <<>> /\ mode' = mode
  BY FramesTyped DEF IInv, TypeOK, Wires, ControlInv
<1>2. 0 \in Rank /\ \A r \in Live \ {0} : r \in Rank /\ r # 0
  BY Ranks
<1> DEFINE Knows(todo, h, center, requested) ==
              Told(todo, h, center) /\ SnapshotsAhead(todo, h.due, h.answered, requested)
<1>3. ASSUME NEW r \in Live \ {0}, hub[r].running
      PROVE  Knows(Pending(r), hub[r], hub[0], snapshot.requested)
  BY <1>3 DEF IInv, ControlInv
<1>4. SUFFICES ASSUME NEW r \in Live \ {0}, hub'[r].running
               PROVE  Knows(Pending(r)', hub'[r], hub'[0], snapshot'.requested)
  <2>1. Live' = Live
    BY <1>1 DEF Live
  <2>2. /\ control'[0] = <<>>
        /\ server'.at = "push" => server'.msg \in Control /\ server'.msg.kind # "SNAPSHOT"
    BY PushNext
  <2>3. \A q \in Rank : /\ hub'[q].due <= snapshot'.requested
                        /\ hub'[q].answered <= snapshot'.requested
                        /\ hub'[q].due # 0 => hub'[q].answered <= hub'[q].due
    BY NumbersNext DEF Numbered
  <2>4. \A q \in Live \ {0} : hub'[q].running =>
           Knows(Pending(q)', hub'[q], hub'[0], snapshot'.requested)
    BY <1>4
  <2> QED
    BY <2>1, <2>2, <2>3, <2>4 DEF ControlInv
<1>5. r \in Rank /\ r # 0
  BY <1>2
<1>6. ASSUME hub[r].running, Pending(r)' = Pending(r), snapshot'.requested = snapshot.requested,
             hub'[r].paused = hub[r].paused, hub'[r].interval = hub[r].interval,
             hub'[0].paused = hub[0].paused, hub'[0].interval = hub[0].interval,
             hub'[r].due = hub[r].due, hub'[r].answered = hub[r].answered
      PROVE  Knows(Pending(r)', hub'[r], hub'[0], snapshot'.requested)
  BY <1>3, <1>6 DEF Told
<1>7. CASE Quiet
  <2>1. Pending(r)' = Pending(r) /\ snapshot'.requested = snapshot.requested /\ hub' = hub
    BY <1>5, <1>7, PendingQuiet, Quietly
  <2> QED
    BY <1>4, <1>6, <2>1
<1>8. ASSUME NEW q \in Rank, Move(q)
      PROVE  Knows(Pending(r)', hub'[r], hub'[0], snapshot'.requested)
  <2>1. /\ hub[r].running
        /\ hub'[r].paused = hub[r].paused /\ hub'[r].interval = hub[r].interval
        /\ hub'[0].paused = hub[0].paused /\ hub'[0].interval = hub[0].interval
        /\ hub'[r].due = hub[r].due /\ hub'[r].answered = hub[r].answered
    BY <1>1, <1>2, <1>4, <1>5, <1>8, Moving DEF SameHub
  <2>2. Pending(r)' = Pending(r) /\ snapshot' = snapshot
    BY <1>8, <2>1, PendingMoved
  <2> QED
    BY <1>6, <2>1, <2>2
<1>9. ASSUME NEW q \in Rank, try_recv_control(q)
      PROVE  Knows(Pending(r)', hub'[r], hub'[0], snapshot'.requested)
  <2> DEFINE m == Head(control[q])
  <2>1. /\ \A p \in Rank : p # q => hub'[p] = hub[p]
        /\ hub[q].running /\ hub'[q].answered = hub[q].answered
        /\ hub'[q].due = IF m.kind = "SNAPSHOT" THEN m.value ELSE hub[q].due
        /\ hub'[q].paused = IF m.kind \in {"PAUSE", "RESUME"} THEN m.kind = "PAUSE"
                            ELSE hub[q].paused
        /\ hub'[q].interval = IF m.kind = "SET_INTERVAL_MS" THEN m.value ELSE hub[q].interval
        /\ snapshot' = snapshot
    BY <1>1, <1>9, Listened
  <2>2. /\ Pending(q) \in Seq(Control) /\ Pending(q) # <<>>
        /\ Head(Pending(q)) = m /\ Pending(q)' = Tail(Pending(q))
        /\ \A p \in Rank : p # q => Pending(p)' = Pending(p)
    BY <1>9, PendingTaken
  <2>3. q # 0 /\ hub'[0] = hub[0]
    BY <1>1, <1>2, <1>9, <2>1 DEF try_recv_control
  <2>4. CASE q = r
    <3>1. Knows(Pending(q), hub[q], hub[0], snapshot.requested)
      BY <1>3, <2>1, <2>4
    <3> HIDE DEF m
    <3>2. Told(Tail(Pending(q)), hub'[q], hub[0])
      BY <2>1, <2>2, <3>1, ToldTaken
    <3>3. SnapshotsAhead(Tail(Pending(q)), hub'[q].due, hub[q].answered, snapshot.requested)
      BY <2>1, <2>2, <3>1, AheadTaken
    <3> QED
      BY <2>1, <2>2, <2>3, <2>4, <3>2, <3>3
  <2>5. CASE q # r
    <3>1. hub'[r] = hub[r] /\ Pending(r)' = Pending(r)
      BY <1>5, <2>1, <2>2, <2>5
    <3> QED
      BY <1>4, <1>6, <2>1, <2>3, <3>1
  <2> QED
    BY <2>4, <2>5
<1>10. ASSUME NEW q \in Rank, Emit(q)
       PROVE  Knows(Pending(r)', hub'[r], hub'[0], snapshot'.requested)
  <2>1. /\ \A p \in Rank : p # q => hub'[p] = hub[p]
        /\ hub[q].running
        /\ hub'[q].due = 0
        /\ hub'[q].answered = IF hub[q].due # 0 THEN hub[q].due ELSE hub[q].answered
        /\ hub'[q].paused = hub[q].paused /\ hub'[q].interval = hub[q].interval
        /\ UNCHANGED <<control, fanout, server, snapshot>>
    BY <1>1, <1>10, Emitted
  <2>2. Pending(r)' = Pending(r)
    BY <2>1 DEF Pending, Passing
  <2>3. /\ hub[r].running
        /\ hub'[r].paused = hub[r].paused /\ hub'[r].interval = hub[r].interval
        /\ hub'[0].paused = hub[0].paused /\ hub'[0].interval = hub[0].interval
    <3>1. CASE q = r
      BY <1>2, <1>5, <2>1, <3>1
    <3>2. CASE q # r
      BY <1>2, <1>4, <1>5, <2>1, <3>2
    <3> QED
      BY <3>1, <3>2
  <2>4. Knows(Pending(r), hub[r], hub[0], snapshot.requested)
    BY <1>3, <2>3
  <2>5. Told(Pending(r), hub'[r], hub'[0])
    BY <2>3, <2>4 DEF Told
  <2>6. SnapshotsAhead(Pending(r), hub'[r].due, hub'[r].answered, snapshot.requested)
    <3>1. CASE q = r
      <4>1. Pending(r) \in Seq(Control)
        BY <1>5, PendingTyped DEF IInv, TypeOK, ControlInv
      <4>2. \A i \in DOMAIN Pending(r) : Pending(r)[i].kind = "SNAPSHOT" => 0 <= Pending(r)[i].value
        <5>1. \A i \in DOMAIN Pending(r) : Pending(r)[i] \in Control
          BY <4>1
        <5> QED
          BY <5>1 DEF Control
      <4> QED
        BY <2>1, <2>4, <3>1, <4>2 DEF SnapshotsAhead
    <3>2. CASE q # r
      <4>1. hub'[r] = hub[r]
        BY <1>5, <2>1, <3>2
      <4> QED
        BY <2>4, <4>1
    <3> QED
      BY <3>1, <3>2
  <2> QED
    BY <2>1, <2>2, <2>5, <2>6
<1>11. ASSUME NEW q \in Rank, Shutdown(q)
       PROVE  Knows(Pending(r)', hub'[r], hub'[0], snapshot'.requested)
  <2>1. /\ \A p \in Rank : p # q => hub'[p] = hub[p]
        /\ ~hub'[q].running
        /\ hub'[q].paused = hub[q].paused /\ hub'[q].interval = hub[q].interval
        /\ UNCHANGED <<control, fanout, server, snapshot>>
    BY <1>1, <1>11, ShutDown
  <2>2. q # r /\ hub'[r] = hub[r]
    BY <1>4, <1>5, <2>1
  <2>3. hub'[0].paused = hub[0].paused /\ hub'[0].interval = hub[0].interval
    BY <1>2, <2>1
  <2>4. Pending(r)' = Pending(r)
    BY <2>1 DEF Pending, Passing
  <2> QED
    BY <1>4, <1>6, <2>1, <2>2, <2>3, <2>4
<1>12. ASSUME NEW m \in Control, hub'[r] = hub[r], server.at = "drain", control' = control,
              \/ fanout' = fanout /\ server'.at = "push" /\ server'.msg = m
              \/ fanout' = Append(fanout, m) /\ server' = server,
              hub'[0].paused = IF m.kind \in {"PAUSE", "RESUME"} THEN m.kind = "PAUSE"
                               ELSE hub[0].paused,
              hub'[0].interval = IF m.kind = "SET_INTERVAL_MS" THEN m.value ELSE hub[0].interval,
              snapshot'.requested \in Nat, snapshot.requested <= snapshot'.requested,
              m.kind = "SNAPSHOT" => m.value = snapshot'.requested
       PROVE  Knows(Pending(r)', hub'[r], hub'[0], snapshot'.requested)
  <2>1. Pending(r) \in Seq(Control) /\ Pending(r)' = Append(Pending(r), m)
    BY <1>5, <1>12, PendingSent
  <2>2. Knows(Pending(r), hub[r], hub[0], snapshot.requested)
    BY <1>3, <1>4, <1>12
  <2>3. Told(Append(Pending(r), m), hub[r], hub'[0])
    BY <1>12, <2>1, <2>2, ToldSent
  <2>4. /\ hub[r].due \in Nat /\ hub[r].answered \in Nat
        /\ hub[r].due <= snapshot.requested /\ hub[r].answered <= snapshot.requested
    BY <1>1, <1>5 DEF IInv, ControlInv, Hub
  <2>5. SnapshotsAhead(Append(Pending(r), m), hub[r].due, hub[r].answered, snapshot'.requested)
    BY <1>1, <1>12, <2>1, <2>2, <2>4, AheadSent
  <2> QED
    BY <1>12, <2>1, <2>3, <2>5
<1>13. CASE ClientSnapshot
  <2> DEFINE id == snapshot.requested + 1
             m == [kind |-> "SNAPSHOT", value |-> id]
  <2>1. /\ m \in Control /\ snapshot'.requested = id
        /\ hub'[0].paused = hub[0].paused /\ hub'[0].interval = hub[0].interval
        /\ fanout' = Append(fanout, m) /\ server.at = "drain"
        /\ UNCHANGED <<control, server>>
    BY <1>1, <1>13, SnapshotAsked
  <2>2. hub'[r] = hub[r]
    BY <1>1, <1>5, <1>13, Asked
  <2>3. id \in Nat /\ snapshot.requested <= id /\ m.kind = "SNAPSHOT" /\ m.value = id
    BY <1>1
  <2> HIDE DEF id, m
  <2> QED
    BY <1>12, <2>1, <2>2, <2>3
<1>14. ASSUME NEW line \in Line, ClientControl(parse_control_line(line))
       PROVE  Knows(Pending(r)', hub'[r], hub'[0], snapshot'.requested)
  <2> DEFINE m == parse_control_line(line)
  <2>1. /\ m \in Control /\ m.kind # "SNAPSHOT"
        /\ hub'[0].paused = IF m.kind \in {"PAUSE", "RESUME"} THEN m.kind = "PAUSE"
                            ELSE hub[0].paused
        /\ hub'[0].interval = IF m.kind = "SET_INTERVAL_MS" THEN m.value ELSE hub[0].interval
        /\ server.at = "drain" /\ server'.at = "push" /\ server'.msg = m
        /\ UNCHANGED <<control, fanout, snapshot>>
    BY <1>1, <1>14, Command
  <2>2. hub'[r] = hub[r]
    BY <1>1, <1>5, <1>14, Asked
  <2> HIDE DEF m
  <2>3. snapshot'.requested \in Nat /\ snapshot.requested <= snapshot'.requested
    BY <1>1, <2>1
  <2> QED
    BY <1>12, <2>1, <2>2, <2>3
<1> QED
  BY <1>7, <1>8, <1>9, <1>10, <1>11, <1>13, <1>14, Steps

-----------------------------------------------------------------------------
(* The latest frames and the line under construction *)

\* What becomes of the latest frame of a rank, unless it is the rank's final one.
LEMMA LatestNext ==
    IInv /\ Next => \A r \in Rank : latest[r] # None =>
                      latest'[r] # None /\ (NotNewer(latest[r], latest'[r]) \/ latest[r].final)
<1> SUFFICES ASSUME IInv, Next, NEW q \in Rank, latest[q] # None
             PROVE  latest'[q] # None /\ (NotNewer(latest[q], latest'[q]) \/ latest[q].final)
  OBVIOUS
<1>1. /\ hub \in [Rank -> Hub] /\ wire \in Wires /\ latest \in [Rank -> Frame \cup {None}]
  BY DEF IInv, TypeOK, Wires
<1>2. \A r \in Rank : /\ wire[r]["regular"] \in Seq(Frame) /\ wire[r]["final"] \in Seq(Frame)
                      /\ hub[r] \in Hub
                      /\ FramesOrdered(wire[r]["regular"], wire[r]["final"], latest[r], hub[r])
  BY <1>1 DEF Wires, IInv, FrameInv, Tag
<1>3. CASE latest'[q] = latest[q]
  <2>1. latest[q] \in Frame
    BY <1>1
  <2> QED
    BY <1>3, <2>1 DEF NotNewer, Frame
<1>4. ASSUME NEW r \in Rank, NEW t \in Tag, wire[r][t] # <<>>,
             latest' = [latest EXCEPT ![r] = Head(wire[r][t])]
      PROVE  latest'[q] # None /\ (NotNewer(latest[q], latest'[q]) \/ latest[q].final)
  <2>1. CASE q # r
    BY <1>1, <1>3, <1>4, <2>1
  <2>2. CASE q = r
    <3>1. latest'[r] = Head(wire[r][t]) /\ Head(wire[r][t]) \in Frame
      BY <1>1, <1>4 DEF Wires
    <3>2. latest'[q] # None
      BY <2>2, <3>1, NoneAssumption
    <3>3. CASE t = "regular"
      <4>1. NotNewer(latest[r], Head(wire[r]["regular"])) \/ latest[r].final
        BY <1>2, <1>4, <2>2, <3>3, RegularTaken
      <4> QED
        BY <2>2, <3>1, <3>2, <3>3, <4>1
    <3>4. CASE t = "final"
      <4>1. NotNewer(latest[r], Head(wire[r]["final"]))
        BY <1>2, <1>4, <2>2, <3>4, FinalReceived
      <4> QED
        BY <2>2, <3>1, <3>2, <3>4, <4>1
    <3> QED
      BY <3>3, <3>4 DEF Tag
  <2> QED
    BY <2>1, <2>2
<1>5. ASSUME NEW r \in Rank, ReceiveFrame(r)
      PROVE  latest'[q] # None /\ (NotNewer(latest[q], latest'[q]) \/ latest[q].final)
  BY <1>4, <1>5 DEF ReceiveFrame
<1>6. CASE ReceiveSlot
  <2>1. /\ hub[0].at \in Tag /\ wire[0][hub[0].at] # <<>> /\ 0 \in Rank
        /\ latest' = [latest EXCEPT ![0] = wire[0][hub[0].at][1]]
    BY <1>6, Ranks DEF ReceiveSlot
  <2>2. wire[0][hub[0].at] \in Seq(Frame)
    BY <1>1, <2>1 DEF Wires
  <2>3. wire[0][hub[0].at][1] = Head(wire[0][hub[0].at])
    BY <2>1, <2>2
  <2> QED
    BY <1>4, <2>1, <2>3
<1>7. (\E r \in Rank : Move(r)) => latest' = latest
  BY DEF Move, NotDue, Reset, Fanout, ProbeFailed, CheckFinals, Stop, Join, CloseClients
<1>8. (\E r \in Rank : try_recv_control(r) \/ Emit(r) \/ Shutdown(r)) => latest' = latest
  BY DEF try_recv_control, Emit, Shutdown
<1>9. ClientSnapshot \/ (\E line \in Line : ClientControl(parse_control_line(line))) => latest' = latest
  BY DEF ClientSnapshot, ClientControl
<1>10. FlushFinal \/ (\E c \in Client : Accept(c) \/ Disconnect(c)) => latest' = latest
  BY DEF FlushFinal, Accept, Disconnect
<1>11. BroadcastThread => latest' = latest
  BY DEF BroadcastThread, StopSeen, Push, StartLine, ReadFrame, Deliver
<1>12. ClientSnapshotTooSoon \/ SnapshotExpires \/ FinalWaitExpires \/ FlushExpires \/ Finished
          => latest' = latest
  BY DEF ClientSnapshotTooSoon, SnapshotExpires, FinalWaitExpires, FlushExpires, Finished, vars
<1>13. CASE Quiet
  BY <1>3, <1>5, <1>6, <1>10, <1>11, <1>12, <1>13 DEF Quiet
<1> QED
  BY <1>3, <1>7, <1>8, <1>9, <1>13, Steps

\* No rank runs again.
LEMMA NoneRunsAgain == IInv /\ Next => \A r \in Rank : hub'[r].running => hub[r].running
<1> SUFFICES ASSUME IInv, Next, NEW q \in Rank, hub'[q].running PROVE hub[q].running
  OBVIOUS
<1>1. /\ hub \in [Rank -> Hub] /\ wire \in Wires /\ RunningInv
      /\ control \in [Rank -> Seq(Control)] /\ snapshot.requested \in Nat
  BY DEF IInv, TypeOK, Wires
<1>2. CASE Quiet
  BY <1>2, Quietly
<1>3. ASSUME NEW r \in Rank, Move(r) PROVE hub[q].running
  BY <1>1, <1>3, Moving DEF SameHub
<1>4. ASSUME NEW r \in Rank, try_recv_control(r) PROVE hub[q].running
  <2>1. hub[r].running /\ \A p \in Rank : p # r => hub'[p] = hub[p]
    BY <1>1, <1>4, Listened
  <2> QED
    BY <2>1
<1>5. ASSUME NEW r \in Rank, Emit(r) \/ Shutdown(r) PROVE hub[q].running
  <2>1. hub[r].running /\ \A p \in Rank : p # r => hub'[p] = hub[p]
    BY <1>1, <1>5, Emitted, ShutDown
  <2> QED
    BY <2>1
<1>6. CASE ClientSnapshot \/ \E line \in Line : ClientControl(parse_control_line(line))
  BY <1>1, <1>6, Asked
<1> QED
  BY <1>2, <1>3, <1>4, <1>5, <1>6, Steps

\* A rank's frame in the line s builds from the latest frames l is one of its snapshot.
Shown(s, l, r) ==
    LET f == IF r \in s.left THEN l[r] ELSE s.line.frames[r]
    IN  f # None /\ f.id >= s.line.snapshot

\* Every step keeps the frames of a line that announces a snapshot recent enough.
LEMMA LineNext == IInv /\ Next => LineInv'
<1> SUFFICES ASSUME IInv, Next PROVE LineInv'
  OBVIOUS
<1>1. /\ hub \in [Rank -> Hub] /\ latest \in [Rank -> Frame \cup {None}] /\ server \in Server
      /\ snapshot \in [requested : Nat, expired : BOOLEAN] /\ lines \in Nat
      /\ server.at = "build" => server.line \in BroadcastLine
      /\ server.at = "flush" => server.left = {}
      /\ server.line # None /\ server.line.snapshot # 0 =>
           \A r \in Live : hub[r].running => Shown(server, latest, r)
      /\ FrameInv
  BY DEF IInv, TypeOK, LineInv, Shown
<1>2. mode' = mode /\ Live' = Live /\ latest' \in [Rank -> Frame \cup {None}]
  BY FramesTyped DEF Live
<1>3. \A r \in Rank : hub'[r].running => hub[r].running
  BY NoneRunsAgain
<1> DEFINE Right == /\ server'.at = "build" => server'.line \in BroadcastLine
                    /\ server'.at = "flush" => server'.left = {}
                    /\ server'.line # None /\ server'.line.snapshot # 0 =>
                         \A r \in Live : hub'[r].running => Shown(server', latest', r)
<1>4. SUFFICES Right
  BY <1>2, <1>4 DEF LineInv, Shown
\* The frames of the ranks that run only become newer.
<1>5. ASSUME server'.line = server.line, server'.left = server.left,
             server'.at = "build" => server.at = "build",
             server'.at = "flush" => server.at = "flush"
      PROVE  Right
  <2> SUFFICES ASSUME server.line # None, server.line.snapshot # 0, NEW r \in Live, hub'[r].running
               PROVE  Shown(server', latest', r)
    BY <1>1, <1>5
  <2>1. r \in Rank /\ hub[r].running /\ Shown(server, latest, r)
    BY <1>1, <1>3, Ranks
  <2>2. CASE r \notin server.left
    BY <1>5, <2>1, <2>2 DEF Shown
  <2>3. CASE r \in server.left
    <3>1. latest[r] # None /\ latest[r].id >= server.line.snapshot
      BY <2>1, <2>3 DEF Shown
    <3>2. ~latest[r].final
      BY <1>1, <2>1, <3>1 DEF FrameInv, FramesOrdered
    <3>3. latest'[r] # None /\ NotNewer(latest[r], latest'[r])
      BY <2>1, <3>1, <3>2, LatestNext
    <3>4. latest[r].id \in Nat /\ latest'[r].id \in Nat /\ server.line.snapshot \in Nat
      BY <1>1, <1>2, <2>1, <3>1, <3>3 DEF Frame, Server, BroadcastLine
    <3>5. latest'[r].id >= server.line.snapshot
      BY <3>1, <3>3, <3>4 DEF NotNewer
    <3> QED
      BY <1>5, <2>3, <3>3, <3>5 DEF Shown
  <2> QED
    BY <2>2, <2>3
<1>6. CASE server' = server
  BY <1>5, <1>6
<1>7. CASE StartLine
  <2> DEFINE with_frames == snapshot_ready \/ ~hub[0].paused
             no == IF snapshot_ready /\ ~snapshot.expired THEN snapshot.requested ELSE 0
             line == [no |-> lines + 1, frames |-> [r \in Rank |-> None], snapshot |-> no]
             at == IF with_frames THEN "build" ELSE "flush"
             broadcast == IF snapshot_ready THEN snapshot.requested ELSE server.broadcast
             left == IF with_frames THEN Live ELSE {}
  <2>1. /\ server' = [server EXCEPT !.at = at, !.broadcast = broadcast, !.line = line, !.left = left]
        /\ latest' = latest
    BY <1>7 DEF StartLine
  <2>2. line \in BroadcastLine /\ line.snapshot = no
    BY <1>1 DEF BroadcastLine
  <2> HIDE DEF line, broadcast
  <2>3. server'.at = at /\ server'.line = line /\ server'.left = left
    <3> HIDE DEF at, left
    <3> QED
      BY <1>1, <2>1 DEF Server
  <2>4. ASSUME no # 0, NEW r \in Live PROVE Shown(server', latest', r)
    <3>1. /\ no = snapshot.requested /\ left = Live /\ ~snapshot.expired /\ ~snapshot_outstanding
      BY <2>4 DEF snapshot_ready
    <3>2. latest[r] # None /\ ~(latest[r].id < snapshot.requested) /\ r \in Rank
      BY <2>4, <3>1, Ranks DEF snapshot_outstanding
    <3>3. latest[r].id \in Nat /\ snapshot.requested \in Nat
      BY <1>1, <3>2 DEF Frame
    <3>4. latest[r].id >= no
      BY <3>1, <3>2, <3>3
    <3> HIDE DEF no
    <3> QED
      BY <2>1, <2>2, <2>3, <3>1, <3>2, <3>4 DEF Shown
  <2> QED
    BY <2>2, <2>3, <2>4
<1>8. CASE ReadFrame
  <2>1. PICK p \in server.left :
          server' = [server EXCEPT !.line.frames[p] = latest[p], !.left = @ \ {p},
                                   !.at = IF server.left = {p} THEN "flush" ELSE "build"]
    BY <1>8 DEF ReadFrame
  <2>2. server.at = "build" /\ latest' = latest
    BY <1>8 DEF ReadFrame
  <2>3. server.line \in BroadcastLine /\ p \in Rank
    BY <1>1, <2>2 DEF Server
  <2> DEFINE line == [server.line EXCEPT !.frames[p] = latest[p]]
             at == IF server.left = {p} THEN "flush" ELSE "build"
  <2>4. /\ line \in BroadcastLine /\ line.snapshot = server.line.snapshot
        /\ line.frames[p] = latest[p]
        /\ \A r \in Rank : r # p => line.frames[r] = server.line.frames[r]
    BY <1>1, <2>3 DEF BroadcastLine
  <2>5. server' = [server EXCEPT !.line = line, !.left = @ \ {p}, !.at = at]
    BY <2>1
  <2> HIDE DEF line, at
  <2>6. server'.line = line /\ server'.left = server.left \ {p} /\ server'.at = at
    BY <1>1, <2>5 DEF Server
  <2>7. server'.at = "flush" => server'.left = {}
    BY <2>6 DEF at
  <2>8. server.line # None
    BY <2>3, NoneAssumption
  <2>9. ASSUME line.snapshot # 0, NEW r \in Live, hub'[r].running
        PROVE  Shown(server', latest', r)
    <3>1. r \in Rank /\ Shown(server, latest, r)
      BY <1>1, <1>3, <2>4, <2>8, <2>9, Ranks
    <3>2. CASE r = p
      <4>1. latest[p] # None /\ latest[p].id >= line.snapshot
        BY <2>4, <3>1, <3>2 DEF Shown
      <4> QED
        BY <2>4, <2>6, <3>2, <4>1 DEF Shown
    <3>3. CASE r # p
      BY <2>2, <2>4, <2>6, <3>1, <3>3 DEF Shown
    <3> QED
      BY <3>2, <3>3
  <2> QED
    BY <2>4, <2>6, <2>7, <2>9
<1>9. CASE Deliver
  <2>1. server'.line = None /\ server'.at \in {"drain", "ended"}
    BY <1>1, <1>9 DEF Deliver, Server
  <2> QED
    BY <2>1
<1>10. CASE StopSeen
  BY <1>1, <1>5, <1>10 DEF StopSeen, Server
<1>11. CASE Push
  BY <1>1, <1>5, <1>11 DEF Push, Server
<1>12. CASE Stop
  BY <1>1, <1>5, <1>12 DEF Stop, Server
<1>13. ASSUME NEW line \in Line, ClientControl(parse_control_line(line)) PROVE Right
  BY <1>1, <1>5, <1>13 DEF ClientControl, Server
<1>14. ClientSnapshot \/ (\E r \in Rank : Emit(r) \/ Shutdown(r) \/ NotDue(r) \/ Reset(r) \/ try_recv_control(r))
         => server' = server
  BY DEF ClientSnapshot, Emit, Shutdown, NotDue, Reset, try_recv_control
<1>15. Fanout \/ ProbeFailed \/ CheckFinals \/ Join \/ CloseClients => server' = server
  BY DEF Fanout, ProbeFailed, CheckFinals, Join, CloseClients
<1>16. ReceiveSlot \/ (\E r \in Rank : ReceiveFrame(r)) => server' = server
  BY DEF ReceiveSlot, ReceiveFrame
<1>17. FlushFinal \/ (\E c \in Client : Accept(c) \/ Disconnect(c)) => server' = server
  BY DEF FlushFinal, Accept, Disconnect
<1>18. ClientSnapshotTooSoon \/ SnapshotExpires \/ FinalWaitExpires \/ FlushExpires \/ Finished
          => server' = server
  BY DEF ClientSnapshotTooSoon, SnapshotExpires, FinalWaitExpires, FlushExpires, Finished, vars
<1>19. CASE Quiet
  BY <1>6, <1>7, <1>8, <1>9, <1>10, <1>11, <1>16, <1>17, <1>18, <1>19 DEF Quiet, BroadcastThread
<1>20. CASE \E r \in Rank : Move(r)
  BY <1>6, <1>12, <1>14, <1>15, <1>20 DEF Move
<1> QED
  BY <1>6, <1>13, <1>14, <1>19, <1>20, Steps

-----------------------------------------------------------------------------
(* Outboxes *)

\* Counting in lines of p parts.
LEMMA Quotients ==
    ASSUME NEW p \in Nat, p > 0, NEW x \in Nat
    PROVE  /\ x \div p \in Nat /\ x % p \in 0 .. p - 1
           /\ x < p => x \div p = 0 /\ x % p = x
           /\ (x % p) + 1 = p => (x + 1) \div p = (x \div p) + 1 /\ (x + 1) % p = 0
           /\ (x % p) + 1 # p => (x + 1) \div p = x \div p /\ (x + 1) % p = (x % p) + 1
<1>1. x \div p \in Nat
  OBVIOUS
<1>2. x % p \in 0 .. p - 1
  OBVIOUS
<1>3. x < p => x \div p = 0 /\ x % p = x
  OBVIOUS
<1>4. /\ (x % p) + 1 = p => (x + 1) \div p = (x \div p) + 1 /\ (x + 1) % p = 0
      /\ (x % p) + 1 # p => (x + 1) \div p = x \div p /\ (x + 1) % p = (x % p) + 1
  OBVIOUS
<1> QED
  BY <1>1, <1>2, <1>3, <1>4

\* n lines have p parts each.
LEMMA QuotientBound ==
    ASSUME NEW p \in Nat, p > 0, NEW n \in Nat, NEW x \in Nat, x <= p * n
    PROVE  /\ x \div p <= n /\ (x \div p = n => x % p = 0)
           /\ x < p * n => x \div p < n
OBVIOUS

\* Parts that end the first line.
LEMMA FirstLine ==
    ASSUME NEW p \in Nat, p > 0, NEW x \in Nat
    PROVE  x < p \/ x \div p >= 1
OBVIOUS

\* The line and the part of it that the i-th send takes, when w parts of the first were sent.
Row(w, i) == ((w + i - 1) \div LineParts) + 1
Col(w, i) == ((w + i - 1) % LineParts) + 1

\* Sends go from part to part and from line to line; k of them leave n of m lines and v parts
\* of the next behind them.
Walk(m, w, k, n, v) ==
    /\ \A i \in 1 .. k : Row(w, i) \in 1 .. m /\ Col(w, i) \in 1 .. LineParts
    /\ Row(w, 1) = 1 /\ Col(w, 1) = w + 1
    /\ \A i \in 1 .. k :
         /\ Col(w, i) = LineParts => Row(w, i + 1) = Row(w, i) + 1 /\ Col(w, i + 1) = 1
         /\ Col(w, i) # LineParts => Row(w, i + 1) = Row(w, i) /\ Col(w, i + 1) = Col(w, i) + 1
    /\ n = Row(w, k + 1) - 1 /\ v = Col(w, k + 1) - 1
    /\ n \in 0 .. m /\ v \in 0 .. LineParts - 1

\* As long as there are lines to send.
LEMMA RowsCols ==
    ASSUME NEW n \in Nat, NEW w \in 0 .. LineParts - 1, NEW k \in 0 .. (LineParts * n - w)
    PROVE  Walk(n, w, k, (w + k) \div LineParts, (w + k) % LineParts)
<1>0. LineParts \in Nat /\ LineParts > 0 /\ w \in Nat /\ k \in Nat /\ w + k <= LineParts * n
  BY OutboxAssumption
<1>1. ASSUME NEW i \in 1 .. k PROVE w + i - 1 \in Nat /\ w + i - 1 < LineParts * n
  BY <1>0
<1>2. ASSUME NEW i \in 1 .. k PROVE Row(w, i) \in 1 .. n /\ Col(w, i) \in 1 .. LineParts
  <2> DEFINE x == w + i - 1
  <2>1. x \in Nat /\ x < LineParts * n
    BY <1>1
  <2>2. Row(w, i) = (x \div LineParts) + 1 /\ Col(w, i) = (x % LineParts) + 1
    BY DEF Row, Col
  <2> HIDE DEF x
  <2>3. x \div LineParts \in Nat /\ x \div LineParts < n /\ x % LineParts \in 0 .. LineParts - 1
    BY <1>0, <2>1, Quotients, QuotientBound
  <2> QED
    BY <1>0, <2>2, <2>3
<1>3. Row(w, 1) = 1 /\ Col(w, 1) = w + 1
  <2>1. w + 1 - 1 = w /\ w < LineParts
    BY <1>0
  <2>2. w \div LineParts = 0 /\ w % LineParts = w
    BY <1>0, <2>1, Quotients
  <2> QED
    BY <2>1, <2>2 DEF Row, Col
<1>4. ASSUME NEW i \in 1 .. k
      PROVE  /\ Col(w, i) = LineParts => Row(w, i + 1) = Row(w, i) + 1 /\ Col(w, i + 1) = 1
             /\ Col(w, i) # LineParts => Row(w, i + 1) = Row(w, i) /\ Col(w, i + 1) = Col(w, i) + 1
  <2> DEFINE x == w + i - 1
  <2>1. x \in Nat /\ w + (i + 1) - 1 = x + 1
    BY <1>0
  <2>2. /\ Row(w, i) = (x \div LineParts) + 1 /\ Col(w, i) = (x % LineParts) + 1
        /\ Row(w, i + 1) = ((x + 1) \div LineParts) + 1 /\ Col(w, i + 1) = ((x + 1) % LineParts) + 1
    BY <2>1 DEF Row, Col
  <2> HIDE DEF x
  <2>3. /\ (x % LineParts) + 1 = LineParts => (x + 1) \div LineParts = (x \div LineParts) + 1 /\ (x + 1) % LineParts = 0
        /\ (x % LineParts) + 1 # LineParts => (x + 1) \div LineParts = x \div LineParts /\ (x + 1) % LineParts = (x % LineParts) + 1
        /\ x \div LineParts \in Nat /\ x % LineParts \in 0 .. LineParts - 1
    BY <1>0, <2>1, Quotients
  <2> QED
    BY <2>2, <2>3
<1>5. /\ (w + k) \div LineParts \in 0 .. n /\ (w + k) % LineParts \in 0 .. LineParts - 1
  <2>1. w + k \in Nat
    BY <1>0
  <2> QED
    BY <1>0, <2>1, Quotients, QuotientBound
<1>6. (w + k) \div LineParts = Row(w, k + 1) - 1 /\ (w + k) % LineParts = Col(w, k + 1) - 1
  <2>1. w + (k + 1) - 1 = w + k
    BY <1>0
  <2> QED
    BY <1>5, <2>1 DEF Row, Col
<1> QED
  BY <1>2, <1>3, <1>4, <1>5, <1>6 DEF Walk

\* r is what is left of the outbox q when its first n lines have gone.
Remains(r, q, n) ==
    /\ r \in Seq(Nat) /\ Len(r) = Len(q) - n /\ Rising(r)
    /\ n < Len(q) => r # <<>> /\ r[1] = q[n + 1] /\ r[Len(r)] = q[Len(q)]
    /\ n = Len(q) => r = <<>>

\* It is a piece of the queue.
LEMMA RestOf ==
    ASSUME NEW q \in Seq(Nat), Rising(q), NEW n \in 0 .. Len(q)
    PROVE  Remains(SubSeq(q, n + 1, Len(q)), q, n)
<1> DEFINE r == SubSeq(q, n + 1, Len(q))
<1>1. Len(q) \in Nat /\ n \in Nat /\ DOMAIN q = 1 .. Len(q)
  OBVIOUS
<1>2. r \in Seq(Nat) /\ Len(r) = Len(q) - n /\ DOMAIN r = 1 .. (Len(q) - n)
  OBVIOUS
<1>3. ASSUME NEW i \in 1 .. (Len(q) - n) PROVE r[i] = q[i + n]
  OBVIOUS
<1> HIDE DEF r
<1>4. Rising(r)
  <2>1. ASSUME NEW i \in 1 .. (Len(q) - n), NEW j \in 1 .. (Len(q) - n), i < j PROVE r[i] < r[j]
    <3>1. i + n \in DOMAIN q /\ j + n \in DOMAIN q /\ i + n < j + n
      BY <1>1, <2>1
    <3> QED
      BY <1>3, <3>1 DEF Rising
  <2> QED
    BY <1>2, <2>1 DEF Rising
<1>5. n < Len(q) => r # <<>> /\ r[1] = q[n + 1] /\ r[Len(r)] = q[Len(q)]
  <2>1. ASSUME n < Len(q) PROVE 1 \in 1 .. (Len(q) - n) /\ Len(q) - n \in 1 .. (Len(q) - n) /\ (Len(q) - n) + n = Len(q) /\ 1 + n = n + 1
    BY <1>1, <2>1
  <2>2. ASSUME r = <<>> PROVE ~(n < Len(q))
    <3>1. Len(r) = 0
      BY <2>2, EmptySeq
    <3>2. Len(q) - n = 0
      BY <1>2, <3>1
    <3> QED
      BY <1>1, <3>2
  <2>3. n < Len(q) => r[1] = q[1 + n] /\ r[Len(q) - n] = q[(Len(q) - n) + n]
    BY <1>3, <2>1
  <2> QED
    BY <1>2, <2>1, <2>2, <2>3
<1>6. n = Len(q) => r = <<>>
  BY <1>1, <1>2
<1> QED
  BY <1>2, <1>4, <1>5, <1>6 DEF Remains, r

\* A stream of the part g and k more, p.
Joined(stream, g, p, k) ==
    stream[1] = g /\ (\A i \in 1 .. k : stream[i + 1] = p[i]) /\ Last(stream) = stream[k + 1]

\* It is their concatenation.
LEMMA Parts ==
    ASSUME NEW S, NEW g \in S, NEW k \in Nat, NEW p \in [1 .. k -> S]
    PROVE  Joined(<<g>> \o p, g, p, k)
<1> DEFINE stream == <<g>> \o p
<1>1. p \in Seq(S)
  OBVIOUS
<1>2. Len(p) = k
  BY <1>1
<1>3. <<g>> \in Seq(S) /\ Len(<<g>>) = 1
  OBVIOUS
<1>4. Len(stream) = k + 1 /\ stream[1] = g /\ \A i \in 1 .. k : stream[i + 1] = p[i]
  BY <1>1, <1>2, <1>3
<1> HIDE DEF stream
<1>5. Last(stream) = stream[k + 1]
  BY <1>4 DEF Last
<1> QED
  BY <1>4, <1>5 DEF Joined, stream

\* The part that follows another, in the same line or at the start of the next.
LEMMA FollowsNext ==
    ASSUME NEW q \in Seq(Nat), Rising(q), NEW r \in 1 .. Len(q), NEW c \in 1 .. LineParts,
           NEW r2 \in 1 .. Len(q), NEW c2 \in Nat,
           c = LineParts => r2 = r + 1 /\ c2 = 1,
           c # LineParts => r2 = r /\ c2 = c + 1
    PROVE  Follows(<<q[r], c>>, <<q[r2], c2>>)
<1>1. CASE c = LineParts
  <2>1. r < r2 /\ r \in DOMAIN q /\ r2 \in DOMAIN q
    BY <1>1
  <2>2. q[r] < q[r2]
    BY <2>1 DEF Rising
  <2> QED
    BY <1>1, <2>2 DEF Follows
<1>2. CASE c # LineParts
  BY <1>2 DEF Follows
<1> QED
  BY <1>1, <1>2

\* The first part that follows what a client has.
LEMMA FollowsFirst ==
    ASSUME NEW q, NEW w \in 0 .. LineParts - 1, NEW g,
           w > 0 => g = <<q[1], w>>,
           w = 0 => g[2] = LineParts /\ g[1] < q[1]
    PROVE  Follows(g, <<q[1], w + 1>>)
<1>0. LineParts \in Nat /\ w \in Nat
  BY OutboxAssumption
<1>1. CASE w > 0
  <2>1. g = <<q[1], w>> /\ w # LineParts
    BY <1>0, <1>1
  <2> QED
    BY <2>1 DEF Follows
<1>2. CASE w = 0
  BY <1>2 DEF Follows
<1> QED
  BY <1>0, <1>1, <1>2

\* Below m, or m.
LEMMA UpTo == ASSUME NEW m \in Nat, NEW n \in 0 .. m PROVE n \in Nat /\ (n < m \/ n = m)
OBVIOUS

\* Where an outbox q stands that goes on after the part got, when w parts of its first line
\* have gone.
Ahead(q, w, got, pushed) ==
    /\ got \in Nat \X (1 .. LineParts)
    /\ w > 0 => q # <<>> /\ got = <<q[1], w>>
    /\ w = 0 => got[2] = LineParts /\ (q # <<>> => got[1] < q[1])
    /\ pushed = IF q = <<>> THEN got[1] ELSE q[Len(q)]
    /\ Len(q) <= OutboxLines + (IF w > 0 THEN 1 ELSE 0)

\* What is left goes on after the last part sent: n whole lines and v parts of the next.
LEMMA AheadOf ==
    ASSUME NEW q \in Seq(Nat), Rising(q), NEW w \in 0 .. LineParts - 1, NEW got, NEW pushed,
           Ahead(q, w, got, pushed),
           NEW n \in 0 .. Len(q), NEW v \in 0 .. LineParts - 1, NEW rest,
           Remains(rest, q, n),
           NEW g,
           \/ n = 0 /\ v = w /\ g = got
           \/ \E r \in 1 .. Len(q), c \in 1 .. LineParts :
                /\ g = <<q[r], c>>
                /\ c = LineParts => n = r /\ v = 0
                /\ c # LineParts => n = r - 1 /\ v = c
    PROVE  Ahead(rest, v, g, pushed)
<1>0. /\ LineParts \in Nat /\ LineParts > 0 /\ OutboxLines \in Nat /\ w \in Nat /\ v \in Nat
      /\ Len(rest) = Len(q) - n
      /\ n < Len(q) => rest # <<>> /\ rest[1] = q[n + 1] /\ rest[Len(rest)] = q[Len(q)]
      /\ n = Len(q) => rest = <<>>
      /\ Len(q) \in Nat /\ n \in Nat /\ DOMAIN q = 1 .. Len(q) /\ \A i \in 1 .. Len(q) : q[i] \in Nat
      /\ n < Len(q) \/ n = Len(q)
  <2>1. LineParts \in Nat /\ LineParts > 0 /\ OutboxLines \in Nat /\ w \in Nat /\ v \in Nat
    BY OutboxAssumption
  <2>2. /\ Len(rest) = Len(q) - n
        /\ n < Len(q) => rest # <<>> /\ rest[1] = q[n + 1] /\ rest[Len(rest)] = q[Len(q)]
        /\ n = Len(q) => rest = <<>>
    BY DEF Remains
  <2>3. Len(q) \in Nat /\ DOMAIN q = 1 .. Len(q) /\ \A i \in 1 .. Len(q) : q[i] \in Nat
    OBVIOUS
  <2>4. n \in Nat /\ (n < Len(q) \/ n = Len(q))
    BY <2>3, UpTo
  <2> QED
    BY <2>1, <2>2, <2>3, <2>4
<1>1. CASE n = 0 /\ v = w /\ g = got
  <2>1. Len(rest) = Len(q)
    BY <1>0, <1>1
  <2>2. CASE q = <<>>
    <3>1. Len(q) = 0
      BY <2>2, EmptySeq
    <3>2. rest = q
      BY <1>0, <1>1, <2>2, <3>1
    <3> QED
      BY <1>1, <3>2
  <2>3. CASE q # <<>>
    <3>1. 0 < Len(q)
      BY <1>0, <2>3, EmptySeq
    <3>2. rest # <<>> /\ rest[1] = q[1] /\ rest[Len(rest)] = q[Len(q)]
      BY <1>0, <1>1, <3>1
    <3> QED
      BY <1>1, <2>1, <2>3, <3>2 DEF Ahead
  <2> QED
    BY <2>2, <2>3
<1>2. ASSUME NEW r \in 1 .. Len(q), NEW c \in 1 .. LineParts, g = <<q[r], c>>,
             c = LineParts => n = r /\ v = 0, c # LineParts => n = r - 1 /\ v = c
      PROVE  Ahead(rest, v, g, pushed)
  <2>1. g \in Nat \X (1 .. LineParts) /\ g[1] = q[r] /\ g[2] = c
    BY <1>0, <1>2
  <2>2. q # <<>> /\ pushed = q[Len(q)] /\ Len(q) <= OutboxLines + 1
    <3>1. q # <<>>
      BY <1>0, EmptySeq
    <3> QED
      BY <1>0, <3>1 DEF Ahead
  <2>3. CASE c = LineParts
    <3>1. n = r /\ v = 0 /\ Len(rest) <= OutboxLines
      BY <1>0, <1>2, <2>2, <2>3
    <3>2. CASE n < Len(q)
      <4>1. r + 1 \in DOMAIN q /\ r \in DOMAIN q /\ r < r + 1
        BY <1>0, <3>1, <3>2
      <4>2. g[1] < rest[1]
        BY <1>0, <2>1, <3>1, <3>2, <4>1 DEF Rising
      <4> QED
        BY <1>0, <2>1, <2>2, <2>3, <3>1, <3>2, <4>2 DEF Ahead
    <3>3. CASE n = Len(q)
      <4>1. rest = <<>> /\ pushed = g[1]
        BY <1>0, <2>1, <2>2, <3>1, <3>3
      <4> QED
        BY <1>0, <2>1, <2>3, <3>1, <4>1 DEF Ahead
    <3> QED
      BY <1>0, <3>2, <3>3
  <2>4. CASE c # LineParts
    <3>1. n = r - 1 /\ v = c /\ v > 0 /\ n < Len(q) /\ n + 1 = r /\ Len(rest) <= OutboxLines + 1
      BY <1>0, <1>2, <2>2, <2>4
    <3>2. rest # <<>> /\ rest[1] = q[r] /\ rest[Len(rest)] = q[Len(q)]
      BY <1>0, <3>1
    <3>3. g = <<rest[1], v>>
      BY <1>2, <3>1, <3>2
    <3> QED
      BY <2>1, <2>2, <3>1, <3>2, <3>3 DEF Ahead
  <2> QED
    BY <2>3, <2>4
<1> QED
  BY <1>1, <1>2

\* A client's record, in those terms.
LEMMA StreamAhead ==
    ASSUME NEW cs, cs.outbox \in Seq(Nat), cs.written \in 0 .. LineParts - 1, cs.pushed \in Nat, ~cs.torn
    PROVE  OutboxOk(cs) /\ Stream(cs)
             <=> Rising(cs.outbox) /\ Ahead(cs.outbox, cs.written, cs.got, cs.pushed)
  BY DEF OutboxOk, Stream, Ahead

\* The stream goes from part to part and ends where n and v say.
InOrder(stream, q, w, got, k, n, v) ==
    /\ \A i \in 1 .. k : Follows(stream[i], stream[i + 1])
    /\ \/ n = 0 /\ v = w /\ Last(stream) = got
       \/ \E r \in 1 .. Len(q), c \in 1 .. LineParts :
            /\ Last(stream) = <<q[r], c>>
            /\ c = LineParts => n = r /\ v = 0
            /\ c # LineParts => n = r - 1 /\ v = c

\* The parts that k sends take, after the last one the client got.
Takes(q, w, got, k) == <<got>> \o [i \in 1 .. k |-> <<q[Row(w, i)], Col(w, i)>>]

\* They follow each other.
LEMMA SentInOrder ==
    ASSUME NEW q \in Seq(Nat), Rising(q), NEW w \in 0 .. LineParts - 1, NEW got, NEW pushed,
           Ahead(q, w, got, pushed), NEW k \in Nat, NEW n, NEW v, Walk(Len(q), w, k, n, v)
    PROVE  InOrder(Takes(q, w, got, k), q, w, got, k, n, v)
<1> DEFINE parts == [i \in 1 .. k |-> <<q[Row(w, i)], Col(w, i)>>]
           stream == Takes(q, w, got, k)
<1>1. /\ \A i \in 1 .. k : Row(w, i) \in 1 .. Len(q) /\ Col(w, i) \in 1 .. LineParts
      /\ Row(w, 1) = 1 /\ Col(w, 1) = w + 1
      /\ \A i \in 1 .. k :
           /\ Col(w, i) = LineParts => Row(w, i + 1) = Row(w, i) + 1 /\ Col(w, i + 1) = 1
           /\ Col(w, i) # LineParts => Row(w, i + 1) = Row(w, i) /\ Col(w, i + 1) = Col(w, i) + 1
      /\ n = Row(w, k + 1) - 1 /\ v = Col(w, k + 1) - 1
  BY DEF Walk
<1>2. /\ w > 0 => got = <<q[1], w>>
      /\ w = 0 => got[2] = LineParts /\ (q # <<>> => got[1] < q[1])
      /\ got \in Nat \X (1 .. LineParts)
  BY DEF Ahead
<1>3. \A i \in 1 .. k : parts[i] = <<q[Row(w, i)], Col(w, i)>>
  OBVIOUS
<1>4. stream[1] = got /\ (\A i \in 1 .. k : stream[i + 1] = parts[i]) /\ Last(stream) = stream[k + 1]
  <2>1. ASSUME NEW i \in 1 .. k PROVE <<q[Row(w, i)], Col(w, i)>> \in Nat \X Nat
    <3>1. Row(w, i) \in 1 .. Len(q) /\ Col(w, i) \in 1 .. LineParts
      BY <1>1
    <3>2. q[Row(w, i)] \in Nat /\ Col(w, i) \in Nat
      BY <3>1, OutboxAssumption
    <3> QED
      BY <3>2
  <2>2. parts \in [1 .. k -> Nat \X Nat]
    BY <2>1
  <2>3. got \in Nat \X Nat
    BY <1>2, OutboxAssumption
  <2>4. stream = <<got>> \o parts
    BY DEF Takes
  <2> HIDE DEF parts, stream
  <2>5. Joined(<<got>> \o parts, got, parts, k)
    BY <2>2, <2>3, Parts
  <2> QED
    BY <2>4, <2>5 DEF Joined
<1> HIDE DEF parts, stream
<1>5. ASSUME NEW i \in 1 .. k PROVE Follows(stream[i], stream[i + 1])
  <2>1. CASE i = 1
    <3>1. stream[i] = got /\ stream[i + 1] = <<q[1], w + 1>>
      BY <1>1, <1>3, <1>4, <2>1
    <3>2. q # <<>>
      BY <1>1, EmptySeq
    <3>3. Follows(got, <<q[1], w + 1>>)
      BY <1>2, <3>2, FollowsFirst
    <3> QED
      BY <3>1, <3>3
  <2>2. CASE i # 1
    <3> DEFINE h == i - 1
    <3>1. h \in 1 .. k /\ h + 1 = i
      BY <2>2
    <3> HIDE DEF h
    <3>2. stream[i] = <<q[Row(w, h)], Col(w, h)>> /\ stream[i + 1] = <<q[Row(w, i)], Col(w, i)>>
      BY <1>3, <1>4, <3>1
    <3>3. /\ Row(w, h) \in 1 .. Len(q) /\ Col(w, h) \in 1 .. LineParts
          /\ Row(w, i) \in 1 .. Len(q) /\ Col(w, i) \in 1 .. LineParts
          /\ Col(w, h) = LineParts => Row(w, i) = Row(w, h) + 1 /\ Col(w, i) = 1
          /\ Col(w, h) # LineParts => Row(w, i) = Row(w, h) /\ Col(w, i) = Col(w, h) + 1
      BY <1>1, <3>1
    <3>4. Col(w, i) \in Nat
      BY <3>3, OutboxAssumption
    <3>5. Follows(<<q[Row(w, h)], Col(w, h)>>, <<q[Row(w, i)], Col(w, i)>>)
      BY <3>3, <3>4, FollowsNext
    <3> QED
      BY <3>2, <3>5
  <2> QED
    BY <2>1, <2>2
<1>6. ASSUME k = 0 PROVE InOrder(stream, q, w, got, k, n, v)
  <2>1. k + 1 = 1 /\ w \in Int
    BY <1>6, OutboxAssumption
  <2>2. n = 0 /\ v = w
    BY <1>1, <2>1
  <2> QED
    BY <1>4, <1>5, <2>1, <2>2 DEF InOrder
<1>7. ASSUME k > 0 PROVE InOrder(stream, q, w, got, k, n, v)
  <2>1. k \in 1 .. k
    BY <1>7
  <2>2. /\ Row(w, k) \in 1 .. Len(q) /\ Col(w, k) \in 1 .. LineParts
        /\ Col(w, k) = LineParts => Row(w, k + 1) = Row(w, k) + 1 /\ Col(w, k + 1) = 1
        /\ Col(w, k) # LineParts => Row(w, k + 1) = Row(w, k) /\ Col(w, k + 1) = Col(w, k) + 1
    BY <1>1, <2>1
  <2>3. Last(stream) = <<q[Row(w, k)], Col(w, k)>>
    BY <1>3, <1>4, <2>1
  <2>4. Row(w, k) \in Int /\ Col(w, k) \in Int
    BY <2>2, OutboxAssumption
  <2>5. /\ Col(w, k) = LineParts => n = Row(w, k) /\ v = 0
        /\ Col(w, k) # LineParts => n = Row(w, k) - 1 /\ v = Col(w, k)
    BY <1>1, <2>2, <2>4
  <2> QED
    BY <1>5, <2>2, <2>3, <2>5 DEF InOrder
<1>8. k = 0 \/ k > 0
  OBVIOUS
<1> QED
  BY <1>6, <1>7, <1>8 DEF stream

\* A flush of what there is: the client gets parts that follow each other, and what is left
\* goes on after them.
LEMMA FlushOk ==
    ASSUME NEW cs, DOMAIN cs = ClientFields, OutboxOk(cs), Stream(cs),
           NEW k \in 0 .. (LineParts * Len(cs.outbox) - cs.written)
    PROVE  /\ flush(cs, k).state = cs.state /\ flush(cs, k).pushed = cs.pushed
           /\ OutboxOk(flush(cs, k)) /\ Stream(flush(cs, k))
<1> DEFINE q == cs.outbox
           w == cs.written
           n == (w + k) \div LineParts
           v == (w + k) % LineParts
           stream == Takes(q, w, cs.got, k)
           rest == SubSeq(q, n + 1, Len(q))
           fs == flush(cs, k)
<1>1. /\ fs.state = cs.state /\ fs.pushed = cs.pushed
      /\ fs.outbox = rest /\ fs.written = v /\ fs.got = Last(stream)
      /\ fs.torn <=> (cs.torn \/ \E i \in 1 .. k : ~Follows(stream[i], stream[i + 1]))
  BY DEF flush, ClientFields, Takes, Row, Col
<1>2. q \in Seq(Nat) /\ w \in 0 .. LineParts - 1 /\ cs.pushed \in Nat /\ ~cs.torn
  BY DEF OutboxOk
<1>3. Rising(q) /\ Ahead(q, w, cs.got, cs.pushed)
  BY <1>2, StreamAhead
<1>4. k \in Nat /\ Len(q) \in Nat /\ k \in 0 .. (LineParts * Len(q) - w)
  BY <1>2
<1>5. Walk(Len(q), w, k, n, v)
  <2>1. \A m \in Nat : Len(q) = m => Walk(m, w, k, n, v)
    BY <1>2, <1>4, RowsCols
  <2> QED
    BY <1>4, <2>1
<1> HIDE DEF q, w, n, v
<1>6. InOrder(stream, q, w, cs.got, k, n, v)
  BY <1>2, <1>3, <1>4, <1>5, SentInOrder
<1>7. n \in 0 .. Len(q) /\ v \in 0 .. LineParts - 1
  BY <1>5 DEF Walk
<1>8. Remains(rest, q, n)
  BY <1>2, <1>3, <1>7, RestOf
<1> HIDE DEF stream, rest
<1>9. /\ \/ n = 0 /\ v = w /\ Last(stream) = cs.got
         \/ \E r \in 1 .. Len(q), c \in 1 .. LineParts :
              /\ Last(stream) = <<q[r], c>>
              /\ c = LineParts => n = r /\ v = 0
              /\ c # LineParts => n = r - 1 /\ v = c
      /\ \A i \in 1 .. k : Follows(stream[i], stream[i + 1])
  BY <1>6 DEF InOrder
<1>10. /\ Ahead(rest, v, Last(stream), cs.pushed)
       /\ rest \in Seq(Nat) /\ Rising(rest)
  BY <1>2, <1>3, <1>7, <1>8, <1>9, AheadOf DEF Remains
<1>11. ~fs.torn
  BY <1>1, <1>2, <1>9
<1>12. OutboxOk(fs) /\ Stream(fs)
  BY <1>1, <1>2, <1>7, <1>10, <1>11, StreamAhead
<1> QED
  BY <1>1, <1>12

\* A line newer than those queued joins the queue: f lines at the front stay, and the last k.
LEMMA QueueKept ==
    ASSUME NEW s \in Seq(Nat), Rising(s), NEW m \in Nat, m = Len(s), NEW f \in {0, 1}, NEW k \in 1 .. m, f + k <= m
    PROVE  LET r == SubSeq(s, 1, f) \o SubSeq(s, m - k + 1, m) IN
           /\ r \in Seq(Nat) /\ Len(r) = f + k /\ Rising(r)
           /\ r[Len(r)] = s[m] /\ (f = 1 => r[1] = s[1]) /\ r[1] >= s[1]
<1> DEFINE a == SubSeq(s, 1, f)
           b == SubSeq(s, m - k + 1, m)
           r == a \o b
<1>0. m \in Nat /\ f \in Nat /\ k \in Nat /\ DOMAIN s = 1 .. m /\ \A i \in 1 .. m : s[i] \in Nat
  OBVIOUS
<1>1. a \in Seq(Nat) /\ Len(a) = f /\ \A i \in 1 .. f : a[i] = s[i]
  BY <1>0
<1>2. b \in Seq(Nat) /\ Len(b) = k /\ \A i \in 1 .. k : b[i] = s[m - k + i]
  <2> DEFINE from == m - k + 1
  <2>1. from \in 1 .. m /\ m - from + 1 = k
    BY <1>0
  <2>2. \A i \in 1 .. k : from + i - 1 = m - k + i
    BY <1>0
  <2> HIDE DEF from
  <2>3. SubSeq(s, from, m) \in Seq(Nat) /\ Len(SubSeq(s, from, m)) = k /\ \A i \in 1 .. k : SubSeq(s, from, m)[i] = s[from + i - 1]
    BY <1>0, <2>1
  <2> QED
    BY <2>2, <2>3 DEF from
<1> HIDE DEF a, b
<1>3. r \in Seq(Nat) /\ Len(r) = f + k
  BY <1>1, <1>2
<1>4. (\A i \in 1 .. f : r[i] = s[i]) /\ \A i \in 1 .. k : r[f + i] = s[m - k + i]
  <2>1. \A i \in 1 .. f : r[i] = a[i]
    BY <1>0, <1>1, <1>2
  <2>2. ASSUME NEW i \in 1 .. k PROVE r[f + i] = b[i]
    <3>1. f + i \in 1 .. Len(a) + Len(b) /\ ~(f + i <= Len(a)) /\ (f + i) - Len(a) = i
      BY <1>0, <1>1, <1>2
    <3>2. \A j \in 1 .. Len(a) + Len(b) : r[j] = IF j <= Len(a) THEN a[j] ELSE b[j - Len(a)]
      BY <1>1, <1>2, ConcatProperties
    <3>3. r[f + i] = b[(f + i) - Len(a)]
      BY <3>1, <3>2
    <3> QED
      BY <3>1, <3>3
  <2> QED
    BY <1>1, <1>2, <2>1, <2>2
<1> HIDE DEF r
<1>5. ASSUME NEW i \in 1 .. f + k
      PROVE  r[i] = s[IF i <= f THEN i ELSE m - k + (i - f)]
  <2>1. CASE i <= f
    BY <1>0, <1>4, <2>1
  <2>2. CASE ~(i <= f)
    <3>1. i - f \in 1 .. k /\ f + (i - f) = i
      BY <1>0, <2>2
    <3>2. r[f + (i - f)] = s[m - k + (i - f)]
      BY <1>4, <3>1
    <3> QED
      BY <2>2, <3>1, <3>2
  <2> QED
    BY <2>1, <2>2
<1> DEFINE at(i) == IF i <= f THEN i ELSE m - k + (i - f)
<1>6. ASSUME NEW i \in 1 .. f + k, NEW j \in 1 .. f + k, i < j PROVE r[i] < r[j]
  <2>1. at(i) \in 1 .. m /\ at(j) \in 1 .. m /\ at(i) < at(j)
    BY <1>0, <1>6
  <2>2. r[i] = s[at(i)] /\ r[j] = s[at(j)]
    BY <1>5
  <2> HIDE DEF at
  <2> QED
    BY <1>0, <2>1, <2>2 DEF Rising
<1>7. Rising(r)
  <2>1. DOMAIN r = 1 .. f + k
    BY <1>3
  <2> QED
    BY <1>6, <2>1 DEF Rising
<1>8. r[Len(r)] = s[m]
  <2>1. k \in 1 .. k /\ m - k + k = m
    BY <1>0
  <2> QED
    BY <1>3, <1>4, <2>1
<1>9. (f = 1 => r[1] = s[1]) /\ r[1] >= s[1]
  <2>1. 1 \in 1 .. f + k /\ at(1) \in 1 .. m /\ 1 \in 1 .. m /\ (f = 1 => at(1) = 1)
    BY <1>0
  <2>2. r[1] = s[at(1)]
    BY <1>5, <2>1
  <2> HIDE DEF at
  <2>3. at(1) = 1 \/ s[1] < s[at(1)]
    BY <1>0, <2>1 DEF Rising
  <2> QED
    BY <1>0, <2>1, <2>2, <2>3
<1> QED
  BY <1>3, <1>7, <1>8, <1>9 DEF r, a, b

\* A new line comes last.
LEMMA Appended ==
    ASSUME NEW q \in Seq(Nat), Rising(q), NEW x \in Nat, q # <<>> => q[Len(q)] < x
    PROVE  /\ Append(q, x) \in Seq(Nat) /\ Len(Append(q, x)) = Len(q) + 1 /\ Rising(Append(q, x))
           /\ Append(q, x)[Len(q) + 1] = x /\ (q # <<>> => Append(q, x)[1] = q[1])
<1> DEFINE s == Append(q, x)
           m == Len(q)
<1>0. m \in Nat /\ DOMAIN q = 1 .. m /\ \A i \in 1 .. m : q[i] \in Nat
  OBVIOUS
<1>1. s \in Seq(Nat) /\ Len(s) = m + 1 /\ s[m + 1] = x /\ \A i \in 1 .. m : s[i] = q[i]
  OBVIOUS
<1>2. q # <<>> => m > 0
  BY <1>0, EmptySeq
<1>3. ASSUME m > 0 PROVE q # <<>> /\ q[m] < x
  <2>1. q # <<>>
    BY <1>3, EmptySeq
  <2> QED
    BY <2>1
<1> HIDE DEF s, m
<1>4. ASSUME NEW i \in 1 .. m + 1, NEW j \in 1 .. m + 1, i < j PROVE s[i] < s[j]
  <2>1. i \in 1 .. m
    BY <1>0, <1>4
  <2>2. CASE j \in 1 .. m
    BY <1>0, <1>1, <1>4, <2>1, <2>2 DEF Rising
  <2>3. CASE j = m + 1
    <3>1. m > 0 /\ m \in 1 .. m /\ (i = m \/ i < m)
      BY <1>0, <2>1
    <3>2. q[m] < x /\ (q[i] = q[m] \/ q[i] < q[m])
      BY <1>0, <1>3, <2>1, <3>1 DEF Rising
    <3>3. q[i] < x
      BY <1>0, <2>1, <3>1, <3>2
    <3> QED
      BY <1>1, <2>1, <2>3, <3>3
  <2> QED
    BY <1>0, <2>2, <2>3
<1>5. Rising(s)
  <2>1. DOMAIN s = 1 .. m + 1
    BY <1>0, <1>1
  <2> QED
    BY <1>4, <2>1 DEF Rising
<1>6. q # <<>> => s[1] = q[1]
  BY <1>0, <1>1, <1>2
<1> QED
  BY <1>1, <1>5, <1>6 DEF s, m

\* A newer line is queued: beyond the capacity the oldest lines go, but for one that has
\* started going out.
LEMMA PushOk ==
    ASSUME NEW cs, DOMAIN cs = ClientFields, OutboxOk(cs), Stream(cs), NEW x \in Nat, cs.pushed < x
    PROVE  /\ DOMAIN push(cs, x) = ClientFields
           /\ push(cs, x).state = cs.state /\ push(cs, x).pushed = x
           /\ OutboxOk(push(cs, x)) /\ Stream(push(cs, x))
<1> DEFINE q == cs.outbox
           w == cs.written
           s == Append(q, x)
           m == Len(s)
           f == IF w > 0 THEN 1 ELSE 0
           k == IF m - f > OutboxLines THEN OutboxLines ELSE m - f
           r == SubSeq(s, 1, f) \o SubSeq(s, m - k + 1, m)
           ps == push(cs, x)
<1>1. /\ DOMAIN ps = ClientFields /\ ps.state = cs.state /\ ps.pushed = x /\ ps.outbox = r
      /\ ps.written = w /\ ps.got = cs.got /\ (ps.torn <=> cs.torn)
  BY DEF push, ClientFields
<1>2. /\ q \in Seq(Nat) /\ w \in 0 .. LineParts - 1 /\ w \in Nat /\ cs.pushed \in Nat /\ ~cs.torn
      /\ OutboxLines \in Nat /\ OutboxLines > 0
  BY OutboxAssumption DEF OutboxOk
<1>3. Rising(q) /\ Ahead(q, w, cs.got, cs.pushed)
  BY <1>2, StreamAhead
<1>4. /\ cs.got \in Nat \X (1 .. LineParts)
      /\ w > 0 => q # <<>> /\ cs.got = <<q[1], w>>
      /\ w = 0 => cs.got[2] = LineParts /\ (q # <<>> => cs.got[1] < q[1])
      /\ cs.pushed = IF q = <<>> THEN cs.got[1] ELSE q[Len(q)]
  BY <1>3 DEF Ahead
<1> HIDE DEF q, w
<1>5. /\ s \in Seq(Nat) /\ m = Len(q) + 1 /\ Rising(s) /\ s[m] = x /\ (q # <<>> => s[1] = q[1])
      /\ Len(q) \in Nat
  <2>1. q # <<>> => q[Len(q)] < x
    BY <1>4
  <2> QED
    BY <1>2, <1>3, <2>1, Appended
<1>6. q = <<>> => Len(q) = 0 /\ s[1] = x
  BY <1>5, EmptySeq
<1>7. q # <<>> => Len(q) > 0
  BY <1>2, <1>5, EmptySeq
<1> HIDE DEF s, m
<1>8. f \in {0, 1} /\ k \in 1 .. m /\ f + k <= m /\ k <= OutboxLines /\ m \in Nat
  <2>1. f \in {0, 1} /\ (f = 1 <=> w > 0)
    BY <1>2
  <2>2. m - f >= 1
    BY <1>2, <1>4, <1>5, <1>7, <2>1
  <2> HIDE DEF f
  <2> QED
    BY <1>2, <1>5, <2>1, <2>2
<1> HIDE DEF k
<1>9. /\ r \in Seq(Nat) /\ Len(r) = f + k /\ Rising(r)
      /\ r[Len(r)] = s[m] /\ (f = 1 => r[1] = s[1]) /\ r[1] >= s[1]
  <2>1. m = Len(s)
    BY DEF m
  <2> HIDE DEF f
  <2> QED
    BY <1>5, <1>8, <2>1, QueueKept
<1> HIDE DEF r
<1>10. r # <<>>
  <2>1. Len(r) # 0
    BY <1>8, <1>9
  <2> QED
    BY <2>1, EmptySeq
<1>11. cs.got[1] < r[1] \/ w > 0
  <2>1. ASSUME w = 0 PROVE cs.got[1] < s[1]
    BY <1>4, <1>5, <1>6, <2>1
  <2>2. s[1] \in Nat /\ r[1] \in Nat /\ cs.got[1] \in Nat
    <3>1. 1 \in 1 .. Len(s) /\ 1 \in 1 .. Len(r)
      BY <1>5, <1>8, <1>9 DEF m
    <3>2. s[1] \in Nat /\ r[1] \in Nat
      BY <1>5, <1>9, <3>1
    <3> QED
      BY <1>4, <3>2
  <2> QED
    BY <1>2, <1>9, <2>1, <2>2
<1>12. Ahead(r, w, cs.got, x)
  <2>1. w > 0 => cs.got = <<r[1], w>>
    BY <1>4, <1>5, <1>9
  <2>2. Len(r) <= OutboxLines + f
    BY <1>2, <1>8, <1>9
  <2>3. r[Len(r)] = x
    BY <1>5, <1>9
  <2> QED
    BY <1>2, <1>4, <1>10, <1>11, <2>1, <2>2, <2>3 DEF Ahead
<1>13. OutboxOk(ps) /\ Stream(ps)
  <2>1. ps.outbox \in Seq(Nat) /\ ps.written \in 0 .. LineParts - 1 /\ ps.pushed \in Nat /\ ~ps.torn
    BY <1>1, <1>2, <1>9
  <2>2. Rising(ps.outbox) /\ Ahead(ps.outbox, ps.written, ps.got, ps.pushed)
    BY <1>1, <1>9, <1>12
  <2> HIDE DEF ps
  <2> QED
    BY <2>1, <2>2, StreamAhead
<1> QED
  BY <1>1, <1>13

\* A socket that takes everything takes some number of parts.
LEMMA Everything ==
    ASSUME NEW p \in Nat, p > 0, NEW m \in Nat, NEW w \in 0 .. p - 1, m = 0 => w = 0
    PROVE  p * m - w \in 0 .. (p * m - w)
<1>1. p * m >= w
  <2>1. CASE m = 0
    BY <2>1
  <2>2. CASE m # 0
    <3>1. PICK h \in Nat : m = h + 1
      BY <2>2
    <3>2. p * m = p * h + p /\ p * h \in Nat
      BY <3>1
    <3> QED
      BY <3>2
  <2> QED
    BY <2>1, <2>2
<1>2. p * m \in Nat
  OBVIOUS
<1> QED
  BY <1>1, <1>2

\* A client whose outbox is in order and to which a line numbered no would be new.
WellQueued(cs, no) == IsClient(cs) /\ OutboxOk(cs) /\ Fresh(no, cs)

\* What the operations on an outbox make of such a client.
LEMMA QueueSteps ==
    ASSUME NEW cs, NEW no \in Nat, WellQueued(cs, no)
    PROVE  /\ WellQueued(cs, no + 1)
           /\ cs.state = "open" => /\ WellQueued(push(cs, no), no + 1) /\ push(cs, no).state = "open"
                                   /\ \A fs \in Flushed(cs) : WellQueued(fs, no)
                                   /\ WellQueued(Closed(cs), no)
           /\ cs.state = "none" => WellQueued([cs EXCEPT !.state = "open"], no)
<1>1. IsClient(cs) /\ OutboxOk(cs) /\ Fresh(no, cs) /\ DOMAIN cs = ClientFields /\ cs.pushed \in Nat
  BY DEF WellQueued, IsClient, OutboxOk
<1>2. cs.state # "closed" => Stream(cs) /\ cs.pushed < no
  BY <1>1 DEF Fresh, OutboxOk
<1>3. WellQueued(cs, no + 1)
  <2>1. cs.state # "closed" => cs.pushed < no + 1
    BY <1>1, <1>2
  <2> QED
    BY <1>1, <2>1 DEF WellQueued, Fresh
<1>4. ASSUME cs.state = "open" PROVE WellQueued(push(cs, no), no + 1) /\ push(cs, no).state = "open"
  <2>1. Stream(cs) /\ cs.pushed < no
    BY <1>2, <1>4
  <2>2. push(cs, no).state = cs.state /\ push(cs, no).pushed = no /\ OutboxOk(push(cs, no))
    BY <1>1, <2>1, PushOk
  <2>3. IsClient(push(cs, no))
    BY <1>1, ClientKept
  <2> QED
    BY <1>4, <2>2, <2>3 DEF WellQueued, Fresh
<1>5. WellQueued(Closed(cs), no)
  <2>1. IsClient(Closed(cs))
    BY <1>1, ClientKept
  <2> DEFINE ds == Closed(cs)
  <2>2. ds.state = "closed" /\ ds.outbox = <<>> /\ ds.written = 0 /\ ds.pushed = cs.pushed /\ (ds.torn <=> cs.torn)
    BY <1>1 DEF Closed, ClientFields
  <2>3. ~ds.torn
    BY <1>1, <2>2 DEF OutboxOk
  <2> HIDE DEF ds
  <2>4. OutboxOk(ds)
    <3>1. ds.outbox \in Seq(Nat) /\ Len(ds.outbox) = 0
      BY <2>2
    <3>2. ds.written \in 0 .. LineParts - 1 /\ OutboxLines \in Nat
      BY <2>2, OutboxAssumption
    <3> QED
      BY <1>1, <2>2, <2>3, <3>1, <3>2 DEF OutboxOk
  <2> QED
    BY <2>1, <2>2, <2>4 DEF WellQueued, Fresh, ds
<1>6. ASSUME cs.state = "open", NEW fs \in Flushed(cs) PROVE WellQueued(fs, no)
  <2> DEFINE all == LineParts * Len(cs.outbox) - cs.written
  <2>1. Stream(cs) /\ cs.pushed < no
    BY <1>2, <1>6
  <2>2. all \in 0 .. all
    <3>1. cs.outbox \in Seq(Nat) /\ cs.written \in 0 .. LineParts - 1 /\ Len(cs.outbox) \in Nat
      BY <1>1 DEF OutboxOk
    <3>2. Len(cs.outbox) = 0 => cs.written = 0
      <4>1. Len(cs.outbox) = 0 => cs.outbox = <<>>
        BY <3>1, EmptySeq
      <4>2. cs.written > 0 => cs.outbox # <<>>
        BY <2>1 DEF Stream
      <4>3. cs.written = 0 \/ cs.written > 0
        BY <3>1, OutboxAssumption
      <4> QED
        BY <4>1, <4>2, <4>3
    <3>3. LineParts \in Nat /\ LineParts > 0
      BY OutboxAssumption
    <3> QED
      BY <3>1, <3>2, <3>3, Everything
  <2>3. fs = Closed(cs) \/ \E k \in 0 .. all : fs = flush(cs, k)
    BY <1>6, <2>2 DEF Flushed
  <2>4. ASSUME NEW k \in 0 .. all PROVE WellQueued(flush(cs, k), no)
    <3>1. flush(cs, k).state = cs.state /\ flush(cs, k).pushed = cs.pushed /\ OutboxOk(flush(cs, k))
      BY <1>1, <2>1, FlushOk
    <3>2. IsClient(flush(cs, k))
      BY <1>1 DEF IsClient, flush, ClientFields
    <3> QED
      BY <2>1, <3>1, <3>2 DEF WellQueued, Fresh
  <2> HIDE DEF all
  <2> QED
    BY <1>5, <2>3, <2>4
<1>7. ASSUME cs.state = "none" PROVE WellQueued([cs EXCEPT !.state = "open"], no)
  <2> DEFINE ds == [cs EXCEPT !.state = "open"]
  <2>1. /\ ds.state = "open" /\ ds.outbox = cs.outbox /\ ds.written = cs.written /\ ds.pushed = cs.pushed
        /\ ds.got = cs.got /\ (ds.torn <=> cs.torn)
    BY <1>1 DEF ClientFields
  <2>2. IsClient(ds)
    BY <1>1, ClientKept
  <2>3. Stream(cs) /\ cs.pushed < no
    BY <1>2, <1>7
  <2> HIDE DEF ds
  <2>4. Stream(ds)
    BY <2>1, <2>3 DEF Stream
  <2>5. OutboxOk(ds)
    BY <1>1, <2>1, <2>4 DEF OutboxOk
  <2> QED
    BY <2>1, <2>2, <2>3, <2>5 DEF WellQueued, Fresh, ds
<1> QED
  BY <1>3, <1>4, <1>5, <1>6, <1>7

\* The number of the line that is queued next.
NextNo == IF server.at \in {"build", "flush"} THEN lines ELSE lines + 1

\* Nothing has been queued at first.
LEMMA OutboxInit == Init => OutboxInv
<1> SUFFICES ASSUME Init PROVE OutboxInv
  OBVIOUS
<1>1. server.at = "drain" /\ lines = 0
  BY DEF Init
<1>2. ASSUME NEW c \in Client PROVE OutboxOk(client[c]) /\ Fresh(1, client[c])
  <2> DEFINE cs == client[c]
  <2>1. /\ cs.outbox = <<>> /\ cs.written = 0 /\ cs.got = <<0, LineParts>> /\ ~cs.torn /\ cs.pushed = 0
    BY DEF Init
  <2> HIDE DEF cs
  <2>2. /\ cs.outbox \in Seq(Nat) /\ Len(cs.outbox) = 0 /\ cs.written \in 0 .. LineParts - 1
        /\ OutboxLines \in Nat /\ cs.got \in Nat \X (1 .. LineParts)
    BY <2>1, OutboxAssumption
  <2>3. Rising(cs.outbox)
    <3>1. DOMAIN cs.outbox = {}
      BY <2>1
    <3> QED
      BY <3>1 DEF Rising
  <2>4. Stream(cs)
    BY <2>1, <2>2, <2>3 DEF Stream
  <2>5. OutboxOk(cs) /\ Fresh(1, cs)
    BY <2>1, <2>2, <2>4 DEF OutboxOk, Fresh
  <2> QED
    BY <2>5 DEF cs
<1> QED
  BY <1>1, <1>2 DEF OutboxInv

\* Steps that leave the clients, the number of lines and the line under construction alone.
Unqueued ==
    /\ UNCHANGED <<client, lines>>
    /\ server'.at \in {"build", "flush"} <=> server.at \in {"build", "flush"}
    /\ server.at \in {"build", "flush"} => server'.line.no = server.line.no

\* Every step keeps the outboxes in order.
LEMMA OutboxNext == IInv /\ Next => OutboxInv'
<1> SUFFICES ASSUME IInv, Next PROVE OutboxInv'
  OBVIOUS
<1>0. TypeOK'
  BY TypeNext
<1>1. /\ server.at \in {"build", "flush"} => server.line.no = lines
      /\ \A c \in Client : WellQueued(client[c], NextNo)
  BY DEF IInv, TypeOK, IsClient, OutboxInv, WellQueued, NextNo
<1>2. /\ DOMAIN client = Client /\ lines \in Nat /\ NextNo \in Nat /\ server \in Server
      /\ Open = {c \in Client : client[c].state = "open"} /\ Open \subseteq Client
  BY DEF IInv, TypeOK, NextNo, Open
<1>3. SUFFICES /\ server'.at \in {"build", "flush"} => server'.line.no = lines'
               /\ \A c \in Client : WellQueued(client'[c], NextNo')
  <2>1. OutboxInv' <=> /\ server'.at \in {"build", "flush"} => server'.line.no = lines'
                       /\ \A c \in Client : WellQueued(client'[c], NextNo')
    BY <1>0 DEF OutboxInv, WellQueued, NextNo, TypeOK, IsClient
  <2> QED
    BY <2>1
<1> DEFINE Goal == /\ server'.at \in {"build", "flush"} => server'.line.no = lines'
                   /\ \A c \in Client : WellQueued(client'[c], NextNo')
<1>4. CASE Unqueued
  <2>1. NextNo' = NextNo
    BY <1>4 DEF Unqueued, NextNo
  <2> QED
    BY <1>1, <1>4, <2>1 DEF Unqueued
<1>5. ASSUME UNCHANGED <<server, lines>>, \A c \in Client : WellQueued(client'[c], NextNo)
      PROVE  Goal
  <2>1. NextNo' = NextNo
    BY <1>5 DEF NextNo
  <2> QED
    BY <1>1, <1>5, <2>1
<1>6. ASSUME NEW c \in Client, Accept(c) PROVE Goal
  <2>1. /\ UNCHANGED <<server, lines>> /\ client[c].state = "none"
        /\ client' = [client EXCEPT ![c] = [client[c] EXCEPT !.state = "open"]]
    BY <1>6 DEF Accept
  <2>2. WellQueued([client[c] EXCEPT !.state = "open"], NextNo)
    BY <1>1, <1>2, <2>1, QueueSteps
  <2> QED
    BY <1>1, <1>2, <1>5, <2>1, <2>2
<1>7. ASSUME NEW c \in Client, Disconnect(c) PROVE Goal
  <2>1. /\ UNCHANGED <<server, lines>> /\ client[c].state = "open"
        /\ client' = [client EXCEPT ![c] = Closed(client[c])]
    BY <1>7 DEF Disconnect, Open
  <2>2. WellQueued(Closed(client[c]), NextNo)
    BY <1>1, <1>2, <2>1, QueueSteps
  <2> QED
    BY <1>1, <1>2, <1>5, <2>1, <2>2
<1>8. CASE CloseClients
  <2>1. /\ UNCHANGED <<server, lines>>
        /\ client' = [c \in Client |-> IF c \in Open THEN Closed(client[c]) ELSE client[c]]
    BY <1>8 DEF CloseClients
  <2>2. \A c \in Open : WellQueued(Closed(client[c]), NextNo)
    BY <1>1, <1>2, QueueSteps
  <2> QED
    BY <1>1, <1>5, <2>1, <2>2
<1>9. CASE FlushFinal
  <2>1. PICK after : /\ \A c \in Open : after[c] \in Flushed(client[c])
                     /\ client' = [c \in Client |-> IF c \in Open THEN after[c] ELSE client[c]]
    BY <1>9 DEF FlushFinal
  <2>2. UNCHANGED <<server, lines>>
    BY <1>9 DEF FlushFinal
  <2>3. \A c \in Open : WellQueued(after[c], NextNo)
    BY <1>1, <1>2, <2>1, QueueSteps
  <2> QED
    BY <1>1, <1>5, <2>1, <2>2, <2>3
<1>10. CASE Deliver
  <2> DEFINE Queued(c) == IF server.at = "flush" THEN push(client[c], server.line.no) ELSE client[c]
  <2>1. PICK after : /\ \A c \in Open : after[c] \in Flushed(Queued(c))
                     /\ client' = [c \in Client |-> IF c \in Open THEN after[c] ELSE client[c]]
    BY <1>10 DEF Deliver
  <2>2. /\ server'.at \in {"drain", "ended"} /\ lines' = lines
        /\ server.at = "flush" \/ server.at = "drain"
    BY <1>2, <1>10 DEF Deliver, Server
  <2>3. NextNo' = lines + 1
    BY <2>2 DEF NextNo
  <2>4. \A c \in Client : WellQueued(client[c], lines + 1)
    <3>1. NextNo = lines + 1 \/ NextNo = lines
      BY DEF NextNo
    <3> QED
      BY <1>1, <1>2, <3>1, QueueSteps
  <2>5. ASSUME NEW c \in Open PROVE WellQueued(Queued(c), lines + 1) /\ Queued(c).state = "open"
    <3>1. client[c].state = "open" /\ c \in Client
      BY <1>2
    <3>2. CASE server.at = "flush"
      <4>1. server.line.no = lines /\ NextNo = lines
        BY <1>1, <3>2 DEF NextNo
      <4>2. WellQueued(push(client[c], lines), lines + 1) /\ push(client[c], lines).state = "open"
        BY <1>1, <1>2, <3>1, <4>1, QueueSteps
      <4> QED
        BY <3>2, <4>1, <4>2
    <3>3. CASE server.at # "flush"
      BY <2>4, <3>1, <3>3
    <3> QED
      BY <3>2, <3>3
  <2> HIDE DEF Queued
  <2>6. lines + 1 \in Nat
    BY <1>2
  <2>7. \A c \in Open : WellQueued(after[c], lines + 1)
    BY <2>1, <2>5, <2>6, QueueSteps
  <2> QED
    BY <2>1, <2>2, <2>3, <2>4, <2>7
<1>11. CASE Join
  <2>1. /\ server.at = "ended" /\ UNCHANGED server
        /\ lines' = IF Open = {} THEN lines ELSE lines + 1
        /\ client' = [c \in Client |-> IF c \in Open THEN push(client[c], lines + 1) ELSE client[c]]
    BY <1>11 DEF Join
  <2>2. NextNo = lines + 1 /\ NextNo' = lines' + 1
    BY <2>1 DEF NextNo
  <2>3. \A c \in Open : WellQueued(push(client[c], lines + 1), (lines + 1) + 1)
    BY <1>1, <1>2, <2>2, QueueSteps
  <2>4. \A c \in Client : WellQueued(client[c], lines + 1) /\ WellQueued(client[c], (lines + 1) + 1)
    BY <1>1, <1>2, <2>2, QueueSteps
  <2> QED
    BY <2>1, <2>2, <2>3, <2>4
<1>12. CASE StartLine
  <2>1. /\ server.at = "drain" /\ lines' = lines + 1 /\ UNCHANGED client
        /\ server'.at \in {"build", "flush"} /\ server'.line.no = lines + 1
    BY <1>2, <1>12 DEF StartLine, Server
  <2>2. NextNo' = lines + 1 /\ NextNo = lines + 1
    BY <2>1 DEF NextNo
  <2> QED
    BY <1>1, <2>1, <2>2
<1>13. CASE ReadFrame
  <2>1. server.at = "build" /\ server.line \in BroadcastLine /\ UNCHANGED <<client, lines>>
    BY <1>13 DEF ReadFrame, IInv, LineInv
  <2>2. server'.at \in {"build", "flush"} /\ server'.line.no = server.line.no
    BY <1>2, <1>13, <2>1 DEF ReadFrame, Server, BroadcastLine
  <2> QED
    BY <1>4, <2>1, <2>2 DEF Unqueued
<1>14. StopSeen \/ Push => Unqueued
  BY <1>2 DEF StopSeen, Push, Unqueued, Server
<1>15. ASSUME NEW r \in Rank, NotDue(r) \/ Emit(r) \/ Shutdown(r) \/ try_recv_control(r) \/ Reset(r)
       PROVE  Unqueued
  BY <1>15 DEF NotDue, Emit, Shutdown, try_recv_control, Reset, Unqueued
<1>16. Fanout \/ ProbeFailed \/ CheckFinals => Unqueued
  BY DEF Fanout, ProbeFailed, CheckFinals, Unqueued
<1>17. Stop => Unqueued
  BY <1>2 DEF Stop, Server, Unqueued
<1>18. ReceiveSlot \/ (\E r \in Rank : ReceiveFrame(r)) => Unqueued
  BY DEF ReceiveSlot, ReceiveFrame, Unqueued
<1>19. ClientSnapshotTooSoon \/ SnapshotExpires \/ FinalWaitExpires \/ FlushExpires \/ Finished => Unqueued
  BY DEF ClientSnapshotTooSoon, SnapshotExpires, FinalWaitExpires, FlushExpires, Finished, vars, Unqueued
<1>20. ClientSnapshot => Unqueued
  BY DEF ClientSnapshot, Unqueued
<1>21. ASSUME NEW m, ClientControl(m) PROVE Unqueued
  BY <1>2, <1>21 DEF ClientControl, Server, Unqueued
<1>22. CASE Quiet
  BY <1>4, <1>6, <1>7, <1>9, <1>10, <1>12, <1>13, <1>14, <1>18, <1>19, <1>22 DEF Quiet, BroadcastThread
<1>23. ASSUME NEW r \in Rank, Move(r) PROVE Goal
  BY <1>4, <1>8, <1>11, <1>15, <1>16, <1>17, <1>23 DEF Move
<1> QED
  BY <1>4, <1>15, <1>20, <1>21, <1>22, <1>23, Steps

-----------------------------------------------------------------------------
(* The theorems *)

\* The inductive invariant holds initially.
LEMMA IInvInit == Init => IInv
<1> SUFFICES ASSUME Init PROVE IInv
  OBVIOUS
<1>1. TypeOK
  BY TypeInit
<1>2. \A r \in Rank : /\ (hub[r].running <=> r \in Live) /\ hub[r].due = 0 /\ hub[r].answered = 0
                      /\ hub[r].at = IF r \in Live THEN "loop" ELSE "down"
                      /\ wire[r]["regular"] = <<>> /\ wire[r]["final"] = <<>>
                      /\ latest[r] = None /\ control[r] = <<>>
  BY DEF Init, Tag
<1>3. /\ fanout = <<>> /\ server.at = "drain" /\ server.line = None
      /\ snapshot.requested = 0 /\ finals.received = 0
  BY DEF Init
<1>4. RunningInv
  BY <1>2 DEF RunningInv
<1>5. FrameInv
  BY <1>2 DEF FrameInv, FramesOrdered
<1>6. FinalsInv
  <2>1. FinalsOut = {}
    BY <1>2 DEF FinalsOut
  <2>2. finals.received + Cardinality(FinalsOut) <= Cardinality(Ended)
    BY <1>3, <2>1, FinalSets, FS_EmptySet
  <2> QED
    BY <2>2 DEF FinalsInv, FinalsOut, Ended
<1>7. ControlInv
  <2>1. \A r \in Rank : Pending(r) = <<>>
    BY <1>2, <1>3 DEF Pending, Passing
  <2>2. \A r \in Rank : hub[r].paused = hub[0].paused /\ hub[r].interval = hub[0].interval
    <3>1. \A r \in Rank : ~hub[r].paused /\ hub[r].paused \in BOOLEAN /\ hub[r].interval = 1000
      BY DEF Init
    <3>2. \A r \in Rank : hub[r].paused = hub[0].paused
      BY <3>1, Ranks
    <3> QED
      BY <3>1, <3>2, Ranks
  <2>3. \A r \in Rank : Told(Pending(r), hub[r], hub[0])
    BY <2>1, <2>2 DEF Told, Settled
  <2>4. \A r \in Rank : SnapshotsAhead(Pending(r), hub[r].due, hub[r].answered, snapshot.requested)
    BY <2>1 DEF SnapshotsAhead
  <2> QED
    BY <1>2, <1>3, <2>3, <2>4, Ranks DEF ControlInv
<1>8. LineInv
  BY <1>3 DEF LineInv
<1> QED
  BY <1>1, <1>4, <1>5, <1>6, <1>7, <1>8, OutboxInit DEF IInv

\* Every step keeps the inductive invariant.
LEMMA IInvNext == IInv /\ [Next]_vars => IInv'
<1>1. IInv /\ Next => IInv'
  BY TypeNext, RunningNext, FrameNext, FinalsNext, ControlNext, LineNext, OutboxNext DEF IInv
<1>2. ASSUME IInv, UNCHANGED vars PROVE IInv'
  <2> USE <1>2 DEF vars
  <2>1. TypeOK'
    BY DEF IInv, TypeOK
  <2>2. RunningInv'
    BY DEF IInv, RunningInv, Live
  <2>3. FrameInv' /\ FinalsInv'
    BY DEF IInv, FrameInv, FinalsInv
  <2>4. ControlInv'
    BY DEF IInv, ControlInv, Pending, Passing, Live
  <2>5. LineInv'
    BY DEF IInv, LineInv, Live
  <2>6. OutboxInv'
    BY DEF IInv, OutboxInv
  <2> QED
    BY <2>1, <2>2, <2>3, <2>4, <2>5, <2>6 DEF IInv
<1> QED
  BY <1>1, <1>2

\* The inductive invariant holds in every reachable state, whatever the ranks, the clients
\* and the bounds.
THEOREM Invariance == Spec => []IInv
  BY IInvInit, IInvNext, PTL DEF Spec

\* Hubs, frames, controls, lines and clients are always well formed.
THEOREM TypeCorrect == Spec => []TypeOK
<1>1. IInv => TypeOK
  BY DEF IInv
<1> QED
  BY <1>1, Invariance, PTL

\* telemetry_hub: a pause, a resume or an interval that every queue between the server of rank
\* 0 and a running rank has let through is the one that rank 0 has, for any number of ranks
\* and of commands given while others are on their way.
THEOREM ControlsAgreed == Spec => []ControlsAgree
<1>1. IInv => ControlsAgree
  <2> SUFFICES ASSUME IInv, NEW r \in Live, hub[r].running, server.at # "push", fanout = <<>>,
                      control[r] = <<>>
               PROVE  hub[r].paused = hub[0].paused /\ hub[r].interval = hub[0].interval
    BY DEF ControlsAgree
  <2>1. CASE r = 0
    BY <2>1
  <2>2. CASE r # 0
    <3>1. Told(Pending(r), hub[r], hub[0])
      BY <2>2 DEF IInv, ControlInv
    <3>2. Pending(r) = <<>>
      BY DEF Pending, Passing
    <3> QED
      BY <3>1, <3>2 DEF Told, Settled
  <2> QED
    BY <2>1, <2>2
<1> QED
  BY <1>1, Invariance, PTL

\* build_broadcast_line: the line that answers a snapshot has a frame taken for it, or a later
\* one, of every rank that has not shut down, although every frame is read under a lock of
\* its own while others are being replaced.
THEOREM SnapshotsComplete == Spec => []SnapshotComplete
<1>1. IInv => SnapshotComplete
  <2> SUFFICES ASSUME IInv, server.at = "flush", server.line # None, NEW r \in Live,
                      server.line.snapshot # 0, hub[r].running
               PROVE  server.line.frames[r] # None /\ server.line.frames[r].id >= server.line.snapshot
    BY DEF SnapshotComplete
  <2>1. server.left = {}
    BY DEF IInv, LineInv
  <2> QED
    BY <2>1 DEF IInv, LineInv
<1> QED
  BY <1>1, Invariance, PTL

\* The last of g and a queue.
LEMMA LastJoined ==
    ASSUME NEW g \in Nat, NEW q \in Seq(Nat)
    PROVE  Last(<<g>> \o q) = IF q = <<>> THEN g ELSE q[Len(q)]
<1> DEFINE s == <<g>> \o q
           m == Len(q)
<1>1. m \in Nat /\ <<g>> \in Seq(Nat) /\ Len(<<g>>) = 1 /\ <<g>>[1] = g
  OBVIOUS
<1>2. Len(s) = m + 1 /\ s[1] = g /\ \A i \in 1 .. m : s[i + 1] = q[i]
  BY <1>1
<1>3. (q = <<>> <=> m = 0)
  BY EmptySeq
<1> HIDE DEF s, m
<1>4. Last(s) = s[m + 1]
  BY <1>2 DEF Last
<1>5. CASE m = 0
  BY <1>2, <1>3, <1>4, <1>5 DEF s
<1>6. CASE m # 0
  <2>1. m \in 1 .. m
    BY <1>1, <1>6
  <2> QED
    BY <1>2, <1>3, <1>4, <1>6, <2>1 DEF s, m
<1> QED
  BY <1>5, <1>6

\* "a client that reads slower than the stream skips whole lines and always keeps the newest":
\* no client ever receives a line that is torn, its outbox is bounded, and the newest line is
\* what it received last or what waits for it last (client_outbox.hpp: push and flush).
THEOREM OutboxesKeep == Spec => []OutboxKeeps
<1>1. IInv => OutboxKeeps
  <2> SUFFICES ASSUME IInv, NEW c \in Client
               PROVE  /\ ~client[c].torn
                      /\ Len(client[c].outbox) <= OutboxLines + (IF client[c].written > 0 THEN 1 ELSE 0)
                      /\ c \in Open /\ client[c].pushed # 0 =>
                            Last(<<client[c].got[1]>> \o client[c].outbox) = client[c].pushed
    BY DEF OutboxKeeps
  <2>1. OutboxOk(client[c])
    BY DEF IInv, OutboxInv
  <2> DEFINE q == client[c].outbox
             g == client[c].got[1]
  <2>2. /\ ~client[c].torn /\ q \in Seq(Nat)
        /\ Len(q) <= OutboxLines + (IF client[c].written > 0 THEN 1 ELSE 0)
        /\ client[c].state # "closed" => Stream(client[c])
    BY <2>1 DEF OutboxOk
  <2>3. ASSUME c \in Open PROVE Last(<<g>> \o q) = client[c].pushed
    <3>1. g \in Nat /\ client[c].pushed = IF q = <<>> THEN g ELSE q[Len(q)]
      BY <2>2, <2>3 DEF Open, Stream
    <3> HIDE DEF q, g
    <3>2. Last(<<g>> \o q) = IF q = <<>> THEN g ELSE q[Len(q)]
      BY <2>2, <3>1, LastJoined
    <3> QED
      BY <3>1, <3>2
  <2> QED
    BY <2>2, <2>3
<1> QED
  BY <1>1, Invariance, PTL
=============================================================================
