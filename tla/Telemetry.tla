------------------------------ MODULE Telemetry ------------------------------
(***************************************************************************)
(* The telemetry of a run: the hub of every rank, the transport that takes *)
(* frames to rank 0 and controls from it, and the server of rank 0 that    *)
(* writes broadcast lines to dashboard clients and reads their commands.   *)
(*                                                                         *)
(* Three threads meet on rank 0.  The scheduler's loop, or the timer       *)
(* thread of a run without MPI, calls tick_if_due; the broadcast thread    *)
(* reads commands, builds lines from the latest frames and fills the       *)
(* outboxes; the accept thread adds clients.  Every other rank has its     *)
(* scheduler's loop only.  Each read or write that another thread can see  *)
(* is a step: a frame is stored and read under a lock of its own, so a     *)
(* line may be built from frames that were never latest together.          *)
(*                                                                         *)
(* Time is not modelled.  An interval may pass between any two ticks, and  *)
(* the three waits that are bounded by a clock (a snapshot, the final      *)
(* frames, the final flush) have a flag that some step sets.  A message    *)
(* sent need not be seen by the next probe, and messages with different    *)
(* tags may arrive in any order; those with one tag arrive in order.       *)
(***************************************************************************)
EXTENDS Integers, Sequences, SequencesExt, FiniteSets

CONSTANTS
    WorldSize,      \* ranks of a run with MPI; a run without it has rank 0 only
    Modes,          \* the runtime modes examined
    Host,           \* the host each rank runs on
    Client,         \* dashboards that may connect
    OutboxLines,    \* k_outbox_lines
    LineParts,      \* a line goes out in at most so many sends
    Intervals,      \* the intervals clients ask for, in ms
    Bounds,         \* the bounds examined, one of which holds in a behaviour (see Bound)
    Rendezvous,     \* a send completes only when it is received
    None

ASSUME WorldAssumption == WorldSize \in Nat \ {0, 1}
ASSUME ModesAssumption == Modes \subseteq {"MT_ONLY", "MP_MPI"}
ASSUME HostAssumption == DOMAIN Host = 0 .. WorldSize - 1
ASSUME OutboxAssumption == OutboxLines \in Nat \ {0} /\ LineParts \in Nat \ {0}
ASSUME RendezvousAssumption == Rendezvous \in BOOLEAN
ASSUME IntervalsAssumption == Intervals \subseteq Int

Rank == 0 .. WorldSize - 1
Tag == {"regular", "final"}

\* Bounds on a behaviour: the commands of all clients, the frames a rank emits and the lines
\* broadcast because the interval has passed, whether connections come and go and sockets
\* take less than they are given, and the ranks that may shut down.
Bound == [commands : Nat, frames : Nat, lines : Nat, sockets : BOOLEAN, down : SUBSET Rank]

ASSUME BoundsAssumption == Bounds \subseteq Bound

VARIABLES
    mode,       \* the runtime mode
    bound,      \* the bound of this behaviour
    hub,        \* per rank: place of its thread, m_paused, m_interval_ms, m_snapshot_due,
                \*   m_snapshot_answered, m_seq_no, m_running
    wire,       \* per rank and tag: the frames on their way to rank 0
    control,    \* per rank: the controls on their way from rank 0
    fanout,     \* m_pending_fanout of rank 0
    latest,     \* m_latest_worker: the latest frame of each rank
    snapshot,   \* m_snapshot_requested, and whether the wait for it is over
    finals,     \* m_final_frames_received, and whether the wait for them is over
    server,     \* the broadcast thread: place, m_running, control to be fanned out,
                \*   v_broadcast_snapshot, line under construction, ranks it still reads
    client,     \* per client: connection, outbox, what it has received
    commands,   \* commands received so far
    lines       \* lines built so far

vars == <<mode, bound, hub, wire, control, fanout, latest, snapshot, finals, server, client,
          commands, lines>>

Frame == [seq : Nat, id : Nat, final : BOOLEAN]
BroadcastLine == [no : Nat, frames : [Rank -> Frame \cup {None}], snapshot : Nat]

ASSUME NoneAssumption == None \notin Frame /\ None \notin BroadcastLine

\* build_mpi_snapshot, build_mt_only_snapshot: the ranks of the run grouped by host, hosts in
\* the order of their first rank.
Live == IF mode = "MT_ONLY" THEN {0} ELSE Rank
Together(r) == {q \in Live : Host[q] = Host[r]}
Lowest(R) == CHOOSE q \in R : \A p \in R : q <= p
Precedes(q, r) ==
    \/ Lowest(Together(q)) < Lowest(Together(r))
    \/ Together(q) = Together(r) /\ q < r

Init ==
    /\ mode \in Modes
    /\ bound \in Bounds
    /\ hub = [r \in Rank |-> [at |-> IF r \in Live THEN "loop" ELSE "down", running |-> r \in Live,
                              paused |-> FALSE, interval |-> 1000, due |-> 0, answered |-> 0,
                              seq |-> 0]]
    /\ wire = [r \in Rank |-> [t \in Tag |-> <<>>]]
    /\ control = [r \in Rank |-> <<>>]
    /\ fanout = <<>>
    /\ latest = [r \in Rank |-> None]
    /\ snapshot = [requested |-> 0, expired |-> FALSE]
    /\ finals = [received |-> 0, expired |-> FALSE]
    /\ server = [at |-> "drain", running |-> TRUE, msg |-> None, broadcast |-> 0,
                 line |-> None, left |-> {}]
    /\ client = [c \in Client |-> [state |-> IF bound.sockets THEN "none" ELSE "open",
                                   outbox |-> <<>>, written |-> 0,
                                   got |-> <<0, LineParts>>, torn |-> FALSE, pushed |-> 0]]
    /\ commands = 0
    /\ lines = 0

-----------------------------------------------------------------------------
(* The transport *)

\* local_transport: one slot for the frame of a rank and one for its node frame, which the
\* next one overwrites.  A final frame is an ordinary one.
publish_local(r, t, f) ==
    [wire EXCEPT ![r][IF t = "final" THEN "regular" ELSE t] = <<f>>]

\* mpi_transport: a send on the tag.
post_isend(r, t, f) == [wire EXCEPT ![r][t] = Append(@, f)]

publish(r, t, f) == IF mode = "MT_ONLY" THEN publish_local(r, t, f) ELSE post_isend(r, t, f)

\* snapshot_worker_frame
snapshot_worker_frame(h, final) == [seq |-> h.seq, id |-> h.answered, final |-> final]

-----------------------------------------------------------------------------
(* tick_if_due of every rank *)

\* One control applied to the hub.
Apply(h, m) ==
    CASE m.kind = "SET_INTERVAL_MS" -> [h EXCEPT !.interval = m.value]
      [] m.kind = "PAUSE" -> [h EXCEPT !.paused = TRUE]
      [] m.kind = "RESUME" -> [h EXCEPT !.paused = FALSE]
      [] m.kind = "SNAPSHOT" -> [h EXCEPT !.due = m.value]

\* The loop over try_recv_control, which a tick starts with.
try_recv_control(r) ==
    /\ hub[r].at \in {"loop", "tick"}
    /\ control[r] # <<>>
    /\ hub' = [hub EXCEPT ![r] = [Apply(@, Head(control[r])) EXCEPT !.at = "tick"]]
    /\ control' = [control EXCEPT ![r] = Tail(@)]
    /\ UNCHANGED <<mode, bound, wire, fanout, latest, snapshot, finals, server, client,
                   commands, lines>>

\* Only rank 0 has controls to pass on and frames to receive.
AfterEmit(r) == IF r = 0 THEN "fanout" ELSE "loop"

\* A snapshot is due, or the rank is not paused and its interval has passed.
Emit(r) ==
    LET h == [hub[r] EXCEPT !.at = AfterEmit(r), !.due = 0, !.seq = @ + 1,
                            !.answered = IF hub[r].due # 0 THEN hub[r].due ELSE @]
    IN  /\ hub[r].at \in {"loop", "tick"}
        /\ hub[r].due # 0 \/ (~hub[r].paused /\ hub[r].seq < bound.frames)
        /\ hub' = [hub EXCEPT ![r] = h]
        /\ wire' = publish(r, "regular", snapshot_worker_frame(h, FALSE))
        /\ UNCHANGED <<mode, bound, control, fanout, latest, snapshot, finals, server, client,
                       commands, lines>>

NotDue(r) ==
    /\ hub[r].at \in {"loop", "tick"}
    /\ hub[r].due = 0
    /\ hub' = [hub EXCEPT ![r].at = AfterEmit(r)]
    /\ UNCHANGED <<mode, bound, wire, control, fanout, latest, snapshot, finals, server, client,
                   commands, lines>>

\* Mutant: a rank nothing was heard of yet is not waited for.
OutstandingOfKnown ==
    /\ snapshot.requested # 0
    /\ ~snapshot.expired
    /\ \E r \in Live : latest[r] # None /\ latest[r].id < snapshot.requested

\* Mutant: the wait for the ranks' frames has no deadline.
OutstandingForever ==
    /\ snapshot.requested # 0
    /\ \E r \in Live : latest[r] = None \/ latest[r].id < snapshot.requested

snapshot_outstanding ==
    /\ snapshot.requested # 0
    /\ ~snapshot.expired
    /\ \E r \in Live : latest[r] = None \/ latest[r].id < snapshot.requested

\* Mutant: the pending controls are sent newest first.
SentBackwards(r) ==
    IF r # 0 /\ hub[r].at # "down" THEN control[r] \o Reverse(fanout) ELSE control[r]

\* send_control of every pending control to every other rank; a rank whose communicator is
\* freed never reads it.
Sent(r) == IF r # 0 /\ hub[r].at # "down" THEN control[r] \o fanout ELSE control[r]

Fanout ==
    /\ hub[0].at = "fanout"
    /\ control' = [r \in Rank |-> Sent(r)]
    /\ fanout' = <<>>
    /\ hub' = [hub EXCEPT ![0].at =
                  IF ~hub[0].paused \/ snapshot_outstanding THEN "regular" ELSE "loop"]
    /\ UNCHANGED <<mode, bound, wire, latest, snapshot, finals, server, client, commands, lines>>

-----------------------------------------------------------------------------
(* drain_inbound_frames of rank 0, in a tick and in shutdown: regular frames, then final
   ones *)

\* local_transport::poll takes the frame of the slot, if a new one was published.
ReceiveSlot ==
    /\ mode = "MT_ONLY"
    /\ hub[0].at \in Tag
    /\ wire[0][hub[0].at] # <<>>
    /\ wire' = [wire EXCEPT ![0][hub[0].at] = <<>>]
    /\ latest' = [latest EXCEPT ![0] = wire[0][hub[0].at][1]]
    /\ UNCHANGED <<mode, bound, hub, control, fanout, snapshot, finals, server, client, commands,
                   lines>>

\* mpi_transport::poll: the next frame of rank r on the tag that is drained.
ReceiveFrame(r) ==
    LET t == hub[0].at IN
    /\ mode = "MP_MPI"
    /\ t \in Tag
    /\ wire[r][t] # <<>>
    /\ wire' = [wire EXCEPT ![r][t] = Tail(@)]
    /\ latest' = [latest EXCEPT ![r] = Head(wire[r][t])]
    /\ finals' = IF t = "final" THEN [finals EXCEPT !.received = @ + 1] ELSE finals
    /\ UNCHANGED <<mode, bound, hub, control, fanout, snapshot, server, client, commands, lines>>

\* The probe finds nothing more: a slot of the local transport is always seen, a message may
\* still be on its way.
ProbeFailed ==
    /\ hub[0].at \in Tag
    /\ mode = "MT_ONLY" => wire[0][hub[0].at] = <<>>
    /\ hub' = [hub EXCEPT ![0].at = IF @ = "regular" THEN "final"
                                  ELSE IF hub[0].running THEN "loop" ELSE "check"]
    /\ UNCHANGED <<mode, bound, wire, control, fanout, latest, snapshot, finals, server, client,
                   commands, lines>>

-----------------------------------------------------------------------------
(* The client's outbox *)

\* Mutant: the oldest line goes, whether or not part of it was sent.
PushDroppingFront(cs, n) ==
    LET q == Append(cs.outbox, n)
        in_flight == IF cs.written > 0 THEN 1 ELSE 0
    IN  [cs EXCEPT !.pushed = n,
                   !.outbox = IF Len(q) - in_flight > OutboxLines THEN Tail(q) ELSE q]

\* push: beyond the capacity the oldest lines that have not started going out are dropped.
push(cs, n) ==
    LET q == Append(cs.outbox, n)
        in_flight == IF cs.written > 0 THEN 1 ELSE 0
        kept == IF Len(q) - in_flight > OutboxLines THEN OutboxLines ELSE Len(q) - in_flight
    IN  [cs EXCEPT !.pushed = n,
                   !.outbox = SubSeq(q, 1, in_flight) \o SubSeq(q, Len(q) - kept + 1, Len(q))]

\* What follows part <<n, i>> in a stream of whole lines.
Follows(part, next) ==
    IF part[2] = LineParts THEN next[1] > part[1] /\ next[2] = 1
    ELSE next = <<part[1], part[2] + 1>>

\* flush: the socket takes k more parts, oldest first.
flush(cs, k) ==
    LET part(i) == <<cs.outbox[((cs.written + i - 1) \div LineParts) + 1],
                     ((cs.written + i - 1) % LineParts) + 1>>
        stream == <<cs.got>> \o [i \in 1 .. k |-> part(i)]
    IN  [cs EXCEPT
           !.outbox = SubSeq(@, ((cs.written + k) \div LineParts) + 1, Len(@)),
           !.written = (@ + k) % LineParts,
           !.got = Last(stream),
           !.torn = @ \/ \E i \in 1 .. k : ~Follows(stream[i], stream[i + 1])]

\* A connection that failed is dropped with its outbox; it got what it got.
Closed(cs) == [cs EXCEPT !.state = "closed", !.outbox = <<>>, !.written = 0]

\* What flush_client can make of a client: any number of parts, or a failed connection.
Flushed(cs) ==
    LET all == LineParts * Len(cs.outbox) - cs.written IN
    IF bound.sockets THEN {flush(cs, k) : k \in 0 .. all} \cup {Closed(cs)} ELSE {flush(cs, all)}

Open == {c \in Client : client[c].state = "open"}

-----------------------------------------------------------------------------
(* The server's threads on rank 0 *)

\* The accept thread: it is joined before the final line is built.
Accept(c) ==
    /\ hub[0].at \notin {"flush", "reset", "down"}
    /\ client[c].state = "none"
    /\ client' = [client EXCEPT ![c].state = "open"]
    /\ UNCHANGED <<mode, bound, hub, wire, control, fanout, latest, snapshot, finals, server,
                   commands, lines>>

\* The thread is waiting for its next round when the server is stopped.
StopSeen ==
    /\ server.at = "drain" /\ ~server.running
    /\ server' = [server EXCEPT !.at = "ended"]
    /\ UNCHANGED <<mode, bound, hub, wire, control, fanout, latest, snapshot, finals, client,
                   commands, lines>>

\* Mutant: no lower limit.
ClampAbove(v) == IF v > 600000 THEN 600000 ELSE v

clamp(v) == IF v < 50 THEN 50 ELSE IF v > 600000 THEN 600000 ELSE v

\* The lines of a client that are no snapshot, and what they mean: two names for one
\* command, and one of old dashboards that is accepted and ignored.
Line == [kind : {"pause", "resume"}, value : {0}]
          \cup [kind : {"set_interval_ms", "set_worker_interval_ms", "set_node_interval_ms"},
                value : Intervals]
parse_control_line(line) ==
    CASE line.kind = "pause" -> [kind |-> "PAUSE", value |-> 0]
      [] line.kind = "resume" -> [kind |-> "RESUME", value |-> 0]
      [] line.kind = "set_node_interval_ms" -> [kind |-> "UNSPECIFIED", value |-> line.value]
      [] OTHER -> [kind |-> "SET_INTERVAL_MS", value |-> clamp(line.value)]

\* A command of a client: the hub of rank 0 takes it at once and fans it out next.
ClientControl(m) ==
    /\ server.at = "drain" /\ Open # {}
    /\ m.kind # "UNSPECIFIED"
    /\ commands < bound.commands
    /\ commands' = commands + 1
    /\ hub' = [hub EXCEPT ![0] = Apply(@, m)]
    /\ server' = [server EXCEPT !.at = "push", !.msg = m]
    /\ UNCHANGED <<mode, bound, wire, control, fanout, latest, snapshot, finals, client, lines>>

Push ==
    /\ server.at = "push"
    /\ fanout' = Append(fanout, server.msg)
    /\ server' = [server EXCEPT !.at = "drain", !.msg = None]
    /\ UNCHANGED <<mode, bound, hub, wire, control, latest, snapshot, finals, client, commands,
                   lines>>

\* A snapshot, all under m_pending_fanout_mtx.
ClientSnapshot ==
    LET id == snapshot.requested + 1 IN
    /\ server.at = "drain" /\ Open # {}
    /\ commands < bound.commands
    /\ commands' = commands + 1
    /\ snapshot' = [requested |-> id, expired |-> FALSE]
    /\ hub' = [hub EXCEPT ![0].due = id]
    /\ fanout' = Append(fanout, [kind |-> "SNAPSHOT", value |-> id])
    /\ UNCHANGED <<mode, bound, wire, control, latest, finals, server, client, lines>>

\* A snapshot within k_snapshot_floor_ms of the one before is ignored.
ClientSnapshotTooSoon ==
    /\ server.at = "drain" /\ Open # {}
    /\ commands < bound.commands
    /\ snapshot.requested # 0 /\ ~snapshot.expired
    /\ commands' = commands + 1
    /\ UNCHANGED <<mode, bound, hub, wire, control, fanout, latest, snapshot, finals, server,
                   client, lines>>

\* v_drain_inbound of a client that closed its connection or overran its inbox.
Disconnect(c) ==
    /\ server.at = "drain" /\ bound.sockets
    /\ c \in Open
    /\ client' = [client EXCEPT ![c] = Closed(@)]
    /\ UNCHANGED <<mode, bound, hub, wire, control, fanout, latest, snapshot, finals, server,
                   commands, lines>>

SnapshotWaitRuns == snapshot.requested # 0 /\ ~snapshot.expired

SnapshotExpires ==
    /\ SnapshotWaitRuns
    /\ snapshot' = [snapshot EXCEPT !.expired = TRUE]
    /\ UNCHANGED <<mode, bound, hub, wire, control, fanout, latest, finals, server, client,
                   commands, lines>>

snapshot_ready == snapshot.requested # server.broadcast /\ ~snapshot_outstanding

\* The line of a snapshot, or the one that is due: without frames while paused.
StartLine ==
    /\ server.at = "drain"
    /\ snapshot_ready \/ lines < bound.lines
    /\ LET with_frames == snapshot_ready \/ ~hub[0].paused IN
       server' = [server EXCEPT
           !.at = IF with_frames THEN "build" ELSE "flush",
           !.broadcast = IF snapshot_ready THEN snapshot.requested ELSE @,
           !.line = [no |-> lines + 1, frames |-> [r \in Rank |-> None],
                     snapshot |-> IF snapshot_ready /\ ~snapshot.expired
                                  THEN snapshot.requested ELSE 0],
           !.left = IF with_frames THEN Live ELSE {}]
    /\ lines' = lines + 1
    /\ UNCHANGED <<mode, bound, hub, wire, control, fanout, latest, snapshot, finals, client,
                   commands>>

\* build_broadcast_line: latest_rank_frame of the next rank in the order of the topology.
ReadFrame ==
    /\ server.at = "build"
    /\ \E r \in server.left :
         /\ \A q \in server.left \ {r} : Precedes(r, q)
         /\ server' = [server EXCEPT !.line.frames[r] = latest[r], !.left = @ \ {r},
                                     !.at = IF server.left = {r} THEN "flush" ELSE "build"]
    /\ UNCHANGED <<mode, bound, hub, wire, control, fanout, latest, snapshot, finals, client,
                   commands, lines>>

\* The line goes to every client's outbox, and the outboxes are flushed; the loop then looks
\* whether the server is stopped.  A round without a line flushes only.
Deliver ==
    LET Queued(c) == IF server.at = "flush" THEN push(client[c], server.line.no) ELSE client[c] IN
    /\ server.at = "flush" \/ (server.at = "drain" /\ ~snapshot_ready)
    /\ \E after \in [Open -> UNION {Flushed(Queued(c)) : c \in Open}] :
         /\ \A c \in Open : after[c] \in Flushed(Queued(c))
         /\ client' = [c \in Client |-> IF c \in Open THEN after[c] ELSE client[c]]
    /\ server' = [server EXCEPT !.at = IF server.running THEN "drain" ELSE "ended", !.line = None]
    /\ UNCHANGED <<mode, bound, hub, wire, control, fanout, latest, snapshot, finals, commands,
                   lines>>

BroadcastThread == StopSeen \/ Push \/ StartLine \/ ReadFrame \/ Deliver

-----------------------------------------------------------------------------
(* shutdown of a hub *)

\* The scheduler's loop, or the timer thread, has ended; the final frame is published.
Shutdown(r) ==
    LET h == [hub[r] EXCEPT !.running = FALSE, !.seq = @ + 1,
                            !.at = IF r = 0 THEN "regular" ELSE "reset"]
    IN  /\ hub[r].at = "loop" /\ r \in bound.down
        /\ hub' = [hub EXCEPT ![r] = h]
        /\ wire' = publish(r, "final", snapshot_worker_frame(h, TRUE))
        /\ UNCHANGED <<mode, bound, control, fanout, latest, snapshot, finals, server, client,
                       commands, lines>>

FinalWaitRuns == ~hub[0].running /\ hub[0].at \in Tag \cup {"check"} /\ ~finals.expired

FinalWaitExpires ==
    /\ FinalWaitRuns
    /\ finals' = [finals EXCEPT !.expired = TRUE]
    /\ UNCHANGED <<mode, bound, hub, wire, control, fanout, latest, snapshot, server, client,
                   commands, lines>>

\* Mutant: the wait for the final frames has no deadline.
CheckForever ==
    /\ hub[0].at = "check"
    /\ hub' = [hub EXCEPT ![0].at =
                  IF mode = "MT_ONLY" \/ finals.received >= WorldSize THEN "stop" ELSE "regular"]
    /\ UNCHANGED <<mode, bound, wire, control, fanout, latest, snapshot, finals, server, client,
                   commands, lines>>

\* Rank 0 waits for the final frames of the others.
CheckFinals ==
    /\ hub[0].at = "check"
    /\ hub' = [hub EXCEPT ![0].at =
                  IF mode = "MT_ONLY" \/ finals.received >= WorldSize \/ finals.expired
                  THEN "stop" ELSE "regular"]
    /\ UNCHANGED <<mode, bound, wire, control, fanout, latest, snapshot, finals, server, client,
                   commands, lines>>

\* aggregator_tcp_server::stop
Stop ==
    /\ hub[0].at = "stop"
    /\ hub' = [hub EXCEPT ![0].at = "join"]
    /\ server' = [server EXCEPT !.running = FALSE]
    /\ finals' = [finals EXCEPT !.expired = FALSE]
    /\ UNCHANGED <<mode, bound, wire, control, fanout, latest, snapshot, client, commands, lines>>

\* The threads have ended: the final line goes to every client.
Join ==
    /\ hub[0].at = "join"
    /\ server.at = "ended"
    /\ hub' = [hub EXCEPT ![0].at = IF Open = {} THEN "reset" ELSE "flush"]
    /\ lines' = IF Open = {} THEN lines ELSE lines + 1
    /\ client' = [c \in Client |-> IF c \in Open THEN push(client[c], lines + 1) ELSE client[c]]
    /\ UNCHANGED <<mode, bound, wire, control, fanout, latest, snapshot, finals, server, commands>>

\* flush_final_lines: until every outbox is empty, every connection failed or the deadline
\* passes; the sockets are closed in any case.
FlushFinal ==
    /\ hub[0].at = "flush"
    /\ \E after \in [Open -> UNION {Flushed(client[c]) : c \in Open}] :
         /\ \A c \in Open : after[c] \in Flushed(client[c])
         /\ client' = [c \in Client |-> IF c \in Open THEN after[c] ELSE client[c]]
    /\ UNCHANGED <<mode, bound, hub, wire, control, fanout, latest, snapshot, finals, server,
                   commands, lines>>

FlushWaitRuns == hub[0].at = "flush" /\ ~finals.expired

FlushExpires ==
    /\ FlushWaitRuns
    /\ finals' = [finals EXCEPT !.expired = TRUE]
    /\ UNCHANGED <<mode, bound, hub, wire, control, fanout, latest, snapshot, server, client,
                   commands, lines>>

FlushEnds == finals.expired \/ \A c \in Open : client[c].outbox = <<>>

CloseClients ==
    /\ hub[0].at = "flush"
    /\ FlushEnds
    /\ hub' = [hub EXCEPT ![0].at = "reset"]
    /\ client' = [c \in Client |-> IF c \in Open THEN Closed(client[c]) ELSE client[c]]
    /\ UNCHANGED <<mode, bound, wire, control, fanout, latest, snapshot, finals, server, commands,
                   lines>>

\* ~mpi_transport: it waits for the rank's own sends and drops what has arrived.
SendsComplete(r) == Rendezvous => \A t \in Tag : wire[r][t] = <<>>

Reset(r) ==
    /\ hub[r].at = "reset"
    /\ SendsComplete(r)
    /\ hub' = [hub EXCEPT ![r].at = "down"]
    /\ control' = [control EXCEPT ![r] = <<>>]
    /\ wire' = IF r = 0 THEN [q \in Rank |-> [t \in Tag |-> <<>>]] ELSE wire
    /\ UNCHANGED <<mode, bound, fanout, latest, snapshot, finals, server, client, commands, lines>>

\* The scheduler's thread of rank 0, once it is in a tick or in shutdown.
RankZero ==
    \/ Fanout
    \/ \E r \in Rank : ReceiveFrame(r)
    \/ ReceiveSlot \/ ProbeFailed \/ CheckFinals \/ Stop \/ Join \/ CloseClients \/ Reset(0)

-----------------------------------------------------------------------------

Finished == (\A r \in Rank : hub[r].at = "down") /\ UNCHANGED vars

Next ==
    \/ \E r \in Rank : try_recv_control(r) \/ Emit(r) \/ NotDue(r) \/ Shutdown(r)
    \/ RankZero
    \/ \E r \in Rank \ {0} : Reset(r)
    \/ FlushFinal
    \/ \E c \in Client : Accept(c) \/ Disconnect(c)
    \/ BroadcastThread
    \/ \E line \in Line : ClientControl(parse_control_line(line))
    \/ ClientSnapshot
    \/ ClientSnapshotTooSoon
    \/ SnapshotExpires
    \/ FinalWaitExpires
    \/ FlushExpires
    \/ Finished

Spec == Init /\ [][Next]_vars

\* Threads and clocks go on; nothing makes a rank shut down.  Each conjunct is the weak
\* fairness of one thread or clock at one place, with ENABLED written out: what is enabled
\* there stays so until it is done, and doing it leaves the place, so WF says no more than
\* that the place is not occupied for ever.
FairSpec ==
    /\ Spec
    /\ \A p \in {"fanout", "regular", "final", "check", "stop"} : []<>(hub[0].at # p)
    /\ []<>~(hub[0].at = "join" /\ server.at = "ended")
    /\ []<>~(hub[0].at = "flush" /\ FlushEnds)
    /\ \A r \in Rank : []<>~(hub[r].at = "reset" /\ SendsComplete(r))
    /\ \A p \in {"push", "build", "flush"} : []<>(server.at # p)
    /\ []<>~(server.at = "drain" /\ (snapshot_ready \/ ~server.running))
    /\ []<>~FinalWaitRuns
    /\ []<>~FlushWaitRuns
    /\ []<>~SnapshotWaitRuns

-----------------------------------------------------------------------------
(* Properties *)

Place == {"loop", "tick", "fanout", "check", "stop", "join", "flush", "reset", "down"} \cup Tag
Interval == {i \in Int : 50 <= i /\ i <= 600000}
Hub == [at : Place, running : BOOLEAN, paused : BOOLEAN, interval : Interval, due : Nat,
        answered : Nat, seq : Nat]
Control == [kind : {"PAUSE", "RESUME"}, value : {0}]
             \cup [kind : {"SET_INTERVAL_MS"}, value : Interval]
             \cup [kind : {"SNAPSHOT"}, value : Nat]
Server == [at : {"drain", "push", "build", "flush", "ended"}, running : BOOLEAN,
           msg : Control \cup {None}, broadcast : Nat, line : BroadcastLine \cup {None},
           left : SUBSET Rank]
ClientFields == {"state", "outbox", "written", "got", "torn", "pushed"}

TypeOK ==
    /\ mode \in Modes
    /\ hub \in [Rank -> Hub]
    /\ wire \in [Rank -> [Tag -> Seq(Frame)]]
    /\ control \in [Rank -> Seq(Control)] /\ fanout \in Seq(Control)
    /\ latest \in [Rank -> Frame \cup {None}]
    /\ snapshot \in [requested : Nat, expired : BOOLEAN]
    /\ finals \in [received : 0 .. WorldSize, expired : BOOLEAN]
    /\ server \in Server
    /\ DOMAIN client = Client
    /\ \A c \in Client : /\ DOMAIN client[c] = ClientFields
                         /\ client[c].state \in {"none", "open", "closed"}
    /\ commands \in Nat /\ lines \in Nat

\* Once no control is on its way, every rank that still runs is paused or not and has the
\* interval as rank 0 does, whatever commands came while others were being passed on.
ControlsAgree ==
    \A r \in Live :
        hub[0].running /\ hub[r].running /\ server.at # "push" /\ fanout = <<>> /\ control[r] = <<>>
            => hub[r].paused = hub[0].paused /\ hub[r].interval = hub[0].interval

\* The line broadcast for a snapshot whose wait has not expired has, of every rank, a frame
\* taken for this snapshot or a later one - although frames may be replaced while the line is
\* being built.  Only a rank that has sent its final frame may be shown with an older one.
SnapshotComplete ==
    server.at = "flush" /\ server.line # None =>
        \A r \in Live :
            \/ server.line.snapshot = 0
            \/ /\ server.line.frames[r] # None
               /\ server.line.frames[r].id >= server.line.snapshot
            \/ ~hub[r].running

\* "a client that reads slower than the stream skips whole lines and always keeps the newest
\* [...] never receives half a line": what a client has received is whole lines in order, but
\* for the last; what waits for it is bounded and ends with the newest line.
OutboxKeeps ==
    \A c \in Client :
        /\ ~client[c].torn
        /\ Len(client[c].outbox) <= OutboxLines + (IF client[c].written > 0 THEN 1 ELSE 0)
        /\ c \in Open /\ client[c].pushed # 0 =>
              Last(<<client[c].got[1]>> \o client[c].outbox) = client[c].pushed

\* "Regular frames first, so a rank's final frame lands in the sink after its earlier ones": what
\* rank 0 keeps of a rank is never replaced by an older frame.
LatestGoesForward ==
    [][\A r \in Rank : latest[r] # None => latest'[r].seq >= latest[r].seq]_vars

\* shutdown of a hub ends although clients may not read and other ranks may never shut down.
ShutdownEnds == \A r \in Rank : ~hub[r].running ~> hub[r].at = "down"

\* A snapshot is broadcast, with the frames there are if some rank does not answer, unless
\* the server is stopped first.
SnapshotAnswered == snapshot.requested # server.broadcast ~>
                        snapshot.requested = server.broadcast \/ ~server.running

-----------------------------------------------------------------------------
(* The inductive invariant *)

\* A rank is running until shutdown, which it enters from its loop.
RunningInv == \A r \in Rank :
    /\ hub[r].at \in {"loop", "tick", "fanout"} => hub[r].running
    /\ hub[r].running => r \in Live /\ hub[r].at \in {"loop", "tick", "fanout"} \cup Tag

\* Frames of one rank: f was taken before g, and answers no later snapshot; f was taken by a
\* hub that is now h.
NotNewer(f, g) == f.seq <= g.seq /\ f.id <= g.id
Older(f, h) == f.seq <= h.seq /\ f.id <= h.answered

\* The frames of a rank on their way are in the order in which they were taken, none is
\* newer than the hub, and the last one received is not newer than those - until the
\* final frame has overtaken the regular ones.
FramesOrdered(regular, final, last, h) ==
    /\ \A i, j \in DOMAIN regular : i <= j => NotNewer(regular[i], regular[j])
    /\ \A i \in DOMAIN regular : Older(regular[i], h) /\ (regular[i].final => ~h.running)
    /\ \A i \in DOMAIN final : final[i].seq = h.seq /\ final[i].id = h.answered /\ final[i].final
    /\ final # <<>> => ~h.running /\ Len(final) = 1
    /\ last # None => /\ Older(last, h)
                      /\ last.final => ~h.running
                      /\ last.final \/ \A i \in DOMAIN regular : NotNewer(last, regular[i])
FrameInv == \A r \in Rank :
    FramesOrdered(wire[r]["regular"], wire[r]["final"], latest[r], hub[r])

\* Every final frame received or on its way is that of another rank.
FinalsInv == finals.received + Cardinality({r \in Rank : wire[r]["final"] # <<>>})
                 <= Cardinality({r \in Rank : ~hub[r].running})

\* What rank r has yet to apply, in the order in which rank 0 applied it.
Passing == IF server.at = "push" THEN <<server.msg>> ELSE <<>>
Pending(r) == (control[r] \o fanout) \o Passing

\* What a control makes of m_paused, or of m_interval_ms.
Effect(m) == IF m.kind = "SET_INTERVAL_MS" THEN m.value ELSE m.kind = "PAUSE"

\* What a rank has will be what rank 0 has: the last control on its way that is of these
\* kinds makes it so, and without one it is so already.
Settled(todo, kinds, has, center) ==
    /\ \A i \in DOMAIN todo :
         todo[i].kind \in kinds /\ (\A j \in DOMAIN todo : j > i => todo[j].kind \notin kinds)
           => center = Effect(todo[i])
    /\ has = center \/ \E i \in DOMAIN todo : todo[i].kind \in kinds

\* The snapshots a rank has yet to answer are numbered upwards from the one it knows of.
SnapshotsAhead(todo, due, answered, requested) ==
    /\ \A i \in DOMAIN todo : todo[i].kind = "SNAPSHOT" =>
         due <= todo[i].value /\ answered <= todo[i].value /\ todo[i].value <= requested
    /\ \A i, j \in DOMAIN todo :
         i < j /\ todo[i].kind = "SNAPSHOT" /\ todo[j].kind = "SNAPSHOT" =>
           todo[i].value <= todo[j].value

Told(todo, h, center) ==
    /\ Settled(todo, {"PAUSE", "RESUME"}, h.paused, center.paused)
    /\ Settled(todo, {"SET_INTERVAL_MS"}, h.interval, center.interval)

ControlInv ==
    /\ control[0] = <<>>
    /\ server.at = "push" => server.msg \in Control /\ server.msg.kind # "SNAPSHOT"
    /\ \A r \in Rank : /\ hub[r].due <= snapshot.requested
                       /\ hub[r].answered <= snapshot.requested
                       /\ hub[r].due # 0 => hub[r].answered <= hub[r].due
    /\ \A r \in Live \ {0} : hub[r].running =>
         /\ Told(Pending(r), hub[r], hub[0])
         /\ SnapshotsAhead(Pending(r), hub[r].due, hub[r].answered, snapshot.requested)

\* The line under construction: its snapshot was answered by every rank before the first
\* frame was read, and stays answered.
LineInv ==
    /\ server.at = "build" => server.line \in BroadcastLine
    /\ server.at = "flush" => server.left = {}
    /\ server.line # None /\ server.line.snapshot # 0 =>
         \A r \in Live : hub[r].running =>
            LET f == IF r \in server.left THEN latest[r] ELSE server.line.frames[r]
            IN  f # None /\ f.id >= server.line.snapshot

\* The lines of an outbox are numbered upwards.
Rising(q) == \A i, j \in DOMAIN q : i < j => q[i] < q[j]

\* The outbox of a client that is connected, or not yet: lines in their order, the first of
\* which goes on where the client's last part ends, the last of which is the newest.
Stream(cs) ==
    /\ Rising(cs.outbox)
    /\ cs.got \in Nat \X (1 .. LineParts)
    /\ cs.written > 0 => cs.outbox # <<>> /\ cs.got = <<cs.outbox[1], cs.written>>
    /\ cs.written = 0 => /\ cs.got[2] = LineParts
                         /\ cs.outbox # <<>> => cs.got[1] < cs.outbox[1]
    /\ cs.pushed = IF cs.outbox = <<>> THEN cs.got[1] ELSE cs.outbox[Len(cs.outbox)]

OutboxOk(cs) ==
    /\ cs.outbox \in Seq(Nat) /\ cs.written \in 0 .. LineParts - 1 /\ cs.pushed \in Nat
    /\ ~cs.torn
    /\ Len(cs.outbox) <= OutboxLines + (IF cs.written > 0 THEN 1 ELSE 0)
    /\ cs.state # "closed" => Stream(cs)

\* The line that is to be queued is newer than what was queued before.
Fresh(no, cs) == cs.state # "closed" => cs.pushed < no

\* Every outbox is in order, and the line under construction is newer than what they hold.
OutboxInv ==
    /\ server.at \in {"build", "flush"} => server.line.no = lines
    /\ \A c \in Client :
         /\ OutboxOk(client[c])
         /\ Fresh(IF server.at \in {"build", "flush"} THEN lines ELSE lines + 1, client[c])

\* Hubs, frames, controls and the line under construction always fit each other: what is on
\* its way to a rank, from it and to the clients is in order and accounts for what rank 0 and
\* that rank know of each other (telemetry_hub.cpp, mpi_transport.cpp,
\* aggregator_tcp_server.cpp).
IInv == TypeOK /\ RunningInv /\ FrameInv /\ FinalsInv /\ ControlInv /\ LineInv /\ OutboxInv
=============================================================================
