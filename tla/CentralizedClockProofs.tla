----------------------- MODULE CentralizedClockProofs -----------------------
(***************************************************************************)
(* Proofs about the times the centralized scheduler reports, for any       *)
(* number of ranks and tasks and any size of m_assigned_at.                *)
(*                                                                         *)
(* A step with clocks is a step of the scheduler (Projects), so IInv of    *)
(* Centralized holds and is used before and after every step.  ClockInv    *)
(* adds what the clocks say.  Two of its parts are about the scheduler:    *)
(* the center leaves its loop on an acknowledgement only, and what the     *)
(* workers still send then is no RUNNING_STATE.  Without them the last     *)
(* AVAILABLE_STATE could go unrecorded and an assignment stay open.        *)
(***************************************************************************)
EXTENDS CentralizedClock, CentralizedProofs

USE DEF detectorVars, channelVars, managerVars, centerVars, collectVars, sentVars,
        receivedVars, worldVars, historyVars

-----------------------------------------------------------------------------
(* The events of a clock *)

\* What every event does to the parts of a clock.
LEMMA Events ==
    ASSUME NEW c \in Clock, NEW n \in Nat, NEW e \in BOOLEAN
    PROVE  /\ on_run_start(c) = [c EXCEPT !.in_run = TRUE] /\ on_run_start(c) \in Clock
           /\ on_run_end(c) \in Clock
           /\ on_worker_waiting(c) \in Clock /\ on_worker_running(c) \in Clock
           /\ on_assignment(c, n) \in Clock /\ on_assignment_accepted(c, n) \in Clock
           /\ on_coordinator_queue(c, n, e) \in Clock
           /\ on_coordinator_full(c) \in Clock /\ on_coordinator_free(c) \in Clock
<1>1. on_run_start(c) = [c EXCEPT !.in_run = TRUE] /\ on_run_start(c) \in Clock
  BY DEF Clock, on_run_start
<1>2. on_run_end(c) \in Clock
  BY DEF Clock, on_run_end
<1>3. on_worker_waiting(c) \in Clock /\ on_worker_running(c) \in Clock
  BY DEF Clock, on_worker_waiting, on_worker_running
<1>4. on_assignment(c, n) \in Clock /\ on_assignment_accepted(c, n) \in Clock
  BY DEF Clock, on_assignment, on_assignment_accepted
<1>5. on_coordinator_queue(c, n, e) \in Clock
  BY DEF Clock, on_coordinator_queue
<1>6. on_coordinator_full(c) \in Clock /\ on_coordinator_free(c) \in Clock
  BY DEF Clock, on_coordinator_full, on_coordinator_free
<1> QED
  BY <1>1, <1>2, <1>3, <1>4, <1>5, <1>6

\* Recording changes one clock.
LEMMA Recorded ==
    ASSUME ClockTypeOK, NEW r \in Rank, NEW c \in Clock, Record(r, c)
    PROVE  ClockTypeOK' /\ clock'[r] = c /\ \A q \in Rank : q # r => clock'[q] = clock[q]
  BY DEF ClockTypeOK, Record

\* A step with clocks is a step of the scheduler.
LEMMA Projects == [ClockNext]_clockVars => [Next]_vars
<1>1. ClockNext => Next
  BY DEF ClockNext, RecordStart, RecordRunning, RecordWaiting, RecordEnd, RecordAccepted,
         RecordAssignment, RecordRound, RecordNotice, RecordCollected, Unrecorded,
         UnrecordedMain, UnrecordedCenter, UnrecordedPool, Next, CenterThread, MainThread
<1> QED
  BY <1>1 DEF clockVars

-----------------------------------------------------------------------------
(* What a step has to keep *)

\* A worker's clock is kept with the worker's phase.
LEMMA WorkersKept ==
    ASSUME WorkerClocks, NEW S \in SUBSET Worker,
           \A v \in S : /\ clock'[v] = clock[v]
                        /\ \/ pc'[v] = pc[v]
                           \/ pc[v] \notin Idle /\ pc'[v] \notin Idle
                           \/ pc[v] \in Idle \ {"done"} /\ pc'[v] \in Idle \ {"done"}
    PROVE  \A v \in S : /\ clock'[v].in_run <=> pc'[v] # "done"
                        /\ pc'[v] \in Idle \ {"done"} => clock'[v].phase = "WAITING"
                        /\ pc'[v] \notin Idle => clock'[v].phase = "RUNNING"
  BY DEF WorkerClocks, Idle

\* The center's clock is kept with what it is about.
LEMMA CenterKept ==
    ASSUME CenterClock, clock'[Center] = clock[Center], deficit'[Center] = deficit[Center],
           UNCHANGED <<cpc, nodes_available, center_queue>>
    PROVE  CenterClock'
  BY DEF CenterClock

\* Nothing is told to the workers.
LEMMA FullKept ==
    ASSUME FullTimed, clock'[Center].full = clock[Center].full,
           \A v \in Worker : Told(v)' = Told(v)
    PROVE  FullTimed'
  BY DEF FullTimed

\* Nothing is assigned, and no assignment accepted.
LEMMA AssignmentsKept ==
    ASSUME AssignmentInv, clock'[Center].assigned = clock[Center].assigned,
           \A v \in Worker :
             /\ Given(v)' <=> Given(v)
             /\ Accepts(v)' <=> Accepts(v)
             /\ Accepts(v) => cpc' \notin Over
             /\ NoneBehind(to_center', v, "RUNNING_STATE", {"RUNNING_STATE"})
             /\ parent'[v] = None => Followed(to_center', v, "RUNNING_STATE", "TASK_RECEIVED")
    PROVE  AssignmentInv'
  BY DEF AssignmentInv

\* A step of a worker between its messages.
LEMMA LocalStep ==
    ASSUME TimedInv, UNCHANGED <<clock, cpc, centerVars, deficit, parent, worldVars, notices,
                                 is_center_full>>,
           \A v \in Worker : pc'[v] = pc[v] \/ (pc[v] \notin Idle /\ pc'[v] \notin Idle)
    PROVE  ClockInv'
<1>1. ClockTypeOK /\ WorkerClocks /\ CenterClock /\ FullTimed /\ AssignmentInv
  BY DEF TimedInv, ClockInv
<1>2. ClockTypeOK'
  BY <1>1 DEF ClockTypeOK
<1>3. WorkerClocks'
  BY <1>1, WorkersKept DEF WorkerClocks
<1>4. CenterClock'
  BY <1>1, CenterKept
<1>5. FullTimed'
  BY <1>1, FullKept DEF Told
<1>6. AssignmentInv'
  BY <1>1, AssignmentsKept DEF AssignmentInv, Given, Accepts
<1> QED
  BY <1>2, <1>3, <1>4, <1>5, <1>6 DEF ClockInv

\* The steps of task_funneling and of the pool that send and receive nothing.
LEMMA LocalSteps ==
    ASSUME TimedInv, IInv', UNCHANGED clock, NEW w \in Worker,
           \/ FirstPop(w) \/ TaskSent(w) \/ ProposalMatched(w) \/ CheckQueue(w) \/ CheckDone(w)
           \/ Push(w) \/ (\E s \in Scores : FindResult(w, s)) \/ PoolDone(w)
    PROVE  ClockInv'
<1>1. \A v \in Worker : pc[v] \in MainPC /\ pc'[v] # "threw" /\ pc \in [Worker -> MainPC]
  BY DEF TimedInv, IInv, WorkerInv, TypeOK, WorkerTypes
<1>2. CASE FirstPop(w) \/ CheckQueue(w)
  <2>1. UNCHANGED <<clock, cpc, centerVars, deficit, parent, worldVars, notices, is_center_full>>
    BY <1>2 DEF FirstPop, CheckQueue, PopBundle
  <2>2. \A v \in Worker : pc'[v] = pc[v] \/ (pc[v] \notin Idle /\ pc'[v] \notin Idle)
    BY <1>1, <1>2 DEF FirstPop, CheckQueue, PopBundle, Idle
  <2> QED
    BY <2>1, <2>2, LocalStep
<1>3. CASE TaskSent(w)
  <2>1. queue[w] = <<>>
    BY <1>1, <1>3 DEF TaskSent, Throw
  <2>2. UNCHANGED <<clock, cpc, centerVars, deficit, parent, worldVars, notices, is_center_full>>
    BY <1>3, <2>1 DEF TaskSent
  <2>3. \A v \in Worker : pc'[v] = pc[v] \/ (pc[v] \notin Idle /\ pc'[v] \notin Idle)
    BY <1>1, <1>3, <2>1 DEF TaskSent, Idle
  <2> QED
    BY <2>2, <2>3, LocalStep
<1>4. CASE ProposalMatched(w)
  <2>1. \A v \in Worker : pc'[v] = pc[v] \/ (pc[v] \notin Idle /\ pc'[v] \notin Idle)
    BY <1>1, <1>4 DEF ProposalMatched, Idle
  <2> QED
    BY <1>4, <2>1, LocalStep DEF ProposalMatched
<1>5. CASE CheckDone(w)
  <2>1. UNCHANGED <<clock, cpc, centerVars, deficit, parent, worldVars, notices, is_center_full>>
    BY <1>5 DEF CheckDone, PopBundle
  <2>2. \A v \in Worker : pc'[v] = pc[v] \/ (pc[v] \notin Idle /\ pc'[v] \notin Idle)
    BY <1>1, <1>5 DEF CheckDone, PopBundle, Idle
  <2> QED
    BY <2>1, <2>2, LocalStep
<1>6. CASE Push(w)
  <2>1. pc' = pc
    BY <1>1, <1>6 DEF Push
  <2> QED
    BY <1>6, <2>1, LocalStep DEF Push
<1>7. CASE \E s \in Scores : FindResult(w, s)
  BY <1>7, LocalStep DEF FindResult
<1>8. CASE PoolDone(w)
  BY <1>8, LocalStep DEF PoolDone
<1> QED
  BY <1>2, <1>3, <1>4, <1>5, <1>6, <1>7, <1>8

\* A worker reads notices in its probe loop or in task_funneling: it was told the same.
LEMMA NoticesRead ==
    ASSUME TimedInv, IInv', UNCHANGED clock, NEW w \in Worker, ReceiveNotice(w) \/ PollCenter(w)
    PROVE  ClockInv'
<1>1. ClockTypeOK /\ WorkerClocks /\ CenterClock /\ FullTimed /\ AssignmentInv
  BY DEF TimedInv, ClockInv
<1>2. /\ ScoreTypes /\ StreamTypes /\ pc \in [Worker -> MainPC]
      /\ score_updates[w] \in Seq(Scores) /\ notices[w] \in Seq(BOOLEAN)
  BY DEF TimedInv, IInv, TypeOK, WorkerTypes, StreamTypes, Net
<1>3. PICK ns \in 0 .. Len(score_updates[w]), nn \in 0 .. Len(notices[w]) :
        ReceiveFromCenter(w, ns, nn)
  <2>1. CASE score_updates[w] # <<>> /\ ReceiveFromCenter(w, 1, 0)
    <3>1. 1 \in 0 .. Len(score_updates[w]) /\ 0 \in 0 .. Len(notices[w])
      BY <1>2, <2>1
    <3> QED
      BY <2>1, <3>1
  <2>2. CASE notices[w] # <<>> /\ ReceiveFromCenter(w, 0, 1)
    <3>1. 0 \in 0 .. Len(score_updates[w]) /\ 1 \in 0 .. Len(notices[w])
      BY <1>2, <2>2
    <3> QED
      BY <2>2, <3>1
  <2>3. CASE PollCenter(w)
    <3>1. PICK ns \in maybe_receive(score_updates[w]), nn \in maybe_receive(notices[w]) :
            ReceiveFromCenter(w, ns, nn)
      BY <2>3 DEF PollCenter
    <3>2. ns \in 0 .. Len(score_updates[w])
      BY <1>2 DEF maybe_receive
    <3>3. nn \in 0 .. Len(notices[w])
      BY <1>2 DEF maybe_receive
    <3> QED
      BY <3>1, <3>2, <3>3
  <2> QED
    BY <2>1, <2>2, <2>3 DEF ReceiveNotice
<1>4. \A v \in Worker : Told(v)' = Told(v)
  BY <1>2, <1>3, Reading
<1>5. UNCHANGED <<clock, cpc, centerVars, deficit, parent, worldVars>>
  BY DEF ReceiveNotice, PollCenter
<1>6. \A v \in Worker : pc'[v] = pc[v] \/ (pc[v] \notin Idle /\ pc'[v] \notin Idle)
  BY <1>2 DEF ReceiveNotice, PollCenter, update_score, Idle
<1>7. ClockTypeOK'
  BY <1>1, <1>5 DEF ClockTypeOK
<1>8. WorkerClocks'
  BY <1>1, <1>5, <1>6, WorkersKept DEF WorkerClocks
<1>9. CenterClock'
  BY <1>1, <1>5, CenterKept
<1>10. FullTimed'
  BY <1>1, <1>4, <1>5, FullKept
<1>11. AssignmentInv'
  BY <1>1, <1>5, AssignmentsKept DEF AssignmentInv, Given, Accepts
<1> QED
  BY <1>7, <1>8, <1>9, <1>10, <1>11 DEF ClockInv

-----------------------------------------------------------------------------
(* What a message does to the answers on their way *)

RunningIn(net, v) == \E m \in Messages(net, v) : m.tag = "RUNNING_STATE"
OneRunning(net, v) == NoneBehind(net, v, "RUNNING_STATE", {"RUNNING_STATE"})
RunningAcked(net, v) == Followed(net, v, "RUNNING_STATE", "TASK_RECEIVED")

\* A worker sends something else: an acknowledgement is behind every RUNNING_STATE it sent.
LEMMA PostOther ==
    ASSUME NEW net \in Net(Worker, ToCenter), NEW w \in Worker, NEW m \in ToCenter,
           m.tag # "RUNNING_STATE"
    PROVE  /\ Post(net, w, m) \in Net(Worker, ToCenter)
           /\ \A v \in Worker :
                /\ RunningIn(Post(net, w, m), v) <=> RunningIn(net, v)
                /\ OneRunning(net, v) => OneRunning(Post(net, w, m), v)
                /\ RunningAcked(net, v) => RunningAcked(Post(net, w, m), v)
           /\ m.tag = "TASK_RECEIVED" => RunningAcked(Post(net, w, m), w)
<1> DEFINE new == Post(net, w, m)
<1>1. /\ new \in Net(Worker, ToCenter)
      /\ \A v \in Worker : \A x : x \in Messages(new, v) <=> x \in Messages(net, v) \/ (v = w /\ x = m)
  BY PostIn
<1>2. \A v \in Worker : RunningIn(new, v) <=> RunningIn(net, v)
  BY <1>1 DEF RunningIn
<1>3. \A v \in Worker : OneRunning(net, v) => OneRunning(new, v)
  BY PostBehind DEF OneRunning
<1>4. \A v \in Worker : RunningAcked(net, v) => RunningAcked(new, v)
  BY PostFollowed DEF RunningAcked
<1>5. m.tag = "TASK_RECEIVED" => RunningAcked(new, w)
  BY PostFollowed DEF RunningAcked
<1> QED
  BY <1>1, <1>2, <1>3, <1>4, <1>5

\* release_parent_if_passive acknowledges after everything else.
LEMMA ReleaseOther ==
    ASSUME IInv, NEW w \in Worker, NEW net \in Net(Worker, ToCenter), NEW d,
           release_parent_if_passive(w, net, d), parent[w] # None,
           \A v \in Worker : OneRunning(net, v),
           \A v \in Worker : parent[v] = None => RunningAcked(net, v)
    PROVE  \A v \in Worker : /\ RunningIn(to_center', v) <=> RunningIn(net, v)
                             /\ OneRunning(to_center', v)
                             /\ parent'[v] = None => RunningAcked(to_center', v)
<1> DEFINE m == TaskMsg("TASK_RECEIVED", held[w])
<1>1. /\ parent \in [Rank -> {None, Center}] /\ held[w] \in Task /\ w \in Rank
      /\ Worker \subseteq Rank
  BY Ranks DEF IInv, DetectorInv, TypeOK, DetectorTypes
<1>2. m \in ToCenter /\ m.tag = "TASK_RECEIVED"
  BY <1>1, MessageTypes
<1> HIDE DEF m
<1>3. CASE d = 0
  <2>1. to_center' = Post(net, w, m) /\ parent' = [parent EXCEPT ![w] = None]
    BY <1>3 DEF release_parent_if_passive, m
  <2>2. /\ \A v \in Worker : /\ RunningIn(to_center', v) <=> RunningIn(net, v)
                             /\ OneRunning(net, v) => OneRunning(to_center', v)
                             /\ RunningAcked(net, v) => RunningAcked(to_center', v)
        /\ RunningAcked(to_center', w)
    BY <1>2, <2>1, PostOther
  <2>3. \A v \in Worker : v # w => parent'[v] = parent[v]
    BY <1>1, <2>1
  <2> QED
    BY <2>2, <2>3
<1>4. CASE d # 0
  BY <1>4 DEF release_parent_if_passive
<1> QED
  BY <1>3, <1>4

\* The center receives a message.
LEMMA DropAny ==
    ASSUME NEW net \in Net(Worker, ToCenter), NEW w \in Worker, net[w] # <<>>
    PROVE  /\ Drop(net, w) \in Net(Worker, ToCenter)
           /\ \A v \in Worker :
                /\ RunningIn(Drop(net, w), v) => RunningIn(net, v)
                /\ v # w \/ Head(net[w]).tag # "RUNNING_STATE" =>
                     (RunningIn(net, v) => RunningIn(Drop(net, w), v))
                /\ OneRunning(net, v) => OneRunning(Drop(net, w), v)
                /\ RunningAcked(net, v) => RunningAcked(Drop(net, w), v)
           /\ OneRunning(net, w) /\ Head(net[w]).tag = "RUNNING_STATE" =>
                ~RunningIn(Drop(net, w), w)
           /\ Head(net[w]).tag = "RUNNING_STATE" => RunningIn(net, w)
<1> DEFINE new == Drop(net, w)
           h == Head(net[w])
<1>1. /\ new \in Net(Worker, ToCenter)
      /\ \A v \in Worker : \A x :
           /\ x \in Messages(new, v) => x \in Messages(net, v)
           /\ x \in Messages(net, v) => x \in Messages(new, v) \/ (v = w /\ x = h)
  BY DropIn
<1>2. h \in Messages(net, w)
  BY MessagesType
<1> HIDE DEF new, h
<1>3. \A v \in Worker : RunningIn(new, v) => RunningIn(net, v)
  BY <1>1 DEF RunningIn
<1>4. \A v \in Worker : v # w \/ h.tag # "RUNNING_STATE" => (RunningIn(net, v) => RunningIn(new, v))
  BY <1>1 DEF RunningIn
<1>5. h.tag = "RUNNING_STATE" => RunningIn(net, w)
  BY <1>2 DEF RunningIn
<1>6. \A v \in Worker : OneRunning(net, v) => OneRunning(new, v)
  BY DropBehind DEF OneRunning, new
<1>7. \A v \in Worker : RunningAcked(net, v) => RunningAcked(new, v)
  BY DropFollowed DEF RunningAcked, new
<1>8. OneRunning(net, w) /\ h.tag = "RUNNING_STATE" => ~RunningIn(new, w)
  <2>1. OneRunning(net, w) /\ h.tag = "RUNNING_STATE" =>
          \A x \in Messages(new, w) : x.tag \notin {"RUNNING_STATE"}
    BY DropBehind DEF OneRunning, new, h
  <2> QED
    BY <2>1 DEF RunningIn
<1> QED
  BY <1>1, <1>3, <1>4, <1>5, <1>6, <1>7, <1>8 DEF new, h

\* AssignmentInv and AssignmentsKept in these terms.
LEMMA InTheseTerms ==
    /\ \A v \in Worker : Accepts(v) <=> RunningIn(to_center, v)
    /\ AssignmentInv => \A v \in Worker : OneRunning(to_center, v)
    /\ AssignmentInv => \A v \in Worker : parent[v] = None => RunningAcked(to_center, v)
    /\ AssignmentInv => \A v \in Worker : ~(Given(v) /\ RunningIn(to_center, v))
    /\ AssignmentInv => \A v \in Worker : RunningIn(to_center, v) => cpc \notin Over
  BY DEF AssignmentInv, Accepts, RunningIn, OneRunning, RunningAcked

\* The answers are the same ones, and no task is given.
LEMMA SameAnswers ==
    ASSUME AssignmentInv, clock'[Center].assigned = clock[Center].assigned,
           \A v \in Worker :
             /\ Given(v)' <=> Given(v)
             /\ RunningIn(to_center', v) <=> RunningIn(to_center, v)
             /\ RunningIn(to_center', v) => cpc' \notin Over
             /\ OneRunning(to_center', v)
             /\ parent'[v] = None => RunningAcked(to_center', v)
    PROVE  AssignmentInv'
<1>1. \A v \in Worker : (Accepts(v) <=> RunningIn(to_center, v))
                        /\ (Accepts(v)' <=> RunningIn(to_center', v))
  BY DEF Accepts, RunningIn
<1> QED
  BY <1>1, AssignmentsKept DEF OneRunning, RunningAcked

-----------------------------------------------------------------------------
(* Steps of a worker with messages *)

\* A worker's step that leaves the center alone: what is left to show.
LEMMA WorkerStep ==
    ASSUME TimedInv, ClockTypeOK', clock'[Center] = clock[Center],
           deficit'[Center] = deficit[Center], UNCHANGED <<cpc, centerVars>>,
           \A v \in Worker : Told(v)' = Told(v),
           WorkerClocks', AssignmentInv'
    PROVE  ClockInv'
<1>1. ClockTypeOK /\ WorkerClocks /\ CenterClock /\ FullTimed /\ AssignmentInv
  BY DEF TimedInv, ClockInv
<1>2. CenterClock'
  BY <1>1, CenterKept
<1>3. FullTimed'
  BY <1>1, FullKept
<1> QED
  BY <1>2, <1>3 DEF ClockInv

\* The parts of the invariant, and that the center is no worker.
LEMMA Parts ==
    ASSUME TimedInv
    PROVE  /\ IInv /\ ClockTypeOK /\ WorkerClocks /\ CenterClock /\ FullTimed /\ AssignmentInv
           /\ DetectorInv /\ PhaseInv /\ AvailableInv /\ WorkerInv
           /\ to_center \in Net(Worker, ToCenter) /\ to_worker \in Net(Worker, ToWorker)
           /\ pc \in [Worker -> MainPC] /\ deficit \in [Rank -> Nat]
           /\ parent \in [Rank -> {None, Center}]
           /\ Center \notin Worker /\ Worker \subseteq Rank /\ Center \in Rank
  BY Ranks DEF TimedInv, ClockInv, IInv, TypeOK, WorldTypes, WorkerTypes, DetectorTypes

\* send_task_to_center
LEMMA SendTaskTimed ==
    ASSUME TimedInv, UNCHANGED clock, NEW w \in Worker, SendTask(w)
    PROVE  ClockInv'
<1> DEFINE m == TaskMsg("TASK_FOR_CENTER", bundle[w])
<1>1. /\ pc[w] = "send" /\ deficit' = [deficit EXCEPT ![w] = @ + 1]
      /\ to_center' = Post(to_center, w, m) /\ pc' = [pc EXCEPT ![w] = "sending"]
      /\ UNCHANGED <<clock, parent, is_center_full, cpc, centerVars, to_worker, notices>>
  BY DEF SendTask
<1>2. m \in ToCenter /\ m.tag = "TASK_FOR_CENTER"
  <2>1. bundle[w] \in Task
    BY <1>1, Parts DEF WorkerInv
  <2> QED
    BY <2>1, MessageTypes
<1> HIDE DEF m
<1>3. deficit'[Center] = deficit[Center] /\ ClockTypeOK'
  BY <1>1, Parts DEF ClockTypeOK
<1>4. \A v \in Worker : pc'[v] = pc[v] \/ (pc[v] \notin Idle /\ pc'[v] \notin Idle)
  BY <1>1, Parts DEF Idle
<1>5. WorkerClocks'
  BY <1>1, <1>4, Parts, WorkersKept DEF WorkerClocks
<1>6. \A v \in Worker : /\ RunningIn(to_center', v) <=> RunningIn(to_center, v)
                        /\ OneRunning(to_center, v) => OneRunning(to_center', v)
                        /\ RunningAcked(to_center, v) => RunningAcked(to_center', v)
  BY <1>1, <1>2, Parts, PostOther
<1>7. AssignmentInv'
  BY <1>1, <1>6, Parts, InTheseTerms, SameAnswers DEF Given
<1>8. \A v \in Worker : Told(v)' = Told(v)
  BY <1>1 DEF Told
<1> QED
  BY <1>1, <1>3, <1>5, <1>7, <1>8, WorkerStep

\* A worker takes the message h, which is no task, from the center.
LEMMA TakenOther ==
    ASSUME IInv, NEW w \in Worker, to_worker[w] # <<>>,
           Head(to_worker[w]).tag # "TASK_FROM_CENTER", to_worker' = Drop(to_worker, w)
    PROVE  \A v \in Worker : Given(v)' <=> Given(v)
<1>1. to_worker \in Net(Worker, ToWorker)
  BY DEF IInv, TypeOK, WorldTypes
<1> DEFINE h == Head(to_worker[w])
<1>2. \A v \in Worker : \A x :
        /\ x \in Messages(to_worker', v) => x \in Messages(to_worker, v)
        /\ x \in Messages(to_worker, v) => x \in Messages(to_worker', v) \/ (v = w /\ x = h)
  BY <1>1, DropIn
<1> QED
  BY <1>2 DEF Given

\* process_task_received_ack, then release_parent_if_passive
LEMMA ReceiveAckTimed ==
    ASSUME TimedInv, IInv', UNCHANGED clock, NEW w \in Worker, ReceiveAck(w)
    PROVE  ClockInv'
<1>1. \A v \in Worker : pc'[v] # "threw"
  BY DEF IInv, WorkerInv
<1>2. /\ pc[w] = "probe" /\ to_worker[w] # <<>> /\ Head(to_worker[w]).tag = "TASK_RECEIVED"
  BY DEF ReceiveAck, Arrived
<1>3. deficit[w] # 0
  BY <1>1, Parts DEF ReceiveAck, Throw
<1>4. /\ deficit' = [deficit EXCEPT ![w] = @ - 1] /\ to_worker' = Drop(to_worker, w)
      /\ release_parent_if_passive(w, to_center, deficit[w] - 1)
      /\ UNCHANGED <<clock, pc, is_center_full, cpc, centerVars, notices>>
  BY <1>3 DEF ReceiveAck
<1>5. parent[w] # None
  BY <1>3, Parts DEF DetectorInv
<1>6. \A v \in Worker : /\ RunningIn(to_center', v) <=> RunningIn(to_center, v)
                        /\ OneRunning(to_center', v)
                        /\ parent'[v] = None => RunningAcked(to_center', v)
  BY <1>4, <1>5, Parts, InTheseTerms, ReleaseOther
<1>7. \A v \in Worker : Given(v)' <=> Given(v)
  BY <1>2, <1>4, Parts, TakenOther
<1>8. AssignmentInv'
  BY <1>4, <1>6, <1>7, Parts, InTheseTerms, SameAnswers
<1>9. deficit'[Center] = deficit[Center] /\ ClockTypeOK'
  BY <1>4, Parts DEF ClockTypeOK
<1>10. WorkerClocks' /\ \A v \in Worker : Told(v)' = Told(v)
  BY <1>4, Parts DEF WorkerClocks, Told
<1> QED
  BY <1>4, <1>8, <1>9, <1>10, WorkerStep

\* process_termination, up to the barrier
LEMMA ReceiveTerminationTimed ==
    ASSUME TimedInv, IInv', UNCHANGED clock, NEW w \in Worker, ReceiveTermination(w)
    PROVE  ClockInv'
<1> DEFINE sent == Head(to_worker[w]).counts
           ns == pending(sent[1], score_updates_received[w])
           nn == pending(sent[2], notices_received[w])
<1>1. \A v \in Worker : pc'[v] # "threw"
  BY DEF IInv, WorkerInv
<1>2. /\ pc[w] = "probe" /\ to_worker[w] # <<>> /\ Head(to_worker[w]).tag = "TERMINATION"
  BY DEF ReceiveTermination, Arrived
<1>3. /\ ~(ns < 0) /\ ~(nn < 0) /\ ns <= Len(score_updates[w]) /\ nn <= Len(notices[w])
      /\ ReceiveFromCenter(w, ns, nn)
      /\ to_worker' = Drop(to_worker, w) /\ pc' = [pc EXCEPT ![w] = "barrier"]
      /\ UNCHANGED <<clock, deficit, parent, cpc, centerVars, to_center>>
  BY <1>1, Parts DEF ReceiveTermination, Throw
<1>4. ScoreTypes /\ StreamTypes
  BY Parts DEF IInv, TypeOK
<1>5. ns \in Int /\ nn \in Int
  <2>1. Head(to_worker[w]) \in ToWorker /\ sent \in Nat \X Nat
    BY <1>2, Parts, MessagesType, MessageTypes
  <2>2. sent[1] \in Nat /\ sent[2] \in Nat
    BY <2>1
  <2> QED
    BY <2>2, <1>4 DEF StreamTypes, pending
<1> HIDE DEF ns, nn
<1>6. score_updates[w] \in Seq(Scores) /\ notices[w] \in Seq(BOOLEAN)
  BY <1>4 DEF StreamTypes, Net
<1>7. ns \in 0 .. Len(score_updates[w])
  BY <1>3, <1>5, <1>6
<1>8. nn \in 0 .. Len(notices[w])
  BY <1>3, <1>5, <1>6
<1>9. \A v \in Worker : Told(v)' = Told(v)
  BY <1>3, <1>4, <1>7, <1>8, Reading
<1>10. \A v \in Worker : pc'[v] = pc[v] \/ (pc[v] \in Idle \ {"done"} /\ pc'[v] \in Idle \ {"done"})
  BY <1>2, <1>3, Parts DEF Idle
<1>11. WorkerClocks'
  BY <1>3, <1>10, Parts, WorkersKept DEF WorkerClocks
<1>12. \A v \in Worker : Given(v)' <=> Given(v)
  BY <1>2, <1>3, Parts, TakenOther
<1>13. AssignmentInv'
  BY <1>3, <1>12, Parts, InTheseTerms, SameAnswers
<1>14. deficit'[Center] = deficit[Center] /\ ClockTypeOK'
  BY <1>3, Parts DEF ClockTypeOK
<1> QED
  BY <1>3, <1>9, <1>11, <1>13, <1>14, WorkerStep

\* The end of process_message: the worker counts waiting time again.
LEMMA RecordWaitingNext ==
    ASSUME TimedInv, IInv', NEW w \in Worker, RecordWaiting(w)
    PROVE  ClockInv'
<1> DEFINE m == Msg("AVAILABLE_STATE")
           net == Post(to_center, w, m)
<1>1. \A v \in Worker : pc'[v] # "threw"
  BY DEF IInv, WorkerInv
<1>2. /\ pc[w] = "leave" /\ pc' = [pc EXCEPT ![w] = "probe"]
      /\ release_parent_if_passive(w, net, deficit[w])
      /\ UNCHANGED <<deficit, is_center_full, cpc, centerVars, to_worker, notices>>
      /\ Record(w, on_worker_waiting(clock[w]))
  BY <1>1, Parts DEF RecordWaiting, LeaveFunnel, Throw
<1>3. m \in ToCenter /\ m.tag = "AVAILABLE_STATE"
  BY MessageTypes
<1> HIDE DEF m
<1>4. /\ net \in Net(Worker, ToCenter)
      /\ \A v \in Worker : /\ RunningIn(net, v) <=> RunningIn(to_center, v)
                           /\ OneRunning(to_center, v) => OneRunning(net, v)
                           /\ RunningAcked(to_center, v) => RunningAcked(net, v)
  BY <1>3, Parts, PostOther
<1> HIDE DEF net
<1>5. parent[w] # None
  BY <1>2, Parts DEF DetectorInv, Idle
<1>6. \A v \in Worker : OneRunning(net, v) /\ (parent[v] = None => RunningAcked(net, v))
  BY <1>4, Parts, InTheseTerms
<1>7. \A v \in Worker : /\ RunningIn(to_center', v) <=> RunningIn(net, v)
                        /\ OneRunning(to_center', v)
                        /\ parent'[v] = None => RunningAcked(to_center', v)
  BY <1>2, <1>4, <1>5, <1>6, Parts, ReleaseOther
<1>8. clock[w] \in Clock /\ on_worker_waiting(clock[w]) \in Clock
  BY Parts, Events DEF ClockTypeOK
<1>9. /\ ClockTypeOK' /\ clock'[w] = on_worker_waiting(clock[w])
      /\ \A q \in Rank : q # w => clock'[q] = clock[q]
  BY <1>2, <1>8, Parts, Recorded
<1>10. clock'[Center] = clock[Center]
  BY <1>9, Parts
<1>11. AssignmentInv'
  BY <1>2, <1>4, <1>7, <1>10, Parts, InTheseTerms, SameAnswers DEF Given
<1>12. WorkerClocks'
  <2>1. clock[w].in_run /\ pc'[w] = "probe"
    BY <1>2, Parts DEF WorkerClocks
  <2>2. clock'[w].in_run /\ clock'[w].phase = "WAITING"
    BY <1>8, <1>9, <2>1 DEF on_worker_waiting, Clock
  <2>3. \A v \in Worker \ {w} : pc'[v] = pc[v] /\ clock'[v] = clock[v]
    BY <1>2, <1>9, Parts
  <2> QED
    BY <2>1, <2>2, <2>3, Parts DEF WorkerClocks, Idle
<1>13. \A v \in Worker : Told(v)' = Told(v)
  BY <1>2 DEF Told
<1> QED
  BY <1>2, <1>9, <1>10, <1>11, <1>12, <1>13, WorkerStep

\* send_final_solution_to_center, and run() returns.
LEMMA RecordEndNext ==
    ASSUME TimedInv, NEW w \in Worker, RecordEnd(w)
    PROVE  ClockInv'
<1> DEFINE m == IF result[w] = Nothing THEN Msg("NO_RESULT")
                ELSE [tag |-> "HAS_RESULT", score |-> score[w], packet |-> result[w]]
<1>1. /\ pc[w] = "result" /\ pc' = [pc EXCEPT ![w] = "done"]
      /\ to_center' = Post(to_center, w, m)
      /\ UNCHANGED <<deficit, parent, is_center_full, cpc, centerVars, to_worker, notices>>
      /\ Record(w, on_run_end(clock[w]))
  BY DEF RecordEnd, SendSolution
<1>2. m \in ToCenter /\ m.tag # "RUNNING_STATE"
  <2>1. score[w] \in Scores \cup {Default} /\ result[w] \in Scores \cup {Nothing}
    BY Parts DEF IInv, TypeOK, ScoreTypes
  <2>2. CASE result[w] = Nothing
    BY <2>2, MessageTypes
  <2>3. CASE result[w] # Nothing
    BY <2>1, <2>3 DEF ToCenter
  <2> QED
    BY <2>2, <2>3
<1> HIDE DEF m
<1>3. \A v \in Worker : /\ RunningIn(to_center', v) <=> RunningIn(to_center, v)
                        /\ OneRunning(to_center, v) => OneRunning(to_center', v)
                        /\ RunningAcked(to_center, v) => RunningAcked(to_center', v)
  BY <1>1, <1>2, Parts, PostOther
<1>4. clock[w] \in Clock /\ on_run_end(clock[w]) \in Clock
  BY Parts, Events DEF ClockTypeOK
<1>5. /\ ClockTypeOK' /\ clock'[w] = on_run_end(clock[w])
      /\ \A q \in Rank : q # w => clock'[q] = clock[q]
  BY <1>1, <1>4, Parts, Recorded
<1>6. clock'[Center] = clock[Center]
  BY <1>5, Parts
<1>7. AssignmentInv'
  BY <1>1, <1>3, <1>6, Parts, InTheseTerms, SameAnswers DEF Given
<1>8. WorkerClocks'
  <2>1. ~clock'[w].in_run /\ pc'[w] = "done"
    BY <1>1, <1>4, <1>5, Parts DEF on_run_end, Clock
  <2>2. \A v \in Worker \ {w} : pc'[v] = pc[v] /\ clock'[v] = clock[v]
    BY <1>1, <1>5, Parts
  <2> QED
    BY <2>1, <2>2, Parts DEF WorkerClocks, Idle
<1>9. \A v \in Worker : Told(v)' = Told(v)
  BY <1>1 DEF Told
<1> QED
  BY <1>1, <1>5, <1>6, <1>7, <1>8, <1>9, WorkerStep

\* process_message: the task is no longer on its way, and its RUNNING_STATE is.
LEMMA RecordRunningNext ==
    ASSUME TimedInv, IInv', NEW w \in Worker, RecordRunning(w)
    PROVE  ClockInv'
<1> DEFINE h == Head(to_worker[w])
           ack == TaskMsg("TASK_RECEIVED", h.task)
           running == Msg("RUNNING_STATE")
           net == IF parent[w] # None THEN Post(to_center, w, ack) ELSE to_center
<1>1. /\ pc[w] = "probe" /\ pc' = [pc EXCEPT ![w] = "pop"]
      /\ to_worker[w] # <<>> /\ h.tag = "TASK_FROM_CENTER"
      /\ to_worker' = Drop(to_worker, w) /\ to_center' = Post(net, w, running)
      /\ UNCHANGED <<deficit, is_center_full, cpc, centerVars, notices>>
      /\ Record(w, on_worker_running(clock[w]))
  BY DEF RecordRunning, ReceiveTask, Arrived
<1>2. IF parent[w] # None THEN parent' = parent ELSE parent' = [parent EXCEPT ![w] = Center]
  BY DEF RecordRunning, ReceiveTask
<1>3. h \in Messages(to_worker, w) /\ h.task \in Task
  BY <1>1, Parts, MessagesType, MessageTypes
<1>4. Given(w) /\ cpc \in {"loop", "dispatch", "sending"}
  BY <1>1, <1>3, Parts, StillOwed DEF Given
<1>5. /\ ack \in ToCenter /\ ack.tag = "TASK_RECEIVED"
      /\ running \in ToCenter /\ running.tag = "RUNNING_STATE"
  BY <1>3, MessageTypes
<1> HIDE DEF ack, running
<1>6. /\ net \in Net(Worker, ToCenter)
      /\ \A v \in Worker : RunningIn(net, v) <=> RunningIn(to_center, v)
      /\ \A v \in Worker : OneRunning(net, v)
      /\ \A v \in Worker : parent[v] = None => RunningAcked(net, v)
  <2>1. CASE parent[w] # None
    BY <1>5, <2>1, Parts, InTheseTerms, PostOther
  <2>2. CASE parent[w] = None
    BY <2>2, Parts, InTheseTerms
  <2> QED
    BY <2>1, <2>2
<1> HIDE DEF net
<1>7. ~RunningIn(net, w)
  BY <1>4, <1>6, Parts, InTheseTerms
<1>8. \A v \in Worker : \A x :
        x \in Messages(to_center', v) <=> x \in Messages(net, v) \/ (v = w /\ x = running)
  BY <1>1, <1>5, <1>6, PostIn
<1>9. \A v \in Worker : RunningIn(to_center', v) <=> RunningIn(to_center, v) \/ v = w
  BY <1>5, <1>6, <1>8 DEF RunningIn
<1>10. \A v \in Worker : OneRunning(to_center', v)
  <2>1. \A x \in Messages(net, w) : x.tag # "RUNNING_STATE"
    BY <1>7 DEF RunningIn
  <2> QED
    BY <1>1, <1>5, <1>6, <2>1, PostBehind DEF OneRunning
<1>11. \A v \in Worker : parent'[v] = None => RunningAcked(to_center', v)
  <2>1. parent'[w] # None
    BY <1>2, Parts DEF None, Center
  <2>2. \A v \in Worker \ {w} : parent'[v] = parent[v]
    BY <1>2, Parts
  <2>3. \A v \in Worker \ {w} : RunningAcked(net, v) => RunningAcked(to_center', v)
    BY <1>1, <1>5, <1>6, PostFollowed DEF RunningAcked
  <2> QED
    BY <1>6, <2>1, <2>2, <2>3
<1>12. \A v \in Worker : Given(v)' <=> Given(v) /\ v # w
  <2>1. ~Given(w)'
    <3>1. AvailableInv' /\ pc'[w] # "probe" /\ cpc' \in {"start", "loop", "dispatch", "sending"}
      BY <1>1, <1>4, Parts DEF IInv
    <3> QED
      BY <3>1 DEF AvailableInv
  <2>2. \A v \in Worker : \A x :
          /\ x \in Messages(to_worker', v) => x \in Messages(to_worker, v)
          /\ x \in Messages(to_worker, v) => x \in Messages(to_worker', v) \/ (v = w /\ x = h)
    BY <1>1, Parts, DropIn
  <2> QED
    BY <2>1, <2>2 DEF Given
<1>13. clock[w] \in Clock /\ on_worker_running(clock[w]) \in Clock
  BY Parts, Events DEF ClockTypeOK
<1>14. /\ ClockTypeOK' /\ clock'[w] = on_worker_running(clock[w])
       /\ \A q \in Rank : q # w => clock'[q] = clock[q]
  BY <1>1, <1>13, Parts, Recorded
<1>15. clock'[Center] = clock[Center]
  BY <1>14, Parts
<1>16. AssignmentInv'
  <2>1. \A v \in Worker : Accepts(v)' <=> RunningIn(to_center', v)
    BY DEF Accepts, RunningIn
  <2>2. \A v \in Worker : Accepts(v)' => cpc' \notin Over
    BY <1>1, <1>4 DEF Over
  <2>3. ASSUME NEW v \in Worker, v < MaxWorkers
        PROVE  v \in clock'[Center].assigned <=> Given(v)' \/ Accepts(v)'
    BY <1>4, <1>9, <1>12, <1>15, <2>1, <2>3, Parts, InTheseTerms DEF AssignmentInv
  <2>4. \A v \in Worker : ~(Given(v)' /\ Accepts(v)')
    BY <1>9, <1>12, <2>1, Parts, InTheseTerms
  <2> QED
    BY <1>10, <1>11, <2>2, <2>3, <2>4 DEF AssignmentInv, OneRunning, RunningAcked
<1>17. WorkerClocks'
  <2>1. clock[w].in_run /\ pc'[w] = "pop"
    BY <1>1, Parts DEF WorkerClocks
  <2>2. clock'[w].in_run /\ clock'[w].phase = "RUNNING"
    BY <1>13, <1>14, <2>1 DEF on_worker_running, Clock
  <2>3. \A v \in Worker \ {w} : pc'[v] = pc[v] /\ clock'[v] = clock[v]
    BY <1>1, <1>14, Parts
  <2> QED
    BY <2>1, <2>2, <2>3, Parts DEF WorkerClocks, Idle
<1>18. \A v \in Worker : Told(v)' = Told(v)
  BY <1>1 DEF Told
<1> QED
  BY <1>1, <1>14, <1>15, <1>16, <1>17, <1>18, WorkerStep

-----------------------------------------------------------------------------
(* Steps of the center *)

\* After a message that is no acknowledgement the center stays in its loop.
LEMMA GoesOn ==
    ASSUME TimedInv, cpc = "loop", AfterMessage, deficit' = deficit,
           center_queue \subseteq center_queue'
    PROVE  cpc' = "dispatch" /\ (deficit'[Center] > 0 \/ center_queue' # {})
<1>1. deficit[Center] > 0 \/ center_queue # {}
  BY Parts DEF CenterClock
<1> QED
  BY <1>1, Parts DEF AfterMessage

\* After a message the center has its queue recorded at the end of the round.
LEMMA RoundBegins ==
    ASSUME CenterClock, cpc = "loop", cpc' = "dispatch", clock'[Center].in_run = clock[Center].in_run,
           deficit'[Center] > 0 \/ center_queue' # {}
    PROVE  CenterClock'
  BY DEF CenterClock

\* process_running: the only answer to the assignment has arrived.
LEMMA RecordAcceptedNext ==
    ASSUME TimedInv, NEW w \in Worker, RecordAccepted(w)
    PROVE  ClockInv'
<1> DEFINE c == on_assignment_accepted(clock[Center], w)
<1>1. /\ cpc = "loop" /\ to_center[w] # <<>> /\ Head(to_center[w]).tag = "RUNNING_STATE"
      /\ to_center' = Drop(to_center, w) /\ AfterMessage
      /\ UNCHANGED <<deficit, parent, center_queue, pc, is_center_full, to_worker, notices>>
      /\ Record(Center, c)
  BY DEF RecordAccepted, ProcessRunning, Arrived
<1>2. cpc' = "dispatch" /\ (deficit'[Center] > 0 \/ center_queue' # {})
  BY <1>1, GoesOn
<1>3. clock[Center] \in Clock /\ c \in Clock
  <2>1. w \in Nat /\ TRUE \in BOOLEAN
    BY Ranks
  <2> QED
    BY <2>1, Parts, Events DEF ClockTypeOK
<1>4. /\ c.assigned = clock[Center].assigned \ {w} /\ c.in_run = clock[Center].in_run
      /\ c.full = clock[Center].full
  BY <1>3 DEF on_assignment_accepted, Clock
<1> HIDE DEF c
<1>5. /\ ClockTypeOK' /\ clock'[Center] = c
      /\ \A q \in Rank : q # Center => clock'[q] = clock[q]
  BY <1>1, <1>3, Parts, Recorded
<1>6. WorkerClocks'
  BY <1>1, <1>5, Parts DEF WorkerClocks
<1>7. CenterClock'
  BY <1>1, <1>2, <1>4, <1>5, Parts, RoundBegins
<1>8. FullTimed'
  BY <1>1, <1>4, <1>5, Parts, FullKept DEF Told
<1>9. /\ \A v \in Worker : /\ RunningIn(to_center', v) <=> RunningIn(to_center, v) /\ v # w
                           /\ OneRunning(to_center', v)
                           /\ parent[v] = None => RunningAcked(to_center', v)
      /\ RunningIn(to_center, w)
  BY <1>1, Parts, InTheseTerms, DropAny
<1>10. AssignmentInv'
  <2>1. \A v \in Worker : Accepts(v)' <=> RunningIn(to_center', v)
    BY DEF Accepts, RunningIn
  <2>2. \A v \in Worker : (Given(v)' <=> Given(v)) /\ parent'[v] = parent[v]
    BY <1>1 DEF Given
  <2>3. ~Given(w)
    BY <1>9, Parts, InTheseTerms
  <2>4. ASSUME NEW v \in Worker, v < MaxWorkers
        PROVE  v \in clock'[Center].assigned <=> Given(v)' \/ Accepts(v)'
    BY <1>4, <1>5, <1>9, <2>1, <2>2, <2>3, <2>4, Parts, InTheseTerms DEF AssignmentInv
  <2>5. \A v \in Worker : ~(Given(v)' /\ Accepts(v)')
    BY <1>9, <2>1, <2>2, Parts, InTheseTerms
  <2> QED
    BY <1>2, <1>9, <2>2, <2>4, <2>5 DEF AssignmentInv, OneRunning, RunningAcked, Over
<1> QED
  BY <1>5, <1>6, <1>7, <1>8, <1>10 DEF ClockInv

\* A message that changes no clock: what is left to show.
LEMMA UnrecordedRead ==
    ASSUME TimedInv, NEW w \in Worker, cpc = "loop", UNCHANGED <<clock, parent, pc>>,
           cpc' \in {"dispatch", "notify"}, CenterClock',
           \A v \in Worker : Told(v)' = Told(v),
           \A v \in Worker : Given(v)' <=> Given(v),
           \/ to_center' = to_center
           \/ /\ to_center[w] # <<>> /\ Head(to_center[w]).tag # "RUNNING_STATE"
              /\ to_center' = Drop(to_center, w),
           \A v \in Worker : cpc' = "notify" => ~RunningIn(to_center', v)
    PROVE  ClockInv'
<1>1. ClockTypeOK' /\ WorkerClocks'
  BY Parts DEF ClockTypeOK, WorkerClocks
<1>2. FullTimed'
  BY Parts, FullKept
<1>3. \A v \in Worker : /\ RunningIn(to_center', v) <=> RunningIn(to_center, v)
                        /\ OneRunning(to_center', v)
                        /\ parent[v] = None => RunningAcked(to_center', v)
  <2>1. CASE to_center' = to_center
    BY <2>1, Parts, InTheseTerms
  <2>2. CASE /\ to_center[w] # <<>> /\ Head(to_center[w]).tag # "RUNNING_STATE"
             /\ to_center' = Drop(to_center, w)
    BY <2>2, Parts, InTheseTerms, DropAny
  <2> QED
    BY <2>1, <2>2
<1>4. \A v \in Worker : RunningIn(to_center', v) => cpc' \notin Over
  BY DEF Over
<1>5. AssignmentInv'
  BY <1>3, <1>4, Parts, InTheseTerms, SameAnswers
<1> QED
  BY <1>1, <1>2, <1>5 DEF ClockInv

\* process_available
LEMMA ProcessAvailableTimed ==
    ASSUME TimedInv, UNCHANGED clock, NEW w \in Worker, ProcessAvailable(w)
    PROVE  ClockInv'
<1>1. /\ cpc = "loop" /\ to_center[w] # <<>> /\ Head(to_center[w]).tag = "AVAILABLE_STATE"
      /\ to_center' = Drop(to_center, w) /\ AfterMessage
      /\ UNCHANGED <<deficit, parent, center_queue, pc, is_center_full, to_worker, notices>>
  BY DEF ProcessAvailable, Arrived
<1>2. cpc' = "dispatch" /\ (deficit'[Center] > 0 \/ center_queue' # {})
  BY <1>1, GoesOn
<1>3. CenterClock'
  BY <1>1, <1>2, Parts, RoundBegins
<1> QED
  BY <1>1, <1>2, <1>3, UnrecordedRead DEF Told, Given

\* maybe_broadcast_global_score
LEMMA ReceiveProposalTimed ==
    ASSUME TimedInv, UNCHANGED clock, NEW w \in Worker, ReceiveProposal(w)
    PROVE  ClockInv'
<1>1. /\ cpc = "loop" /\ AfterMessage
      /\ UNCHANGED <<deficit, parent, center_queue, pc, is_center_full, to_center, to_worker,
                     notices>>
  BY DEF ReceiveProposal
<1>2. cpc' = "dispatch" /\ (deficit'[Center] > 0 \/ center_queue' # {})
  BY <1>1, GoesOn
<1>3. CenterClock'
  BY <1>1, <1>2, Parts, RoundBegins
<1> QED
  BY <1>1, <1>2, <1>3, UnrecordedRead DEF Told, Given

\* process_task_for_center
LEMMA ReceiveTaskForCenterTimed ==
    ASSUME TimedInv, UNCHANGED clock, NEW w \in Worker, ReceiveTaskForCenter(w)
    PROVE  ClockInv'
<1> DEFINE t == Head(to_center[w]).task
           m == TaskMsg("TASK_RECEIVED", t)
<1>1. /\ cpc = "loop" /\ to_center[w] # <<>> /\ Head(to_center[w]).tag = "TASK_FOR_CENTER"
      /\ center_queue' = center_queue \cup {t} /\ to_worker' = Post(to_worker, w, m)
      /\ to_center' = Drop(to_center, w) /\ AfterMessage
      /\ UNCHANGED <<deficit, parent, pc, is_center_full, notices>>
  BY DEF ReceiveTaskForCenter, Arrived
<1>2. cpc' = "dispatch" /\ (deficit'[Center] > 0 \/ center_queue' # {})
  BY <1>1, GoesOn
<1>3. m \in ToWorker /\ m.tag = "TASK_RECEIVED"
  <2>1. t \in Task
    BY <1>1, Parts, MessagesType, MessageTypes
  <2> QED
    BY <2>1, MessageTypes
<1> HIDE DEF m
<1>4. \A v \in Worker : Given(v)' <=> Given(v)
  <2>1. \A v \in Worker : \A x :
          x \in Messages(to_worker', v) <=> x \in Messages(to_worker, v) \/ (v = w /\ x = m)
    BY <1>1, <1>3, Parts, PostIn
  <2> QED
    BY <1>3, <2>1 DEF Given
<1>5. CenterClock'
  BY <1>1, <1>2, Parts, RoundBegins
<1> QED
  BY <1>1, <1>2, <1>4, <1>5, UnrecordedRead DEF Told

\* process_task_received_ack at the center: the last acknowledgement is behind every answer.
LEMMA CenterReceiveAckTimed ==
    ASSUME TimedInv, IInv', UNCHANGED clock, NEW w \in Worker, CenterReceiveAck(w)
    PROVE  ClockInv'
<1>1. /\ cpc = "loop" /\ to_center[w] # <<>> /\ Head(to_center[w]).tag = "TASK_RECEIVED"
      /\ UNCHANGED <<clock, pc, is_center_full, nodes_available, to_worker, notices>>
  BY DEF CenterReceiveAck, Arrived
<1>2. cpc' # "threw"
  BY DEF IInv, PhaseInv
<1>3. /\ deficit' = [deficit EXCEPT ![Center] = @ - 1] /\ to_center' = Drop(to_center, w)
      /\ UNCHANGED <<parent, center_queue>> /\ AfterMessage
  BY <1>2 DEF CenterReceiveAck
<1>4. deficit'[Center] \in Nat /\ cpc' \in {"dispatch", "notify"}
      /\ (cpc' = "notify" <=> deficit'[Center] = 0 /\ center_queue' = {})
  BY <1>3, Ranks DEF AfterMessage, IInv, TypeOK, DetectorTypes
<1>5. CenterClock'
  BY <1>1, <1>3, <1>4, Parts DEF CenterClock
<1>6. ASSUME NEW v \in Worker, cpc' = "notify" PROVE ~RunningIn(to_center', v)
  <2>1. /\ deficit'[Center] = 0 /\ DetectorInv' /\ to_center' \in Net(Worker, ToCenter)
    BY <1>4, <1>6 DEF IInv, TypeOK, WorldTypes
  <2>2. /\ Count(to_worker', Worker, "TASK_FROM_CENTER") \in Nat
        /\ Count(to_center', Worker, "TASK_RECEIVED") \in Nat
        /\ IsFiniteSet(Engaged') /\ Cardinality(Engaged') \in Nat
    <3>1. to_worker' \in Net(Worker, ToWorker) /\ Worker \in SUBSET Worker
      BY DEF IInv, TypeOK, WorldTypes
    <3>2. Engaged' \in SUBSET Worker
      BY DEF Engaged
    <3> QED
      BY <2>1, <3>1, <3>2, Ranks, CountNat, FS_Subset, FS_CardinalityType
  <2>3. Cardinality(Engaged') = 0 /\ Count(to_center', Worker, "TASK_RECEIVED") = 0
    BY <2>1, <2>2 DEF DetectorInv
  <2>4. parent'[v] = None
    <3>1. Engaged' = {}
      BY <2>2, <2>3, FS_EmptySet
    <3> QED
      BY <3>1 DEF Engaged
  <2>5. \A x \in Messages(to_center', v) : x.tag # "TASK_RECEIVED"
    BY <2>1, <2>3, CountNat, Ranks
  <2>6. RunningAcked(to_center', v)
    BY <1>1, <1>3, <2>4, Parts, InTheseTerms, DropAny
  <2> QED
    BY <2>5, <2>6, FollowedBy DEF RunningAcked, RunningIn
<1>7. \A v \in Worker : Told(v)' = Told(v) /\ (Given(v)' <=> Given(v))
  BY <1>1 DEF Told, Given
<1> QED
  BY <1>1, <1>3, <1>4, <1>5, <1>6, <1>7, UnrecordedRead

\* A step of the center that leaves the clocks alone, after its loop or between two sends.
LEMMA PhaseStep ==
    ASSUME TimedInv, UNCHANGED <<clock, deficit, parent, centerVars, to_center, is_center_full,
                                 notices>>,
           \/ cpc = "sending" /\ cpc' = "dispatch"
           \/ cpc = "notify" /\ cpc' = "barrier"
           \/ cpc = "barrier" /\ cpc' = "collect",
           \A v \in Worker : pc'[v] = pc[v] \/ (pc[v] = "barrier" /\ pc'[v] = "result"),
           \A v \in Worker : Given(v)' <=> Given(v)
    PROVE  ClockInv'
<1>1. ClockTypeOK' /\ CenterClock'
  BY Parts DEF ClockTypeOK, CenterClock
<1>2. WorkerClocks'
  BY Parts DEF WorkerClocks, Idle
<1>3. FullTimed'
  BY Parts, FullKept DEF Told
<1>4. \A v \in Worker : RunningIn(to_center', v) => cpc' \notin Over
  BY Parts, InTheseTerms DEF Over
<1>5. AssignmentInv'
  BY <1>4, Parts, InTheseTerms, SameAnswers
<1> QED
  BY <1>1, <1>2, <1>3, <1>5 DEF ClockInv

\* A send of clear_buffer returns; notify_termination; the barrier.
LEMMA PhaseSteps ==
    ASSUME TimedInv, UNCHANGED clock, DispatchSent \/ NotifyTermination \/ Barrier
    PROVE  ClockInv'
<1>1. CASE DispatchSent
  BY <1>1, PhaseStep DEF DispatchSent, Given
<1>2. CASE Barrier
  <2>1. \A v \in Worker : pc[v] = "barrier" /\ pc'[v] = "result"
    BY <1>2, Parts DEF Barrier
  <2> QED
    BY <1>2, <2>1, PhaseStep DEF Barrier, Given
<1>3. CASE NotifyTermination
  <2> DEFINE m == [tag |-> "TERMINATION", counts |-> <<score_updates_sent, notices_sent>>]
  <2>1. m \in ToWorker /\ m.tag # "TASK_FROM_CENTER"
    BY Parts DEF IInv, TypeOK, StreamTypes, ToWorker
  <2>2. to_worker' = PostAll(to_worker, m)
    BY <1>3 DEF NotifyTermination
  <2> HIDE DEF m
  <2>3. \A v \in Worker : \A x : x \in Messages(to_worker', v) <=> x \in Messages(to_worker, v) \/ x = m
    BY <2>1, <2>2, Parts, PostAllIn
  <2>4. \A v \in Worker : Given(v)' <=> Given(v)
    BY <2>1, <2>3 DEF Given
  <2> QED
    BY <1>3, <2>4, PhaseStep DEF NotifyTermination
<1> QED
  BY <1>1, <1>2, <1>3

\* receive_solution_from: nothing it reads answers an assignment.
LEMMA RecordCollectedNext ==
    ASSUME TimedInv, IInv', RecordCollected
    PROVE  ClockInv'
<1>1. /\ cpc = "collect" /\ collecting \in Worker /\ to_center[collecting] # <<>>
      /\ to_center' = Drop(to_center, collecting)
      /\ UNCHANGED <<deficit, parent, pc, is_center_full, centerVars, to_worker, notices>>
      /\ IF cpc' = "done" THEN Record(Center, on_run_end(clock[Center])) ELSE UNCHANGED clock
  BY Parts DEF RecordCollected, ReceiveSolution, IInv, TypeOK, CenterTypes
<1>2. cpc' \in {"collect", "done"}
  <2>1. cpc' # "threw"
    BY DEF IInv, PhaseInv
  <2> QED
    BY <1>1, <2>1 DEF RecordCollected, ReceiveSolution
<1>3. clock[Center] \in Clock /\ on_run_end(clock[Center]) \in Clock
  BY Parts, Events DEF ClockTypeOK
<1>4. /\ ClockTypeOK' /\ \A v \in Worker : clock'[v] = clock[v]
      /\ cpc' = "done" => clock'[Center] = on_run_end(clock[Center])
      /\ cpc' # "done" => clock' = clock
  <2>1. CASE cpc' = "done"
    <3>1. Record(Center, on_run_end(clock[Center]))
      BY <1>1, <2>1
    <3>2. /\ ClockTypeOK' /\ clock'[Center] = on_run_end(clock[Center])
          /\ \A q \in Rank : q # Center => clock'[q] = clock[q]
      BY <1>3, <3>1, Parts, Recorded
    <3> QED
      BY <2>1, <3>2, Parts
  <2>2. CASE cpc' # "done"
    BY <1>1, <2>2, Parts DEF ClockTypeOK
  <2> QED
    BY <2>1, <2>2
<1>5. /\ clock'[Center].full = clock[Center].full
      /\ clock'[Center].assigned = clock[Center].assigned
      /\ cpc' = "done" => ~clock'[Center].in_run
  BY <1>3, <1>4 DEF on_run_end, Clock
<1>6. WorkerClocks'
  BY <1>1, <1>4, Parts DEF WorkerClocks
<1>7. CenterClock'
  BY <1>1, <1>2, <1>4, <1>5, Parts DEF CenterClock
<1>8. FullTimed'
  BY <1>1, <1>5, Parts, FullKept DEF Told
<1>9. \A v \in Worker : ~RunningIn(to_center, v)
  BY <1>1, Parts, InTheseTerms DEF Over
<1>10. \A v \in Worker : /\ ~RunningIn(to_center', v)
                         /\ OneRunning(to_center', v)
                         /\ parent[v] = None => RunningAcked(to_center', v)
  BY <1>1, <1>9, Parts, InTheseTerms, DropAny
<1>11. AssignmentInv'
  BY <1>1, <1>5, <1>9, <1>10, Parts, InTheseTerms, SameAnswers DEF Given
<1> QED
  BY <1>4, <1>6, <1>7, <1>8, <1>11 DEF ClockInv

\* The center sends task t to rank v, which is available, and records the assignment.
LEMMA AssignmentOpens ==
    ASSUME TimedInv, NEW v \in Available, NEW t \in Task,
           cpc \in {"start", "loop", "dispatch"}, cpc' \in {"loop", "dispatch", "sending"},
           to_worker' = Post(to_worker, v, TaskMsg("TASK_FROM_CENTER", t)),
           UNCHANGED <<parent, to_center>>,
           v < MaxWorkers => clock'[Center].assigned = clock[Center].assigned \cup {v},
           ~(v < MaxWorkers) => clock'[Center].assigned = clock[Center].assigned
    PROVE  AssignmentInv'
<1> DEFINE m == TaskMsg("TASK_FROM_CENTER", t)
<1>1. v \in Worker /\ ~RunningIn(to_center, v)
  BY Parts DEF Available, AvailableInv, StateTags, RunningIn
<1>2. m \in ToWorker /\ m.tag = "TASK_FROM_CENTER"
  BY MessageTypes
<1> HIDE DEF m
<1>3. \A w \in Worker : \A x :
        x \in Messages(to_worker', w) <=> x \in Messages(to_worker, w) \/ (w = v /\ x = m)
  BY <1>1, <1>2, Parts, PostIn DEF m
<1>4. \A w \in Worker : Given(w)' <=> Given(w) \/ w = v
  BY <1>2, <1>3 DEF Given
<1>5. \A w \in Worker : (Accepts(w)' <=> Accepts(w)) /\ (Accepts(w) <=> RunningIn(to_center, w))
  BY DEF Accepts, RunningIn
<1>6. ASSUME NEW w \in Worker, w < MaxWorkers
      PROVE  w \in clock'[Center].assigned <=> Given(w)' \/ Accepts(w)'
  <2>1. w \in clock[Center].assigned <=> Given(w) \/ Accepts(w)
    BY <1>6, Parts DEF AssignmentInv
  <2> QED
    BY <1>4, <1>5, <1>6, <2>1
<1>7. \A w \in Worker : ~(Given(w)' /\ Accepts(w)')
  BY <1>1, <1>4, <1>5, Parts, InTheseTerms
<1>8. cpc' \notin Over
  BY DEF Over
<1> QED
  BY <1>6, <1>7, <1>8, Parts DEF AssignmentInv

\* send_seed
LEMMA RecordStartNext ==
    ASSUME TimedInv, IInv', RecordStart
    PROVE  ClockInv'
<1> DEFINE c0 == clock[Center]
           c1 == on_run_start(c0)
           c2 == on_assignment(c1, 1)
           c == on_coordinator_queue(c2, nodes_available', center_queue' = {})
<1>1. /\ cpc = "start" /\ cpc' = "loop" /\ CenterSends
      /\ to_worker' = Post(to_worker, 1, TaskMsg("TASK_FROM_CENTER", Seed))
      /\ UNCHANGED <<parent, pc, is_center_full, to_center, notices>>
      /\ Record(Center, c)
  BY DEF RecordStart, Start, record_coordinator_queue
<1>2. c0 \in Clock /\ nodes_available' \in Nat
  BY Parts, SizeAssumption DEF ClockTypeOK, IInv, TypeOK, CenterTypes
<1>3. c1 \in Clock /\ c1.in_run /\ c1.assigned = c0.assigned /\ c1.full = c0.full
  BY <1>2 DEF on_run_start, Clock
<1> HIDE DEF c0, c1
<1>4. /\ c2 \in Clock /\ c2.in_run /\ c2.full = c0.full
      /\ 1 < MaxWorkers => c2.assigned = c0.assigned \cup {1}
      /\ ~(1 < MaxWorkers) => c2.assigned = c0.assigned
  BY <1>3 DEF on_assignment, Clock
<1> HIDE DEF c2
<1>5. /\ c \in Clock /\ c.in_run /\ c.full = c0.full /\ c.assigned = c2.assigned
      /\ c.available = nodes_available' /\ c.queue_empty = (center_queue' = {})
  BY <1>2, <1>4 DEF on_coordinator_queue, Clock
<1> HIDE DEF c
<1>6. /\ ClockTypeOK' /\ clock'[Center] = c
      /\ \A q \in Rank : q # Center => clock'[q] = clock[q]
  BY <1>1, <1>5, Parts, Recorded
<1>7. WorkerClocks'
  BY <1>1, <1>6, Parts DEF WorkerClocks
<1>8. CenterClock'
  <2>1. deficit'[Center] > 0
    BY <1>1, Parts DEF CenterSends
  <2> QED
    BY <1>1, <1>5, <1>6, <2>1 DEF CenterClock
<1>9. FullTimed'
  BY <1>1, <1>5, <1>6, Parts, FullKept DEF Told, c0
<1>10. 1 \in Available /\ Seed \in Task
  BY <1>1, Parts, Ranks DEF PhaseInv
<1>11. AssignmentInv'
  BY <1>1, <1>4, <1>5, <1>6, <1>10, AssignmentOpens DEF c0
<1> QED
  BY <1>6, <1>7, <1>8, <1>9, <1>11 DEF ClockInv

\* dispatch_to_available
LEMMA RecordAssignmentNext ==
    ASSUME TimedInv, RecordAssignment
    PROVE  ClockInv'
<1> DEFINE v == Least(Available)
           c0 == clock[Center]
           c == on_assignment(c0, v)
<1>1. /\ cpc \in {"dispatch", "loop"} /\ cpc' \in {"dispatch", "sending"} /\ CenterSends
      /\ Available # {} /\ Record(Center, c)
      /\ UNCHANGED <<parent, pc, is_center_full, to_center, notices>>
  BY DEF RecordAssignment, Dispatch, CanDispatch
<1>2. PICK t \in center_queue : to_worker' = Post(to_worker, v, TaskMsg("TASK_FROM_CENTER", t))
  BY DEF RecordAssignment, Dispatch
<1>3. t \in Task
  BY Parts DEF IInv, TypeOK, CenterTypes
<1>4. v \in Available /\ v \in Nat
  <2>1. Available \in SUBSET Nat
    BY Ranks DEF Available
  <2> QED
    BY <1>1, <2>1, LeastIn
<1>5. c0 \in Clock
  BY Parts DEF ClockTypeOK
<1> HIDE DEF v, c0
<1>6. /\ c \in Clock /\ c.in_run = c0.in_run /\ c.full = c0.full
      /\ v < MaxWorkers => c.assigned = c0.assigned \cup {v}
      /\ ~(v < MaxWorkers) => c.assigned = c0.assigned
  BY <1>4, <1>5 DEF on_assignment, Clock
<1> HIDE DEF c
<1>7. /\ ClockTypeOK' /\ clock'[Center] = c
      /\ \A q \in Rank : q # Center => clock'[q] = clock[q]
  BY <1>1, <1>6, Parts, Recorded
<1>8. WorkerClocks'
  BY <1>1, <1>7, Parts DEF WorkerClocks
<1>9. CenterClock'
  <2>1. deficit'[Center] > 0
    BY <1>1, Parts DEF CenterSends
  <2> QED
    BY <1>1, <1>6, <1>7, <2>1, Parts DEF CenterClock, c0
<1>10. FullTimed'
  BY <1>1, <1>6, <1>7, Parts, FullKept DEF Told, c0
<1>11. AssignmentInv'
  BY <1>1, <1>2, <1>3, <1>4, <1>6, <1>7, AssignmentOpens DEF c0
<1> QED
  BY <1>7, <1>8, <1>9, <1>10, <1>11 DEF ClockInv

\* notify_center_full and notify_center_free tell every worker the same.
LEMMA EveryoneTold ==
    ASSUME IInv, NotifyCenterStatus
    PROVE  /\ last_full_status' \in BOOLEAN /\ notices_sent' # notices_sent
           /\ \A v \in Worker : Told(v)' = last_full_status'
<1>1. /\ notices \in Net(Worker, BOOLEAN) /\ last_full_status \in BOOLEAN /\ notices_sent \in Nat
  BY DEF IInv, TypeOK, StreamTypes, CenterTypes
<1>2. /\ last_full_status' = ~last_full_status /\ notices' = PostAll(notices, last_full_status')
      /\ notices_sent' = notices_sent + 1
  BY DEF NotifyCenterStatus
<1> DEFINE b == last_full_status'
           B == BOOLEAN
<1>3. b \in B /\ notices \in Net(Worker, B) /\ notices' = PostAll(notices, b)
  BY <1>1, <1>2
<1> HIDE DEF b, B
<1>4. \A v \in Worker : notices'[v] # <<>> /\ Last(notices'[v]) = b
  BY <1>3, PostAllEach
<1>5. \A v \in Worker : Told(v)' = b
  BY <1>4 DEF Told
<1> QED
  BY <1>1, <1>2, <1>3, <1>5 DEF b, B

\* The clock that record_notice yields, when notices are sent and when they are not.
LEMMA NoticeRecorded ==
    ASSUME TimedInv, cpc \in {"loop", "dispatch"}, UNCHANGED is_center_full,
           NotifyCenterStatus \/ UNCHANGED <<last_full_status, notices, notices_sent>>
    PROVE  /\ record_notice(clock[Center]) \in Clock
           /\ record_notice(clock[Center]).in_run
           /\ \A v \in Worker : record_notice(clock[Center]).full = Told(v)'
           /\ record_notice(clock[Center]).assigned = clock[Center].assigned
           /\ record_notice(clock[Center]).available = clock[Center].available
           /\ record_notice(clock[Center]).queue_empty = clock[Center].queue_empty
<1> DEFINE c == clock[Center]
<1>1. c \in Clock /\ c.in_run
  BY Parts DEF ClockTypeOK, CenterClock
<1>2. CASE NotifyCenterStatus
  <2>1. /\ last_full_status' \in BOOLEAN /\ notices_sent' # notices_sent
        /\ \A v \in Worker : Told(v)' = last_full_status'
    BY <1>2, Parts, EveryoneTold
  <2>2. record_notice(c) = [c EXCEPT !.full = last_full_status']
    BY <1>1, <2>1 DEF record_notice, on_coordinator_full, on_coordinator_free
  <2> QED
    BY <1>1, <2>1, <2>2 DEF Clock
<1>3. CASE UNCHANGED <<last_full_status, notices, notices_sent>>
  <2>1. record_notice(c) = c
    BY <1>3 DEF record_notice
  <2>2. \A v \in Worker : c.full = Told(v)'
    BY <1>3, Parts DEF FullTimed, Told
  <2> QED
    BY <1>1, <2>1, <2>2
<1> QED
  BY <1>2, <1>3

\* The monitoring of the center at the end of a round: the queue is recorded.
LEMMA RecordRoundNext ==
    ASSUME TimedInv, IInv', RecordRound
    PROVE  ClockInv'
<1> DEFINE c0 == record_notice(clock[Center])
           c == on_coordinator_queue(c0, nodes_available', center_queue' = {})
<1>1. /\ cpc = "dispatch" /\ cpc' = "loop" /\ Record(Center, c)
      /\ NotifyCenterStatus \/ UNCHANGED <<last_full_status, notices, notices_sent>>
      /\ UNCHANGED <<deficit, parent, pc, is_center_full, nodes_available, center_queue,
                     to_center, to_worker>>
  BY DEF RecordRound, Monitor, record_coordinator_queue
<1>2. /\ c0 \in Clock /\ c0.in_run /\ c0.assigned = clock[Center].assigned
      /\ \A v \in Worker : c0.full = Told(v)'
  BY <1>1, NoticeRecorded
<1>3. nodes_available' \in Nat
  BY SizeAssumption DEF IInv, TypeOK, CenterTypes
<1> HIDE DEF c0
<1>4. /\ c \in Clock /\ c.in_run /\ c.full = c0.full /\ c.assigned = c0.assigned
      /\ c.available = nodes_available' /\ c.queue_empty = (center_queue' = {})
  BY <1>2, <1>3 DEF on_coordinator_queue, Clock
<1> HIDE DEF c
<1>5. /\ ClockTypeOK' /\ clock'[Center] = c
      /\ \A q \in Rank : q # Center => clock'[q] = clock[q]
  BY <1>1, <1>4, Parts, Recorded
<1>6. WorkerClocks'
  BY <1>1, <1>5, Parts DEF WorkerClocks
<1>7. CenterClock'
  BY <1>1, <1>4, <1>5, Parts DEF CenterClock
<1>8. FullTimed'
  BY <1>2, <1>4, <1>5 DEF FullTimed
<1>9. AssignmentInv'
  BY <1>1, <1>2, <1>4, <1>5, Parts, InTheseTerms, SameAnswers DEF Given, Over
<1> QED
  BY <1>5, <1>6, <1>7, <1>8, <1>9 DEF ClockInv

\* The same while the center waits for a message.
LEMMA RecordNoticeNext ==
    ASSUME TimedInv, RecordNotice
    PROVE  ClockInv'
<1> DEFINE c == record_notice(clock[Center])
<1>1. /\ cpc = "loop" /\ NotifyCenterStatus /\ Record(Center, c)
      /\ UNCHANGED <<deficit, parent, pc, is_center_full, cpc, nodes_available, center_queue,
                     to_center, to_worker>>
  BY DEF RecordNotice, MonitorIdle
<1>2. /\ c \in Clock /\ c.in_run /\ c.assigned = clock[Center].assigned
      /\ \A v \in Worker : c.full = Told(v)'
      /\ c.available = clock[Center].available /\ c.queue_empty = clock[Center].queue_empty
  BY <1>1, NoticeRecorded
<1> HIDE DEF c
<1>3. /\ ClockTypeOK' /\ clock'[Center] = c
      /\ \A q \in Rank : q # Center => clock'[q] = clock[q]
  BY <1>1, <1>2, Parts, Recorded
<1>4. WorkerClocks'
  BY <1>1, <1>3, Parts DEF WorkerClocks
<1>5. CenterClock'
  BY <1>1, <1>2, <1>3, Parts DEF CenterClock
<1>6. FullTimed'
  BY <1>2, <1>3 DEF FullTimed
<1>7. AssignmentInv'
  BY <1>1, <1>2, <1>3, Parts, InTheseTerms, SameAnswers DEF Given
<1> QED
  BY <1>3, <1>4, <1>5, <1>6, <1>7 DEF ClockInv

-----------------------------------------------------------------------------
(* The theorems *)

\* The clocks when run() is entered: the workers wait, the center has not started.
LEMMA InitTimed == ClockInit => TimedInv
<1> SUFFICES ASSUME ClockInit PROVE TimedInv
  OBVIOUS
<1>1. IInv /\ Init
  BY InitInv DEF ClockInit
<1>2. /\ new_clock \in Clock /\ ~new_clock.in_run /\ new_clock.assigned = {} /\ ~new_clock.full
  BY DEF new_clock, Clock
<1> DEFINE c == on_worker_waiting(on_run_start(new_clock))
<1>3. c \in Clock /\ c.in_run /\ c.phase = "WAITING"
  BY <1>2 DEF on_worker_waiting, on_run_start, Clock
<1> HIDE DEF c
<1>4. clock = [r \in Rank |-> IF r = Center THEN new_clock ELSE c]
  BY DEF ClockInit, c
<1>5. clock[Center] = new_clock /\ \A w \in Worker : clock[w] = c
  BY <1>4, Ranks
<1>6. ClockTypeOK
  BY <1>2, <1>3, <1>4 DEF ClockTypeOK
<1>7. WorkerClocks
  BY <1>1, <1>3, <1>5 DEF WorkerClocks, Init, Idle
<1>8. CenterClock
  BY <1>1, <1>2, <1>5 DEF CenterClock, Init
<1>9. FullTimed
  <2>1. \A w \in Worker : Told(w) = FALSE
    BY <1>1 DEF Told, Init
  <2>2. clock[Center].full = FALSE
    BY <1>5 DEF new_clock
  <2> QED
    BY <2>1, <2>2 DEF FullTimed
<1>10. AssignmentInv
  <2>1. \A v \in Worker : to_center[v] = <<>> /\ to_worker[v] = <<>>
    BY <1>1 DEF Init
  <2>2. \A v \in Worker : Messages(to_center, v) = {} /\ Messages(to_worker, v) = {}
    BY <2>1 DEF Messages
  <2>3. \A v \in Worker : ~Given(v) /\ ~Accepts(v) /\ v \notin clock[Center].assigned
    BY <1>2, <1>5, <2>2 DEF Given, Accepts
  <2>4. \A v \in Worker : /\ NoneBehind(to_center, v, "RUNNING_STATE", {"RUNNING_STATE"})
                          /\ Followed(to_center, v, "RUNNING_STATE", "TASK_RECEIVED")
    BY <2>1 DEF NoneBehind, Followed
  <2> QED
    BY <2>3, <2>4 DEF AssignmentInv
<1> QED
  BY <1>1, <1>6, <1>7, <1>8, <1>9, <1>10 DEF TimedInv, ClockInv

\* Every step keeps the scheduler's invariant and that of the clocks.
LEMMA NextTimed == TimedInv /\ [ClockNext]_clockVars => TimedInv'
<1> SUFFICES ASSUME TimedInv, [ClockNext]_clockVars PROVE TimedInv'
  OBVIOUS
<1>1. IInv'
  BY Parts, Projects, NextInv
<1>2. ASSUME UNCHANGED clockVars PROVE ClockInv'
  BY <1>2, LocalStep DEF clockVars, vars
<1>3. ASSUME Unrecorded PROVE ClockInv'
  <2>1. CASE Finished
    BY <1>3, <2>1, LocalStep DEF Unrecorded, Finished, vars
  <2>2. CASE UnrecordedCenter
    BY <1>1, <1>3, <2>2, PhaseSteps, ProcessAvailableTimed, ReceiveProposalTimed,
       ReceiveTaskForCenterTimed, CenterReceiveAckTimed DEF Unrecorded, UnrecordedCenter
  <2>3. ASSUME NEW w \in Worker, UnrecordedMain(w) PROVE ClockInv'
    BY <1>1, <1>3, <2>3, LocalSteps, NoticesRead, SendTaskTimed, ReceiveAckTimed,
       ReceiveTerminationTimed DEF Unrecorded, UnrecordedMain
  <2>4. ASSUME NEW w \in Worker, UnrecordedPool(w) PROVE ClockInv'
    BY <1>1, <1>3, <2>4, LocalSteps DEF Unrecorded, UnrecordedPool
  <2> QED
    BY <1>3, <2>1, <2>2, <2>3, <2>4 DEF Unrecorded
<1>4. ClockInv'
  BY <1>1, <1>2, <1>3, RecordStartNext, RecordRunningNext, RecordWaitingNext, RecordEndNext,
     RecordAcceptedNext, RecordAssignmentNext, RecordRoundNext, RecordNoticeNext,
     RecordCollectedNext DEF ClockNext
<1> QED
  BY <1>1, <1>4 DEF TimedInv

\* The scheduler that records is the scheduler: whatever is proved of Spec holds with
\* telemetry, because recording never decides or delays a step.
THEOREM RecordingIsPassive == ClockSpec => Spec
<1>1. ClockInit => Init
  BY DEF ClockInit
<1> QED
  BY <1>1, Projects, PTL DEF ClockSpec, Spec

\* The inductive invariant of the scheduler and its clocks holds in every state.
THEOREM TimedInvariance == ClockSpec => []TimedInv
  BY InitTimed, NextTimed, PTL DEF ClockSpec

\* The times that a rank reports are those of what it does: a worker counts waiting time
\* only when it has nothing to do and running time only while it is engaged, the center
\* counts available and full time as the ranks are available and were told, and the latency
\* of an assignment ends with the RUNNING_STATE that answers it.
THEOREM ClocksAgree == ClockSpec => []ClockAgrees
<1>1. TimedInv => ClockAgrees
  <2> SUFFICES ASSUME TimedInv PROVE ClockAgrees
    OBVIOUS
  <2>1. WorkersTimed
    <3> SUFFICES ASSUME NEW w \in Worker
                 PROVE  /\ "waiting" \in Accruing(clock[w]) =>
                             ~busy[w] /\ queue[w] = <<>> /\ bundle[w] = 0
                        /\ "running" \in Accruing(clock[w]) => parent[w] # None
      BY DEF WorkersTimed
    <3>1. ASSUME "waiting" \in Accruing(clock[w])
          PROVE  ~busy[w] /\ queue[w] = <<>> /\ bundle[w] = 0
      <4>1. clock[w].phase = "WAITING"
        BY <3>1 DEF Accruing
      <4>2. pc[w] \in Idle
        BY <4>1, Parts DEF WorkerClocks
      <4> QED
        BY <4>2, Parts DEF WorkerInv, Idle
    <3>2. ASSUME "running" \in Accruing(clock[w]) PROVE parent[w] # None
      <4>1. clock[w].phase = "RUNNING" /\ clock[w].in_run
        BY <3>2 DEF Accruing
      <4>2. pc[w] \notin Idle
        BY <4>1, Parts DEF WorkerClocks
      <4> QED
        BY <4>2, Parts DEF DetectorInv
    <3> QED
      BY <3>1, <3>2
  <2>2. AvailableTimed
    <3> SUFFICES ASSUME cpc \in {"loop", "notify", "barrier", "collect"}
                 PROVE  /\ clock[Center].available = Cardinality(Available)
                        /\ Available # {} <=> "available" \in Accruing(clock[Center])
      BY DEF AvailableTimed
    <3>1. /\ clock[Center].in_run /\ clock[Center].available = Cardinality(Available)
          /\ clock[Center].queue_empty <=> center_queue = {}
      BY Parts DEF CenterClock, AvailableInv
    <3>2. Available # {} <=> Cardinality(Available) > 0
      <4>1. Available \in SUBSET Worker
        BY DEF Available
      <4>2. IsFiniteSet(Available)
        BY <4>1, Ranks, FS_Subset
      <4>3. Cardinality(Available) \in Nat /\ (Cardinality(Available) = 0 <=> Available = {})
        BY <4>2, FS_CardinalityType, FS_EmptySet
      <4> QED
        BY <4>3
    <3>3. Available # {} => center_queue = {}
      BY Parts DEF PhaseInv, AvailableInv, CanDispatch, Over
    <3> QED
      BY <3>1, <3>2, <3>3 DEF Accruing
  <2>3. AssignmentsTimed
    BY Parts DEF AssignmentInv, AssignmentsTimed, Given, Accepts
  <2> QED
    BY <2>1, <2>2, <2>3, Parts DEF ClockAgrees
<1> QED
  BY <1>1, TimedInvariance, PTL
=============================================================================
