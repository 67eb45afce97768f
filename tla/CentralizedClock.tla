-------------------------- MODULE CentralizedClock --------------------------
(***************************************************************************)
(* The centralized scheduler together with the scheduler_clock of every    *)
(* rank: each step of Centralized, and what it records at the telemetry    *)
(* hub of the rank that takes it.  A hub is installed on every rank, and   *)
(* only the thread that records reads the clock, so what a handler records *)
(* is recorded in one step with the rest of the handler.                   *)
(***************************************************************************)
EXTENDS Centralized, SchedulerClock

VARIABLE clock      \* m_counters->m_scheduler_clock of every rank's hub

clockVars == <<vars, clock>>

Record(r, c) == clock' = [clock EXCEPT ![r] = c]

\* Mutant: the queue is recorded only while it holds tasks.
RecordHeld(c) ==
    IF center_queue' = {} THEN c ELSE on_coordinator_queue(c, nodes_available', FALSE)

record_coordinator_queue(c) == on_coordinator_queue(c, nodes_available', center_queue' = {})

\* What notify_center_full and notify_center_free record, if they sent notices.
record_notice(c) ==
    IF notices_sent' = notices_sent THEN c
    ELSE IF last_full_status' THEN on_coordinator_full(c) ELSE on_coordinator_free(c)

ClockInit ==
    /\ Init
    /\ clock = [r \in Rank |-> IF r = Center THEN new_clock
                               ELSE on_worker_waiting(on_run_start(new_clock))]

RecordStart ==
    /\ Start
    /\ Record(Center, record_coordinator_queue(on_assignment(on_run_start(clock[Center]), 1)))

RecordRunning(w) == ReceiveTask(w) /\ Record(w, on_worker_running(clock[w]))

RecordWaiting(w) ==
    /\ LeaveFunnel(w)
    /\ IF pc'[w] = "threw" THEN UNCHANGED clock ELSE Record(w, on_worker_waiting(clock[w]))

RecordEnd(w) == SendSolution(w) /\ Record(w, on_run_end(clock[w]))

RecordAccepted(w) ==
    ProcessRunning(w) /\ Record(Center, on_assignment_accepted(clock[Center], w))

RecordAssignment == Dispatch /\ Record(Center, on_assignment(clock[Center], Least(Available)))

RecordRound == Monitor /\ Record(Center, record_coordinator_queue(record_notice(clock[Center])))

RecordNotice == MonitorIdle /\ Record(Center, record_notice(clock[Center]))

RecordCollected ==
    /\ ReceiveSolution
    /\ IF cpc' = "done" THEN Record(Center, on_run_end(clock[Center])) ELSE UNCHANGED clock

\* The steps that record nothing in the clock.
UnrecordedMain(w) ==
    \/ ReceiveNotice(w) \/ ReceiveAck(w) \/ ReceiveTermination(w)
    \/ FirstPop(w) \/ SendTask(w) \/ TaskSent(w) \/ PollCenter(w)
    \/ ProposalMatched(w) \/ CheckQueue(w) \/ CheckDone(w)

UnrecordedCenter ==
    \/ \E w \in Worker : \/ ProcessAvailable(w) \/ ReceiveProposal(w)
                         \/ ReceiveTaskForCenter(w) \/ CenterReceiveAck(w)
    \/ DispatchSent \/ NotifyTermination \/ Barrier

UnrecordedPool(w) ==
    \/ Push(w)
    \/ \E s \in Scores : FindResult(w, s)
    \/ PoolDone(w)

Unrecorded ==
    /\ \/ \E w \in Worker : UnrecordedMain(w) \/ UnrecordedPool(w)
       \/ UnrecordedCenter
       \/ Finished
    /\ UNCHANGED clock

ClockNext ==
    \/ RecordStart
    \/ \E w \in Worker : RecordRunning(w)
    \/ \E w \in Worker : RecordWaiting(w)
    \/ \E w \in Worker : RecordEnd(w)
    \/ \E w \in Worker : RecordAccepted(w)
    \/ RecordAssignment
    \/ RecordRound
    \/ RecordNotice
    \/ RecordCollected
    \/ Unrecorded

ClockSpec == ClockInit /\ [][ClockNext]_clockVars

FairClockSpec == ClockSpec /\ Fairness

-----------------------------------------------------------------------------
(* Properties *)

ClockTypeOK == clock \in [Rank -> Clock]

\* A worker that counts waiting time has nothing to do: no pool thread works and no bundle
\* is left to send.  One that counts running time is engaged in the computation.
WorkersTimed ==
    \A w \in Worker :
        /\ "waiting" \in Accruing(clock[w]) => ~busy[w] /\ queue[w] = <<>> /\ bundle[w] = 0
        /\ "running" \in Accruing(clock[w]) => parent[w] # None

\* Between two messages, and after the last one, the center counts available time for
\* exactly the ranks that are available: "the centralized coordinator hands a task to every
\* available rank while its queue holds any", so none of them is missed because of the queue.
AvailableTimed ==
    cpc \in {"loop", "notify", "barrier", "collect"} =>
        /\ clock[Center].available = Cardinality(Available)
        /\ Available # {} <=> "available" \in Accruing(clock[Center])

\* m_coordinator_full_microseconds is the time the "workers were told the coordinator is
\* full", also when the center has forgotten that it told them.
FullTimed == \A w \in Worker : clock[Center].full = Told(w)

\* The latency of an assignment is open while the task, or the RUNNING_STATE that answers
\* it, is on its way, and not otherwise: no assignment replaces one that is still open.
AssignmentsTimed ==
    \A w \in Worker :
        w < MaxWorkers =>
            (w \in clock[Center].assigned <=>
                \/ \E m \in Messages(to_worker, w) : m.tag = "TASK_FROM_CENTER"
                \/ \E m \in Messages(to_center, w) : m.tag = "RUNNING_STATE")

\* The times a rank reports are those of what it does.
ClockAgrees == WorkersTimed /\ AvailableTimed /\ FullTimed /\ AssignmentsTimed

-----------------------------------------------------------------------------
(* The inductive invariant, beside IInv of the scheduler *)

\* The phase of a worker's clock follows its main thread.
WorkerClocks == \A w \in Worker :
    /\ clock[w].in_run <=> pc[w] # "done"
    /\ pc[w] \in Idle \ {"done"} => clock[w].phase = "WAITING"
    /\ pc[w] \notin Idle => clock[w].phase = "RUNNING"

\* The center's clock knows the queue whenever the center waits; and a center that has
\* not left its loop has a task in its queue, or one that is not acknowledged: so it is an
\* acknowledgement that ends the loop, and what an AVAILABLE_STATE changes is recorded.
CenterClock ==
    /\ clock[Center].in_run <=> cpc \notin {"start", "done"}
    /\ cpc \in {"loop", "notify", "barrier", "collect"} =>
         /\ clock[Center].available = nodes_available
         /\ clock[Center].queue_empty <=> center_queue = {}
    /\ cpc \in {"loop", "dispatch", "sending"} => deficit[Center] > 0 \/ center_queue # {}

\* An assignment is answered by one RUNNING_STATE, which is read before the center can
\* learn that the task is done.
Accepts(w) == \E m \in Messages(to_center, w) : m.tag = "RUNNING_STATE"
AssignmentInv == \A w \in Worker :
    /\ w < MaxWorkers => (w \in clock[Center].assigned <=> Given(w) \/ Accepts(w))
    /\ ~(Given(w) /\ Accepts(w))
    /\ Accepts(w) => cpc \notin Over
    /\ NoneBehind(to_center, w, "RUNNING_STATE", {"RUNNING_STATE"})
    /\ parent[w] = None => Followed(to_center, w, "RUNNING_STATE", "TASK_RECEIVED")

ClockInv == ClockTypeOK /\ WorkerClocks /\ CenterClock /\ FullTimed /\ AssignmentInv

\* The scheduler's invariant and that of the clocks, which follows its steps.
TimedInv == IInv /\ ClockInv
=============================================================================
