--------------------------- MODULE Centralized ---------------------------
(***************************************************************************)
(* The centralized MPI scheduler: workers send the tasks they split off to *)
(* the center (rank 0), which queues them and hands one to every rank that *)
(* has told it that it is available.  When its queue or its memory grows   *)
(* too large the center tells the workers to stop sending.                 *)
(*                                                                         *)
(* Threads, channels and the pairs of messages that travel together are    *)
(* modelled as in SemiCentralized.  All traffic has the center at one end, *)
(* so the world communicator is one channel to and one from each worker.   *)
(***************************************************************************)
EXTENDS Integers, Sequences, FiniteSets, SequencesExt, Channels

CONSTANTS
    WorldSize,       \* number of ranks, the center included
    MaxTasks,        \* bound: tasks created in a run, the seed included
    TasksPerProcess, \* CENTER_NBSTORED_TASKS_PER_PROCESS
    Memory,          \* what the center's memory use may be, out of MemoryLevel
    MaxNotices,      \* bound: after this many fullness notices memory use is low
    Scores,          \* scores of the results the tasks may find
    Goal,            \* "MAXIMISE" or "MINIMISE"
    Rendezvous,      \* MPI_Send of a packet may wait until the receiver has matched it
    Default,         \* utils::get_default_score, worse than every score
    Nothing          \* task_packet::EMPTY, or no pending proposal

\* At most 0.9 MAX_MEMORY_MB, at most MAX_MEMORY_MB, or more.
MemoryLevel == {"low", "middle", "high"}

ASSUME SizeAssumption == WorldSize \in Nat /\ WorldSize >= 2
ASSUME TaskAssumption == MaxTasks \in Nat \ {0}
ASSUME LimitAssumption == TasksPerProcess \in Nat \ {0} /\ MaxNotices \in Nat
ASSUME MemoryAssumption == Memory \subseteq MemoryLevel /\ Memory # {}
ASSUME ScoreAssumption == Scores \subseteq Int /\ Default \in Int
ASSUME ModeAssumption == Goal \in {"MAXIMISE", "MINIMISE"} /\ Rendezvous \in BOOLEAN

Center == 0
Worker == 1 .. WorldSize - 1
Rank == {Center} \cup Worker
Task == 1 .. MaxTasks
Seed == 1
None == -1      \* NO_PARENT

VARIABLES
    \* Dijkstra-Scholten on every rank; held: the task whose acknowledgement is deferred
    deficit, parent, held,
    \* a worker's main thread and the bundle it has popped; m_transmitting,
    \* m_tasks_bundle_queue, m_is_center_full; the pool has tasks
    pc, bundle, transmitting, queue, is_center_full, busy,
    \* m_score and m_result of each worker's node_manager, m_global_score of each rank
    score, result, global_score,
    \* the center's control, m_process_state, m_nodes_available, m_center_bundle_queue,
    \* m_center_last_full_status
    cpc, process_state, nodes_available, center_queue, last_full_status,
    \* the rank receive_solution is at, and m_best_results
    collecting, best_results,
    \* messages sent by the center to every worker, and read by each
    score_updates_sent, notices_sent, score_updates_received, notices_received,
    \* the network; a notice is TRUE for CENTER_IS_FULL and FALSE for CENTER_IS_FREE
    to_center, to_worker, score_updates, notices, proposal,
    \* history: tasks created, tasks started, best score any task found
    issued, executed, best

detectorVars == <<deficit, parent, held>>
channelVars == <<bundle, transmitting, queue>>
managerVars == <<score, result>>
centerVars == <<process_state, nodes_available, center_queue, last_full_status>>
collectVars == <<collecting, best_results>>
sentVars == <<score_updates_sent, notices_sent>>
receivedVars == <<score_updates_received, notices_received>>
worldVars == <<to_center, to_worker>>
historyVars == <<issued, executed, best>>
vars == <<detectorVars, pc, channelVars, is_center_full, busy, managerVars, global_score, cpc,
          centerVars, collectVars, sentVars, receivedVars, worldVars, score_updates, notices,
          proposal, historyVars>>

-----------------------------------------------------------------------------
(* Helpers *)

should_update(old, new) == IF Goal = "MAXIMISE" THEN new > old ELSE new < old

Least(S) == CHOOSE x \in S : \A y \in S : x <= y

Arrived(net, w, tag) == net[w] # <<>> /\ Head(net[w]).tag = tag

Msg(tag) == [tag |-> tag]
TaskMsg(tag, t) == [tag |-> tag, task |-> t]

-----------------------------------------------------------------------------
(* The worker's main thread: receiving *)

Throw(w) ==
    /\ pc' = [pc EXCEPT ![w] = "threw"]
    /\ UNCHANGED <<detectorVars, channelVars, is_center_full, busy, managerVars, global_score,
                   cpc, centerVars, collectVars, sentVars, receivedVars, worldVars,
                   score_updates, notices, proposal, historyVars>>

\* The first ns score updates and nn fullness notices on their way to w are received.
ReceiveFromCenter(w, ns, nn) ==
    /\ global_score' = [global_score EXCEPT ![w] =
                          IF ns = 0 THEN @ ELSE score_updates[w][ns]]
    /\ is_center_full' = [is_center_full EXCEPT ![w] = IF nn = 0 THEN @ ELSE notices[w][nn]]
    /\ score_updates' = [score_updates EXCEPT ![w] = Skip(@, ns)]
    /\ notices' = [notices EXCEPT ![w] = Skip(@, nn)]
    /\ score_updates_received' = [score_updates_received EXCEPT ![w] = @ + ns]
    /\ notices_received' = [notices_received EXCEPT ![w] = @ + nn]

\* receive_score_from_center, consume_center_is_full_tag and consume_center_is_free_tag in
\* the probe loop.
ReceiveNotice(w) ==
    /\ pc[w] = "probe"
    /\ \/ score_updates[w] # <<>> /\ ReceiveFromCenter(w, 1, 0)
       \/ notices[w] # <<>> /\ ReceiveFromCenter(w, 0, 1)
    /\ UNCHANGED <<detectorVars, pc, channelVars, busy, managerVars, cpc, centerVars,
                   collectVars, sentVars, worldVars, proposal, historyVars>>

\* process_message, up to the call of task_funneling.
ReceiveTask(w) ==
    /\ pc[w] = "probe"
    /\ Arrived(to_worker, w, "TASK_FROM_CENTER")
    /\ LET t == Head(to_worker[w]).task
           running == Msg("RUNNING_STATE")
       IN  /\ IF parent[w] # None
              THEN /\ to_center' = Post(Post(to_center, w, TaskMsg("TASK_RECEIVED", t)),
                                        w, running)
                   /\ UNCHANGED <<parent, held>>
              ELSE /\ to_center' = Post(to_center, w, running)
                   /\ parent' = [parent EXCEPT ![w] = Center]
                   /\ held' = [held EXCEPT ![w] = t]
           /\ executed' = executed \cup {t}
    /\ to_worker' = Drop(to_worker, w)
    /\ busy' = [busy EXCEPT ![w] = TRUE]
    /\ pc' = [pc EXCEPT ![w] = "pop"]
    /\ UNCHANGED <<deficit, channelVars, is_center_full, managerVars, global_score, cpc,
                   centerVars, collectVars, sentVars, receivedVars, score_updates, notices,
                   proposal, issued, best>>

\* Mutant: the deferred acknowledgement does not wait for the deficit.
ReleaseEagerly(w, net, d) ==
    IF parent[w] # None
    THEN /\ to_center' = Post(net, w, TaskMsg("TASK_RECEIVED", held[w]))
         /\ parent' = [parent EXCEPT ![w] = None]
         /\ held' = [held EXCEPT ![w] = 0]
    ELSE to_center' = net /\ UNCHANGED <<parent, held>>

\* Mutant: the deferred acknowledgement is forgotten.
ReleaseNever(w, net, d) == to_center' = net /\ UNCHANGED <<parent, held>>

\* release_parent_if_passive, given the messages to the center so far and w's deficit d.
release_parent_if_passive(w, net, d) ==
    IF d = 0 /\ parent[w] # None
    THEN /\ to_center' = Post(net, w, TaskMsg("TASK_RECEIVED", held[w]))
         /\ parent' = [parent EXCEPT ![w] = None]
         /\ held' = [held EXCEPT ![w] = 0]
    ELSE to_center' = net /\ UNCHANGED <<parent, held>>

\* process_task_received_ack, then release_parent_if_passive.
ReceiveAck(w) ==
    /\ pc[w] = "probe"
    /\ Arrived(to_worker, w, "TASK_RECEIVED")
    /\ IF deficit[w] = 0
       THEN Throw(w)
       ELSE /\ deficit' = [deficit EXCEPT ![w] = @ - 1]
            /\ to_worker' = Drop(to_worker, w)
            /\ release_parent_if_passive(w, to_center, deficit[w] - 1)
            /\ UNCHANGED <<pc, channelVars, is_center_full, busy, managerVars, global_score,
                           cpc, centerVars, collectVars, sentVars, receivedVars,
                           score_updates, notices, proposal, historyVars>>

\* Mutant: process_termination does not read what is still on its way.
PendingIgnored(sent, received) == 0

\* What drain_center_messages still has to read, negative if a message too many was read.
pending(sent, received) == sent - received

\* process_termination, up to the barrier.
ReceiveTermination(w) ==
    /\ pc[w] = "probe"
    /\ Arrived(to_worker, w, "TERMINATION")
    /\ LET sent == Head(to_worker[w]).counts
           ns == pending(sent[1], score_updates_received[w])
           nn == pending(sent[2], notices_received[w])
       IN  IF \/ deficit[w] # 0 \/ parent[w] # None
              \/ queue[w] # <<>> \/ transmitting[w]
              \/ ns < 0 \/ nn < 0
           THEN Throw(w)
           ELSE /\ ns <= Len(score_updates[w]) /\ nn <= Len(notices[w])
                /\ ReceiveFromCenter(w, ns, nn)
                /\ to_worker' = Drop(to_worker, w)
                /\ pc' = [pc EXCEPT ![w] = "barrier"]
                /\ UNCHANGED <<detectorVars, channelVars, busy, managerVars, cpc, centerVars,
                               collectVars, sentVars, to_center, proposal, historyVars>>

-----------------------------------------------------------------------------
(* The worker's main thread: task_funneling *)

\* m_tasks_bundle_queue.pop: on success the bundle is sent next, otherwise the thread
\* goes on at `otherwise`.
PopBundle(w, otherwise) ==
    /\ IF queue[w] # <<>>
       THEN /\ bundle' = [bundle EXCEPT ![w] = Head(queue[w])]
            /\ queue' = [queue EXCEPT ![w] = Tail(@)]
            /\ pc' = [pc EXCEPT ![w] = "send"]
       ELSE /\ pc' = [pc EXCEPT ![w] = otherwise]
            /\ UNCHANGED <<bundle, queue>>
    /\ UNCHANGED <<detectorVars, transmitting, is_center_full, busy, managerVars, global_score,
                   cpc, centerVars, collectVars, sentVars, receivedVars, worldVars,
                   score_updates, notices, proposal, historyVars>>

\* The pop before the loop.
FirstPop(w) == pc[w] = "pop" /\ PopBundle(w, "poll")

\* The pop after the locked section.
CheckQueue(w) == pc[w] = "check" /\ PopBundle(w, "isdone")

\* send_task_to_center, up to the MPI_Send of the packet; m_mutex is held.
SendTask(w) ==
    /\ pc[w] = "send"
    /\ deficit' = [deficit EXCEPT ![w] = @ + 1]
    /\ to_center' = Post(to_center, w, TaskMsg("TASK_FOR_CENTER", bundle[w]))
    /\ pc' = [pc EXCEPT ![w] = "sending"]
    /\ UNCHANGED <<parent, held, channelVars, is_center_full, busy, managerVars, global_score,
                   cpc, centerVars, collectVars, sentVars, receivedVars, to_worker,
                   score_updates, notices, proposal, historyVars>>

\* MPI_Send has returned: the end of the critical section.
TaskSent(w) ==
    /\ pc[w] = "sending"
    /\ IF queue[w] # <<>>
       THEN Throw(w)
       ELSE /\ transmitting' = [transmitting EXCEPT ![w] = FALSE]
            /\ bundle' = [bundle EXCEPT ![w] = 0]
            /\ pc' = [pc EXCEPT ![w] = "poll"]
            /\ UNCHANGED <<detectorVars, queue, is_center_full, busy, managerVars, global_score,
                           cpc, centerVars, collectVars, sentVars, receivedVars, worldVars,
                           score_updates, notices, proposal, historyVars>>

\* update_score with the global score g: take it over, or propose the own one and wait
\* in MPI_Ssend.
update_score(w, g) ==
    \/ /\ should_update(score[w], g)
       /\ score' = [score EXCEPT ![w] = g]
       /\ result' = [result EXCEPT ![w] = Nothing]
       /\ pc' = [pc EXCEPT ![w] = "check"]
       /\ proposal' = proposal
    \/ /\ should_update(g, score[w])
       /\ proposal' = [proposal EXCEPT ![w] = score[w]]
       /\ pc' = [pc EXCEPT ![w] = "propose"]
       /\ UNCHANGED managerVars
    \/ /\ g = score[w]
       /\ pc' = [pc EXCEPT ![w] = "check"]
       /\ UNCHANGED <<managerVars, proposal>>

\* maybe_receive_score_from_center, maybe_receive_center_fullness: how many messages the probe
\* of a channel sees.  One that is on its way may be seen now or in a later round.
maybe_receive(channel) == {n \in {0, 1} : n <= Len(channel)}

\* The section that "protects MPI calls".
PollCenter(w) ==
    /\ pc[w] = "poll"
    /\ \E ns \in maybe_receive(score_updates[w]), nn \in maybe_receive(notices[w]) :
         ReceiveFromCenter(w, ns, nn)
    /\ update_score(w, global_score'[w])
    /\ UNCHANGED <<detectorVars, channelVars, busy, cpc, centerVars, collectVars, sentVars,
                   worldVars, historyVars>>

\* The center has matched the MPI_Ssend, and m_mutex is released.
ProposalMatched(w) ==
    /\ pc[w] = "propose"
    /\ proposal[w] = Nothing
    /\ pc' = [pc EXCEPT ![w] = "check"]
    /\ UNCHANGED <<detectorVars, channelVars, is_center_full, busy, managerVars, global_score,
                   cpc, centerVars, collectVars, sentVars, receivedVars, worldVars,
                   score_updates, notices, proposal, historyVars>>

\* Mutant: no second pop once the pool is done.
CheckDoneOnce(w) ==
    /\ pc[w] = "isdone"
    /\ pc' = [pc EXCEPT ![w] = IF busy[w] THEN "poll" ELSE "leave"]
    /\ UNCHANGED <<detectorVars, channelVars, is_center_full, busy, managerVars, global_score,
                   cpc, centerVars, collectVars, sentVars, receivedVars, worldVars,
                   score_updates, notices, proposal, historyVars>>

\* is_done, and the second pop.
CheckDone(w) ==
    /\ pc[w] = "isdone"
    /\ IF busy[w]
       THEN /\ pc' = [pc EXCEPT ![w] = "poll"]
            /\ UNCHANGED <<detectorVars, channelVars, is_center_full, busy, managerVars,
                           global_score, cpc, centerVars, collectVars, sentVars, receivedVars,
                           worldVars, score_updates, notices, proposal, historyVars>>
       ELSE PopBundle(w, "leave")

\* The end of task_funneling and of process_message.  The score is not updated again.
LeaveFunnel(w) ==
    /\ pc[w] = "leave"
    /\ IF queue[w] # <<>>
       THEN Throw(w)
       ELSE /\ release_parent_if_passive(w, Post(to_center, w, Msg("AVAILABLE_STATE")),
                                         deficit[w])
            /\ pc' = [pc EXCEPT ![w] = "probe"]
            /\ UNCHANGED <<deficit, channelVars, is_center_full, busy, managerVars,
                           global_score, cpc, centerVars, collectVars, sentVars, receivedVars,
                           to_worker, score_updates, notices, proposal, historyVars>>

\* send_final_solution_to_center.
SendSolution(w) ==
    /\ pc[w] = "result"
    /\ to_center' = Post(to_center, w,
                         IF result[w] = Nothing
                         THEN Msg("NO_RESULT")
                         ELSE [tag |-> "HAS_RESULT", score |-> score[w], packet |-> result[w]])
    /\ pc' = [pc EXCEPT ![w] = "done"]
    /\ UNCHANGED <<detectorVars, channelVars, is_center_full, busy, managerVars, global_score,
                   cpc, centerVars, collectVars, sentVars, receivedVars, to_worker,
                   score_updates, notices, proposal, historyVars>>

-----------------------------------------------------------------------------
(* The worker's pool threads *)

\* m_mutex is free: every other critical section is one step.
MutexFree(w) == pc[w] \notin {"sending", "propose"}

\* try_open_transmission_channel and force_push, under the guard they share.
Push(w) ==
    /\ busy[w]
    /\ MutexFree(w)
    /\ ~transmitting[w]
    /\ ~is_center_full[w]
    /\ issued < MaxTasks
    /\ transmitting' = [transmitting EXCEPT ![w] = TRUE]
    /\ IF queue[w] # <<>>
       THEN pc' = [pc EXCEPT ![w] = "threw"] /\ UNCHANGED <<queue, issued>>
       ELSE /\ queue' = [queue EXCEPT ![w] = Append(@, issued + 1)]
            /\ issued' = issued + 1
            /\ pc' = pc
    /\ UNCHANGED <<detectorVars, bundle, is_center_full, busy, managerVars, global_score, cpc,
                   centerVars, collectVars, sentVars, receivedVars, worldVars, score_updates,
                   notices, proposal, executed, best>>

\* node_manager::try_update_result: a task reports a result that beats the local score.
FindResult(w, s) ==
    /\ busy[w]
    /\ should_update(score[w], s)
    /\ score' = [score EXCEPT ![w] = s]
    /\ result' = [result EXCEPT ![w] = s]
    /\ best' = IF should_update(best, s) THEN s ELSE best
    /\ UNCHANGED <<detectorVars, pc, channelVars, is_center_full, busy, global_score, cpc,
                   centerVars, collectVars, sentVars, receivedVars, worldVars, score_updates,
                   notices, proposal, issued, executed>>

\* The pool has no task left: is_done becomes true.
PoolDone(w) ==
    /\ busy[w]
    /\ busy' = [busy EXCEPT ![w] = FALSE]
    /\ UNCHANGED <<detectorVars, pc, channelVars, is_center_full, managerVars, global_score,
                   cpc, centerVars, collectVars, sentVars, receivedVars, worldVars,
                   score_updates, notices, proposal, historyVars>>

-----------------------------------------------------------------------------
(* The center *)

\* Mutant: a task the center sends is not counted.
SentUncounted == deficit' = deficit

\* on_task_sent at the center.
CenterSends == deficit' = [deficit EXCEPT ![Center] = @ + 1]

\* send_seed: MPI_Ssend to rank 1, which is in its probe loop.
Start ==
    /\ cpc = "start"
    /\ to_worker' = Post(to_worker, 1, TaskMsg("TASK_FROM_CENTER", Seed))
    /\ issued' = 1
    /\ CenterSends
    /\ process_state' = [process_state EXCEPT ![1] = "RUNNING"]
    /\ nodes_available' = nodes_available - 1
    /\ cpc' = "loop"
    /\ UNCHANGED <<parent, held, pc, channelVars, is_center_full, busy, managerVars,
                   global_score, center_queue, last_full_status, collectVars, sentVars,
                   receivedVars, to_center, score_updates, notices, proposal, executed, best>>

\* Mutant: a message is not followed by clear_buffer.
NoDispatch ==
    cpc' = IF deficit'[Center] = 0 /\ center_queue' = {} THEN "notify" ELSE "loop"

\* The test after every message: leave the loop, or go on to clear_buffer.
AfterMessage ==
    cpc' = IF deficit'[Center] = 0 /\ center_queue' = {} THEN "notify" ELSE "dispatch"

\* process_running
ProcessRunning(w) ==
    /\ cpc = "loop"
    /\ Arrived(to_center, w, "RUNNING_STATE")
    /\ process_state' = [process_state EXCEPT ![w] = "RUNNING"]
    /\ to_center' = Drop(to_center, w)
    /\ UNCHANGED <<detectorVars, center_queue>>
    /\ AfterMessage
    /\ UNCHANGED <<pc, channelVars, is_center_full, busy, managerVars, global_score,
                   nodes_available, last_full_status, collectVars, sentVars, receivedVars,
                   to_worker, score_updates, notices, proposal, historyVars>>

\* process_available
ProcessAvailable(w) ==
    /\ cpc = "loop"
    /\ Arrived(to_center, w, "AVAILABLE_STATE")
    /\ process_state' = [process_state EXCEPT ![w] = "AVAILABLE"]
    /\ nodes_available' = nodes_available + 1
    /\ to_center' = Drop(to_center, w)
    /\ UNCHANGED <<detectorVars, center_queue>>
    /\ AfterMessage
    /\ UNCHANGED <<pc, channelVars, is_center_full, busy, managerVars, global_score,
                   last_full_status, collectVars, sentVars, receivedVars,
                   to_worker, score_updates, notices, proposal, historyVars>>

should_broadcast_global(old, new) == should_update(old, new)

\* consume_score_flag completes the sender's MPI_Ssend; maybe_broadcast_global_score.
ReceiveProposal(w) ==
    /\ cpc = "loop"
    /\ proposal[w] # Nothing
    /\ proposal' = [proposal EXCEPT ![w] = Nothing]
    /\ IF should_broadcast_global(global_score[Center], proposal[w])
       THEN /\ global_score' = [global_score EXCEPT ![Center] = proposal[w]]
            /\ score_updates' = PostAll(score_updates, proposal[w])
            /\ score_updates_sent' = score_updates_sent + 1
       ELSE UNCHANGED <<global_score, score_updates, score_updates_sent>>
    /\ UNCHANGED <<detectorVars, center_queue>>
    /\ AfterMessage
    /\ UNCHANGED <<pc, channelVars, is_center_full, busy, managerVars, process_state,
                   nodes_available, last_full_status, collectVars, notices_sent, receivedVars,
                   worldVars, notices, historyVars>>

QueueLimit == TasksPerProcess * WorldSize

far_too_full(n) == n > 2 * QueueLimit

\* process_task_for_center: queue the task and acknowledge it at once.  Far above the
\* limit, and more than a second after CENTER_IS_FULL was sent, the center forgets that
\* it sent it.
ReceiveTaskForCenter(w) ==
    /\ cpc = "loop"
    /\ Arrived(to_center, w, "TASK_FOR_CENTER")
    /\ LET t == Head(to_center[w]).task IN
         /\ center_queue' = center_queue \cup {t}
         /\ to_worker' = Post(to_worker, w, TaskMsg("TASK_RECEIVED", t))
    /\ to_center' = Drop(to_center, w)
    /\ \/ last_full_status' = last_full_status
       \/ far_too_full(Cardinality(center_queue')) /\ last_full_status' = FALSE
    /\ UNCHANGED detectorVars
    /\ AfterMessage
    /\ UNCHANGED <<pc, channelVars, is_center_full, busy, managerVars, global_score,
                   process_state, nodes_available, collectVars, sentVars, receivedVars,
                   score_updates, notices, proposal, historyVars>>

\* process_task_received_ack at the center.
CenterReceiveAck(w) ==
    /\ cpc = "loop"
    /\ Arrived(to_center, w, "TASK_RECEIVED")
    /\ IF deficit[Center] = 0
       THEN cpc' = "threw" /\ UNCHANGED <<detectorVars, center_queue, to_center>>
       ELSE /\ deficit' = [deficit EXCEPT ![Center] = @ - 1]
            /\ to_center' = Drop(to_center, w)
            /\ UNCHANGED <<parent, held, center_queue>>
            /\ AfterMessage
    /\ UNCHANGED <<pc, channelVars, is_center_full, busy, managerVars, global_score,
                   process_state, nodes_available, last_full_status, collectVars, sentVars,
                   receivedVars, to_worker, score_updates, notices, proposal, historyVars>>

Available == {w \in Worker : process_state[w] = "AVAILABLE"}
CanDispatch == center_queue # {} /\ Available # {}

\* Mutant: the rank that is given a task stays AVAILABLE.
StaysAvailable(state, v) == state

Assigned(state, v) == [state EXCEPT ![v] = "ASSIGNED"]

\* One round of dispatch_to_available: the task of highest priority - the model does not
\* know which - goes to the first available rank.  The scan is in rank order and nothing
\* becomes available during it, so it is a sequence of these steps.
Dispatch ==
    /\ cpc \in {"dispatch", "loop"}
    /\ CanDispatch
    /\ LET v == Least(Available) IN
         /\ \E t \in center_queue :
              /\ center_queue' = center_queue \ {t}
              /\ to_worker' = Post(to_worker, v, TaskMsg("TASK_FROM_CENTER", t))
         /\ process_state' = Assigned(process_state, v)
    /\ nodes_available' = nodes_available - 1
    /\ CenterSends
    /\ cpc' = "sending"
    /\ UNCHANGED <<parent, held, pc, channelVars, is_center_full, busy, managerVars,
                   global_score, last_full_status, collectVars, sentVars, receivedVars,
                   to_center, score_updates, notices, proposal, historyVars>>

\* The MPI_Send of clear_buffer has returned.
DispatchSent ==
    /\ cpc = "sending"
    /\ cpc' = "dispatch"
    /\ UNCHANGED <<detectorVars, pc, channelVars, is_center_full, busy, managerVars,
                   global_score, centerVars, collectVars, sentVars, receivedVars, worldVars,
                   score_updates, notices, proposal, historyVars>>

\* get_current_rss
current_memory == IF notices_sent < MaxNotices THEN Memory ELSE {"low"}

\* The conditions of notify_center_full and notify_center_free.
is_full(memory, n) == memory = "high" \/ n > QueueLimit
is_free(memory, n) == memory = "low" /\ 10 * n < 8 * QueueLimit

\* Mutant: CENTER_IS_FREE is never sent.
NotifyFullOnly(memory) == ~last_full_status /\ is_full(memory, Cardinality(center_queue))

\* monitor_and_notify_center_status sends a notice.
must_notify(memory) ==
    LET n == Cardinality(center_queue)
    IN  IF last_full_status THEN is_free(memory, n) ELSE is_full(memory, n)

\* Mutant: the loop over the workers stops one short.
NotifyAllButLast ==
    /\ last_full_status' = ~last_full_status
    /\ notices' = [w \in Worker |-> IF w = WorldSize - 1 THEN notices[w]
                                   ELSE Append(notices[w], last_full_status')]
    /\ notices_sent' = notices_sent + 1

\* The loop over the workers in notify_center_full and notify_center_free.
NotifyCenterStatus ==
    /\ last_full_status' = ~last_full_status
    /\ notices' = PostAll(notices, last_full_status')
    /\ notices_sent' = notices_sent + 1

\* monitor_and_notify_center_status after clear_buffer, at the end of a round of the loop.
Monitor ==
    /\ cpc = "dispatch"
    /\ ~CanDispatch
    /\ \E memory \in current_memory :
         IF must_notify(memory) THEN NotifyCenterStatus
         ELSE UNCHANGED <<last_full_status, notices, notices_sent>>
    /\ cpc' = "loop"
    /\ UNCHANGED <<detectorVars, pc, channelVars, is_center_full, busy, managerVars,
                   global_score, process_state, nodes_available, center_queue, collectVars,
                   score_updates_sent, receivedVars, worldVars, score_updates, proposal,
                   historyVars>>

\* The same while the center waits for a message; a call that sends nothing changes nothing.
MonitorIdle ==
    /\ cpc = "loop"
    /\ ~CanDispatch
    /\ \E memory \in current_memory : must_notify(memory)
    /\ NotifyCenterStatus
    /\ UNCHANGED <<detectorVars, pc, channelVars, is_center_full, busy, managerVars,
                   global_score, cpc, process_state, nodes_available, center_queue, collectVars,
                   score_updates_sent, receivedVars, worldVars, score_updates, proposal,
                   historyVars>>

\* notify_termination, up to the barrier.
NotifyTermination ==
    /\ cpc = "notify"
    /\ to_worker' = PostAll(to_worker, [tag |-> "TERMINATION",
                                         counts |-> <<score_updates_sent, notices_sent>>])
    /\ cpc' = "barrier"
    /\ UNCHANGED <<detectorVars, pc, channelVars, is_center_full, busy, managerVars,
                   global_score, centerVars, collectVars, sentVars, receivedVars, to_center,
                   score_updates, notices, proposal, historyVars>>

\* MPI_Barrier of notify_termination and of every process_termination.
Barrier ==
    /\ cpc = "barrier"
    /\ \A w \in Worker : pc[w] = "barrier"
    /\ cpc' = "collect"
    /\ pc' = [w \in Worker |-> "result"]
    /\ UNCHANGED <<detectorVars, channelVars, is_center_full, busy, managerVars, global_score,
                   centerVars, collectVars, sentVars, receivedVars, worldVars, score_updates,
                   notices, proposal, historyVars>>

\* receive_solution_from, one message of the rank it is at.
ReceiveSolution ==
    /\ cpc = "collect"
    /\ to_center[collecting] # <<>>
    /\ LET m == Head(to_center[collecting])
           last == collecting = WorldSize - 1
           isResult == m.tag \in {"HAS_RESULT", "NO_RESULT"}
           isState == m.tag \in {"RUNNING_STATE", "AVAILABLE_STATE"}
       IN  /\ best_results' = IF m.tag # "HAS_RESULT" THEN best_results
                              ELSE [best_results EXCEPT ![collecting] =
                                      [score |-> m.score, packet |-> m.packet]]
           /\ collecting' = IF isResult /\ ~last THEN collecting + 1 ELSE collecting
           /\ cpc' = CASE isResult /\ last -> "done"
                       [] (isResult /\ ~last) \/ isState -> cpc
                       [] OTHER -> "threw"
    /\ to_center' = Drop(to_center, collecting)
    /\ UNCHANGED <<detectorVars, pc, channelVars, is_center_full, busy, managerVars,
                   global_score, centerVars, sentVars, receivedVars, to_worker, score_updates,
                   notices, proposal, historyVars>>

\* fetch_solution: the packet of the first rank whose result has the global score.
fetch_solution ==
    LET hits == {w \in Worker : best_results[w].score = global_score[Center]}
    IN  IF hits = {} THEN Nothing ELSE best_results[Least(hits)].packet

-----------------------------------------------------------------------------

\* result::EMPTY, which fills m_best_results.
EmptyResult == [score |-> -1, packet |-> Nothing]

Init ==
    /\ deficit = [r \in Rank |-> 0]
    /\ parent = [r \in Rank |-> None]
    /\ held = [w \in Worker |-> 0]
    /\ pc = [w \in Worker |-> "probe"]
    /\ bundle = [w \in Worker |-> 0]
    /\ transmitting = [w \in Worker |-> FALSE]
    /\ queue = [w \in Worker |-> <<>>]
    /\ is_center_full = [w \in Worker |-> FALSE]
    /\ busy = [w \in Worker |-> FALSE]
    /\ score = [w \in Worker |-> Default]
    /\ result = [w \in Worker |-> Nothing]
    /\ global_score = [r \in Rank |-> Default]
    /\ cpc = "start"
    /\ process_state = [w \in Worker |-> "AVAILABLE"]
    /\ nodes_available = WorldSize - 1
    /\ center_queue = {}
    /\ last_full_status = FALSE
    /\ collecting = 1
    /\ best_results = [w \in Worker |-> EmptyResult]
    /\ score_updates_sent = 0
    /\ notices_sent = 0
    /\ score_updates_received = [w \in Worker |-> 0]
    /\ notices_received = [w \in Worker |-> 0]
    /\ to_center = [w \in Worker |-> <<>>]
    /\ to_worker = [w \in Worker |-> <<>>]
    /\ score_updates = [w \in Worker |-> <<>>]
    /\ notices = [w \in Worker |-> <<>>]
    /\ proposal = [w \in Worker |-> Nothing]
    /\ issued = 0
    /\ executed = {}
    /\ best = Default

MainThread(w) ==
    \/ ReceiveNotice(w)
    \/ ReceiveTask(w)
    \/ ReceiveAck(w)
    \/ ReceiveTermination(w)
    \/ FirstPop(w)
    \/ SendTask(w)
    \/ TaskSent(w)
    \/ PollCenter(w)
    \/ ProposalMatched(w)
    \/ CheckQueue(w)
    \/ CheckDone(w)
    \/ LeaveFunnel(w)
    \/ SendSolution(w)

CenterThread ==
    \/ Start
    \/ \E w \in Worker : ProcessRunning(w)
    \/ \E w \in Worker : ProcessAvailable(w)
    \/ \E w \in Worker : ReceiveProposal(w)
    \/ \E w \in Worker : ReceiveTaskForCenter(w)
    \/ \E w \in Worker : CenterReceiveAck(w)
    \/ Dispatch
    \/ DispatchSent
    \/ Monitor
    \/ MonitorIdle
    \/ NotifyTermination
    \/ Barrier
    \/ ReceiveSolution

AllDone == cpc = "done" /\ \A w \in Worker : pc[w] = "done"

\* Every rank has returned from run().
Finished == AllDone /\ UNCHANGED vars

Next ==
    \/ CenterThread
    \/ \E w \in Worker : MainThread(w)
    \/ \E w \in Worker : Push(w)
    \/ \E w \in Worker, s \in Scores : FindResult(w, s)
    \/ \E w \in Worker : PoolDone(w)
    \/ Finished

Spec == Init /\ [][Next]_vars

\* MPI_Send may wait here: a packet that was sent is not matched yet.
MaySleep(w) ==
    Rendezvous /\ pc[w] = "sending" /\ TaskMsg("TASK_FOR_CENTER", bundle[w]) \in Range(to_center[w])
CenterMaySleep ==
    /\ Rendezvous
    /\ cpc = "sending"
    /\ \E w \in Worker : \E m \in Range(to_worker[w]) : m.tag = "TASK_FROM_CENTER"

\* Main threads never stop in the middle of a loop but in MPI_Send, the center handles what it
\* receives, and the tasks of the user's algorithm end.
Fairness ==
    /\ WF_vars(CenterThread /\ ~CenterMaySleep)
    /\ \A w \in Worker : WF_vars(MainThread(w) /\ ~MaySleep(w))
    /\ \A w \in Worker : WF_vars(PoolDone(w))

FairSpec == Spec /\ Fairness

-----------------------------------------------------------------------------
(* Properties *)

MainPC == {"probe", "pop", "send", "sending", "poll", "propose", "check", "isdone", "leave",
           "barrier", "result", "done", "threw"}
CenterPC == {"start", "loop", "dispatch", "sending", "notify", "barrier", "collect", "done",
             "threw"}

ToCenter ==
    [tag : {"RUNNING_STATE", "AVAILABLE_STATE", "NO_RESULT"}]
      \cup [tag : {"TASK_RECEIVED", "TASK_FOR_CENTER"}, task : Task]
      \cup [tag : {"HAS_RESULT"}, score : Scores \cup {Default}, packet : Scores]
ToWorker ==
    [tag : {"TASK_FROM_CENTER", "TASK_RECEIVED"}, task : Task]
      \cup [tag : {"TERMINATION"}, counts : Nat \X Nat]

DetectorTypes ==
    /\ deficit \in [Rank -> Nat]
    /\ parent \in [Rank -> {None, Center}]
    /\ held \in [Worker -> Task \cup {0}]
WorkerTypes ==
    /\ pc \in [Worker -> MainPC]
    /\ bundle \in [Worker -> Task \cup {0}]
    /\ transmitting \in [Worker -> BOOLEAN]
    /\ queue \in [Worker -> Seq(Task)]
    /\ busy \in [Worker -> BOOLEAN]
ScoreTypes ==
    /\ score \in [Worker -> Scores \cup {Default}]
    /\ result \in [Worker -> Scores \cup {Nothing}]
    /\ global_score \in [Rank -> Scores \cup {Default}]
    /\ proposal \in [Worker -> Scores \cup {Nothing}]
CenterTypes ==
    /\ cpc \in CenterPC
    /\ process_state \in [Worker -> {"AVAILABLE", "ASSIGNED", "RUNNING"}]
    /\ nodes_available \in 0 .. WorldSize - 1
    /\ center_queue \subseteq Task
    /\ last_full_status \in BOOLEAN
    /\ collecting \in Worker
StreamTypes ==
    /\ score_updates_sent \in Nat /\ score_updates_received \in [Worker -> Nat]
    /\ notices_sent \in Nat /\ notices_received \in [Worker -> Nat]
    /\ score_updates \in Net(Worker, Scores)
    /\ notices \in Net(Worker, BOOLEAN)
    /\ is_center_full \in [Worker -> BOOLEAN]
WorldTypes == to_center \in Net(Worker, ToCenter) /\ to_worker \in Net(Worker, ToWorker)
TaskTypes == issued \in 0 .. MaxTasks /\ executed \subseteq 1 .. issued

TypeOK == /\ DetectorTypes /\ WorkerTypes /\ ScoreTypes /\ CenterTypes /\ StreamTypes
          /\ WorldTypes /\ TaskTypes

\* No rank throws: no unexpected acknowledgement, no termination with work in progress,
\* no message too many at the drain, no second bundle in the queue, no unknown message in
\* receive_solution.
NoThrow == cpc # "threw" /\ \A w \in Worker : pc[w] # "threw"

\* The messages of this tag in a channel, with their worker.
Flying(net, tag) ==
    UNION {{<<m.task, w>> : m \in {x \in Range(net[w]) : x.tag = tag}} : w \in Worker}

\* A task crosses the network up to twice, from the worker that made it and to the worker
\* that runs it, and the acknowledgement of the first crossing may still be on its way
\* when the second begins.
Leg == {"in", "out"}
Journey ==
    LET forCenter == Flying(to_center, "TASK_FOR_CENTER")
        fromCenter == Flying(to_worker, "TASK_FROM_CENTER")
        owed == {<<held[w], w>> : w \in {v \in Worker : held[v] # 0}}
        acksIn == Flying(to_worker, "TASK_RECEIVED")
        acksOut == Flying(to_center, "TASK_RECEIVED")
        In(t, S) == \E x \in S : x[1] = t
        At(t, S) == (CHOOSE x \in S : x[1] = t)[2]
        free == <<"free", None, None>>
    IN  [x \in Task \X Leg |->
           LET t == x[1] IN
           IF x[2] = "in"
           THEN CASE In(t, forCenter) -> <<"sent", At(t, forCenter), Center>>
                  [] In(t, acksIn) -> <<"acking", At(t, acksIn), Center>>
                  [] OTHER -> free
           ELSE CASE In(t, fromCenter) -> <<"sent", Center, At(t, fromCenter)>>
                  [] In(t, owed) -> <<"engaging", Center, At(t, owed)>>
                  [] In(t, acksOut) -> <<"acking", Center, At(t, acksOut)>>
                  [] OTHER -> free]

Detection == INSTANCE TerminationDetection WITH
    Root <- Center,
    NoParent <- None,
    Task <- Task \X Leg,
    active <- [r \in Rank |-> IF r = Center THEN cpc = "start" \/ center_queue # {}
                              ELSE pc[r] \notin {"probe", "barrier", "result", "done"}],
    phase <- LET j == Journey IN [x \in Task \X Leg |-> j[x][1]],
    source <- LET j == Journey IN [x \in Task \X Leg |-> j[x][2]],
    target <- LET j == Journey IN [x \in Task \X Leg |-> j[x][3]],
    terminated <- cpc \notin {"start", "loop", "dispatch", "sending", "notify"}

\* The ranks of this scheduler run the protocol of TerminationDetection, with a root that
\* is a relay: it receives tasks too, and is active while it has some to hand out.
ImplementsDetection == Detection!Spec

\* When the center announces termination every task that was created has been started,
\* none is left in a queue, and no pool is working.
NothingLost ==
    cpc \in {"notify", "barrier", "collect", "done"} =>
        /\ executed = 1 .. issued
        /\ center_queue = {}
        /\ \A w \in Worker : ~busy[w] /\ queue[w] = <<>> /\ bundle[w] = 0

\* What the center believes of an AVAILABLE rank is true when it acts on it: the rank is
\* in its probe loop, has no task on its way and no state message in flight.  So a task
\* is never sent to a rank that is working.
AvailableIsIdle ==
    cpc \in {"loop", "dispatch", "sending"} => \A w \in Available :
        /\ pc[w] = "probe"
        /\ \A i \in DOMAIN to_worker[w] : to_worker[w][i].tag # "TASK_FROM_CENTER"
        /\ \A i \in DOMAIN to_center[w] :
             to_center[w][i].tag \notin {"RUNNING_STATE", "AVAILABLE_STATE"}

\* While the center waits for a message no task waits beside an available rank, and the
\* count it reports is the number of available ranks.
NobodyWaits == cpc = "loop" => ~CanDispatch /\ nodes_available = Cardinality(Available)

\* The workers act on the status the center last announced: once its notices are read
\* each worker agrees with m_center_last_full_status, also after the workers were
\* contacted again.
FullnessAgrees ==
    cpc = "loop" => \A w \in Worker :
        last_full_status = IF notices[w] = <<>> THEN is_center_full[w] ELSE Last(notices[w])

\* Workers read every notification of the center before they leave.
CenterMessagesRead ==
    cpc \in {"collect", "done"} => \A w \in Worker :
        /\ score_updates[w] = <<>> /\ notices[w] = <<>> /\ proposal[w] = Nothing
        /\ score_updates_received[w] = score_updates_sent
        /\ notices_received[w] = notices_sent

\* get_result returns the best result any task found, and the empty packet if none did.
BestIsReturned ==
    AllDone => fetch_solution = IF best = Default THEN Nothing ELSE best

\* A worker that was told to stop sending is told to go on, once memory use is low.
FullnessRecovers == \A w \in Worker : is_center_full[w] ~> ~is_center_full[w]

\* Every run ends: all ranks leave run().
Termination == <>AllDone

-----------------------------------------------------------------------------
(* The inductive invariant *)

\* What a worker's main thread and its pool threads know of each other.
Idle == {"probe", "barrier", "result", "done"}
WorkerInv == \A w \in Worker :
    /\ pc[w] # "threw"
    /\ pc[w] \in Idle \cup {"leave"} => ~busy[w] /\ queue[w] = <<>>
    /\ pc[w] \in {"send", "sending"} => transmitting[w] /\ bundle[w] \in Task /\ queue[w] = <<>>
    /\ pc[w] \notin {"send", "sending"} => bundle[w] = 0
    /\ transmitting[w] /\ queue[w] = <<>> => pc[w] \in {"send", "sending"}
    /\ queue[w] # <<>> => transmitting[w] /\ Len(queue[w]) = 1
    /\ proposal[w] # Nothing => pc[w] = "propose"

\* Every deficit counts the tasks of its rank that are on their way, deferred or about to
\* be acknowledged; a rank that works, or that waits for an acknowledgement, has a parent.
Engaged == {w \in Worker : parent[w] # None}
DetectorInv ==
    /\ parent[Center] = None
    /\ deficit[Center] = Count(to_worker, Worker, "TASK_FROM_CENTER") + Cardinality(Engaged)
                           + Count(to_center, Worker, "TASK_RECEIVED")
    /\ \A w \in Worker :
         /\ deficit[w] = Count(to_center, {w}, "TASK_FOR_CENTER")
                           + Count(to_worker, {w}, "TASK_RECEIVED")
         /\ parent[w] = None => deficit[w] = 0 /\ pc[w] \in Idle
         /\ parent[w] # None => held[w] \in Task

\* What a phase of the center says about the workers.
Over == {"notify", "barrier", "collect", "done"}
Announced == {"barrier", "collect", "done"}
PhaseInv ==
    /\ cpc # "threw"
    /\ cpc = "start" => issued = 0 /\ \A w \in Worker : w \in Available
    /\ cpc \in Over \cup {"start"} => deficit[Center] = 0 /\ center_queue = {}
    /\ \A w \in Worker :
         /\ \A m \in Messages(to_worker, w) : m.tag = "TERMINATION" =>
              cpc \in Announced /\ m.counts = <<score_updates_sent, notices_sent>>
         /\ pc[w] \in {"barrier", "result", "done"} => cpc \in Announced
         /\ cpc \in {"collect", "done"} => pc[w] \in {"result", "done"}

\* Nothing the center sends to a worker is lost, and one that left its loop has read it all.
StreamInv == \A w \in Worker :
    /\ score_updates_sent = score_updates_received[w] + Len(score_updates[w])
    /\ notices_sent = notices_received[w] + Len(notices[w])
    /\ pc[w] \in {"barrier", "result", "done"} => score_updates[w] = <<>> /\ notices[w] = <<>>

\* Every task that was created is somewhere, and only those are.
CrossesAs(t, w) ==
    \/ TaskMsg("TASK_FOR_CENTER", t) \in Messages(to_center, w)
    \/ TaskMsg("TASK_FROM_CENTER", t) \in Messages(to_worker, w)
KeptBy(t, w) == (queue[w] # <<>> /\ Head(queue[w]) = t) \/ (pc[w] = "send" /\ bundle[w] = t)
TaskInv ==
    /\ \A t \in 1 .. issued :
         t \in executed \cup center_queue \/ \E w \in Worker : CrossesAs(t, w) \/ KeptBy(t, w)
    /\ \A t \in Task, w \in Worker : CrossesAs(t, w) \/ KeptBy(t, w) => t <= issued
    /\ center_queue \subseteq 1 .. issued

\* While tasks are handed out, the center's view of who is available.
StateTags == {"RUNNING_STATE", "AVAILABLE_STATE"}
Given(w) == \E m \in Messages(to_worker, w) : m.tag = "TASK_FROM_CENTER"
SaysAvailable(w) == \E m \in Messages(to_center, w) : m.tag = "AVAILABLE_STATE"
AvailableInv ==
    /\ nodes_available = Cardinality(Available)
    /\ cpc = "loop" => ~CanDispatch
    /\ cpc \in {"start", "loop", "dispatch", "sending"} => \A w \in Worker :
         /\ process_state[w] = "AVAILABLE" =>
              /\ pc[w] = "probe"
              /\ ~Given(w)
              /\ \A m \in Messages(to_center, w) : m.tag \notin StateTags
         /\ SaysAvailable(w) => pc[w] = "probe" /\ ~Given(w)
         /\ NoneBehind(to_center, w, "AVAILABLE_STATE", StateTags)
         /\ Given(w) => pc[w] = "probe"
         /\ Count(to_worker, {w}, "TASK_FROM_CENTER") <= 1

\* What worker w was last told about the center, read or not, is what the center
\* remembers - or the center has just forgotten it, and will find its queue full again
\* before it waits for a message.
Told(w) == IF notices[w] = <<>> THEN is_center_full[w] ELSE Last(notices[w])
Forgotten == /\ cpc = "dispatch" /\ ~last_full_status
             /\ Available = {} /\ far_too_full(Cardinality(center_queue))
FullnessInv == Forgotten \/ \A w \in Worker : Told(w) = last_full_status

\* No score is worse than the default one.
Found(s) == s = Default \/ should_update(Default, s)
ScoreInv ==
    /\ \A r \in Rank : Found(global_score[r])
    /\ \A w \in Worker : Found(score[w])
    /\ \A w \in Worker : proposal[w] # Nothing => Found(proposal[w])
    /\ \A w \in Worker : \A s \in Messages(score_updates, w) : Found(s)

IInv == /\ TypeOK /\ WorkerInv /\ DetectorInv /\ PhaseInv /\ StreamInv /\ TaskInv
        /\ AvailableInv /\ FullnessInv /\ ScoreInv
=============================================================================
