------------------------- MODULE SemiCentralized -------------------------
(***************************************************************************)
(* The semi-centralized MPI scheduler: a center (rank 0) that knows who is *)
(* idle and hands idle ranks to busy ones, and workers that send tasks to  *)
(* the ranks they were given, directly.                                    *)
(*                                                                         *)
(* A worker has two kinds of threads.  The main thread probes for messages *)
(* and, while a task runs, loops in task_funneling.  The pool threads run  *)
(* the branching algorithm: they may find results and, when the channel is *)
(* free, put one task in the bundle queue for another rank.  Steps of the  *)
(* pool interleave with every step of the main thread; m_mutex is held     *)
(* over more than one step only while the main thread waits in MPI.        *)
(*                                                                         *)
(* Messages: MPI keeps the order of two messages of one communicator from  *)
(* one rank to another, and of no others.  MPI_Ssend returns when the      *)
(* receiver has matched it.  MPI_Send of a task packet may buffer or wait, *)
(* as the MPI library chooses (Rendezvous); other messages are a few bytes *)
(* long and buffered.  The two messages of one task                        *)
(* (TASK, RUNNABLE_ID) and of one result are one message here, since both  *)
(* ends handle the pair without a step in between.                         *)
(*                                                                         *)
(* Tasks are numbered; a TASK_RECEIVED message names the task it           *)
(* acknowledges and held[w] the one whose acknowledgement w owes to its    *)
(* parent.  The code keeps neither number: they are there to state what    *)
(* happens to a task.                                                      *)
(***************************************************************************)
EXTENDS Integers, Sequences, FiniteSets, SequencesExt, Channels

CONSTANTS
    WorldSize,  \* number of ranks, the center included
    Topology,   \* the children of each worker in the initial tree (InitialTopology)
    MaxTasks,   \* bound: tasks created in a run, the seed included
    ScoredTasks, \* bound: results are found only while this many tasks have been created
    Scores,     \* scores of the results the tasks may find
    Finds,      \* bound: those of them that the tasks on each worker may find
    Goal,       \* "MAXIMISE" or "MINIMISE"
    Rendezvous, \* MPI_Send of a packet may wait until the receiver has matched it
    Default,    \* utils::get_default_score, worse than every score
    Nothing     \* task_packet::EMPTY, or no pending proposal

ASSUME WorldSizeAssumption == WorldSize \in Nat /\ WorldSize >= 2
ASSUME MaxTasksAssumption == MaxTasks \in Nat \ {0}
ASSUME ScoredTasksAssumption == ScoredTasks \subseteq Nat
ASSUME ScoresAssumption == Scores \subseteq Int /\ Default \in Int
ASSUME GoalAssumption == Goal \in {"MAXIMISE", "MINIMISE"}
ASSUME RendezvousAssumption == Rendezvous \in BOOLEAN
ASSUME NothingAssumption == Nothing \notin Scores \cup {Default}

Center == 0
Worker == 1 .. WorldSize - 1
Rank == {Center} \cup Worker

ASSUME FindsAssumption == Finds \in [Worker -> SUBSET Scores]
Task == 1 .. MaxTasks
Seed == 1
None == -1      \* NO_PARENT, and the -1 of m_next_process and m_destination_rank

\* add_next throws if a rank would get a second parent, and rank 1 runs the seed.
ASSUME TopologyAssumption ==
    /\ Topology \in [Worker -> Seq(Worker)]
    /\ \A p, q \in Worker : \A i \in DOMAIN Topology[p], j \in DOMAIN Topology[q] :
         Topology[p][i] = Topology[q][j] => p = q /\ i = j
    /\ \A p \in Worker : \A i \in DOMAIN Topology[p] : Topology[p][i] \notin {1, p}

VARIABLES
    \* Dijkstra-Scholten, on every rank
    deficit, parent, held,
    \* the main thread of each worker, and the bundle it has popped (0: none)
    pc, bundle,
    \* shared by the threads of a worker: m_next_processes (without its -1 tail),
    \* m_next_process, m_destination_rank, m_transmitting, m_tasks_bundle_queue
    next_processes, next_process, destination_rank, transmitting, queue,
    \* the pool of a worker has tasks; its node_manager's m_score and m_result
    busy, score, result,
    \* m_global_score of every rank
    global_score,
    \* the center: its control, m_process_state, m_process_tree as the list of the
    \* children of each rank, the rank receive_solution is at, m_best_results
    cpc, process_state, children, collecting, best_results,
    \* messages sent by the center and read by the workers
    score_updates_sent, next_processes_sent, score_updates_received, next_processes_received,
    \* the network: world communicator, SCORE_UPDATE, NEXT_PROCESS, the pending
    \* MPI_Ssend of a SCORE_PROPOSAL (Nothing: none)
    world, score_updates, next_messages, proposal,
    \* history: tasks created, tasks started, best score any task found
    issued, executed, best

detectorVars == <<deficit, parent, held>>
mainVars == <<pc, bundle>>
channelVars == <<next_processes, next_process, destination_rank, transmitting, queue>>
managerVars == <<score, result>>
centerVars == <<cpc, process_state, children, collecting, best_results>>
sentVars == <<score_updates_sent, next_processes_sent>>
receivedVars == <<score_updates_received, next_processes_received>>
countVars == <<sentVars, receivedVars>>
netVars == <<world, score_updates, next_messages, proposal>>
historyVars == <<issued, executed, best>>
vars == <<detectorVars, mainVars, channelVars, busy, managerVars, global_score,
          centerVars, countVars, netVars, historyVars>>

-----------------------------------------------------------------------------
(* Helpers *)

should_update(old, new) == IF Goal = "MAXIMISE" THEN new > old ELSE new < old

Least(S) == CHOOSE x \in S : \A y \in S : x <= y

Arrived(s, d, tag) == world[<<s, d>>] # <<>> /\ Head(world[<<s, d>>]).tag = tag

Msg(tag) == [tag |-> tag]
TaskMsg(t) == [tag |-> "TASK", task |-> t]
AckMsg(t) == [tag |-> "TASK_RECEIVED", task |-> t]

\* utils::shift_left on m_next_processes.
shift_left(list) == IF list = <<>> THEN <<>> ELSE Tail(list)

First(list) == IF list = <<>> THEN None ELSE Head(list)

\* MPI_Recv of a NEXT_PROCESS message with one rank overwrites the first cell of the array.
Overwrite(list, v) == <<v>> \o Skip(list, 1)

\* The places of rank r in the lists of children, tree_node::is_assigned and
\* tree_node::release, which unlinks one node.
Places(tree, r) ==
    {x \in UNION {{p} \X DOMAIN tree[p] : p \in Worker} : tree[x[1]][x[2]] = r}
is_assigned(tree, r) == Places(tree, r) # {}
release(tree, r) ==
    LET x == CHOOSE y \in Places(tree, r) : TRUE
    IN  IF is_assigned(tree, r) THEN [tree EXCEPT ![x[1]] = RemoveAt(@, x[2])] ELSE tree

-----------------------------------------------------------------------------
(* The worker's main thread: receiving *)

Throw(w) ==
    /\ pc' = [pc EXCEPT ![w] = "threw"]
    /\ UNCHANGED <<detectorVars, bundle, channelVars, busy, managerVars, global_score,
                   centerVars, countVars, netVars, historyVars>>

\* The first ns score updates and nn NEXT_PROCESS messages on their way to w are received;
\* of the latter the last one stays in the first cell of m_next_processes.
ReceiveFromCenter(w, ns, nn) ==
    /\ global_score' = [global_score EXCEPT ![w] =
                          IF ns = 0 THEN @ ELSE score_updates[w][ns]]
    /\ next_processes' = [next_processes EXCEPT ![w] =
                            IF nn = 0 THEN @ ELSE Overwrite(@, next_messages[w][nn])]
    /\ score_updates' = [score_updates EXCEPT ![w] = Skip(@, ns)]
    /\ next_messages' = [next_messages EXCEPT ![w] = Skip(@, nn)]
    /\ score_updates_received' = [score_updates_received EXCEPT ![w] = @ + ns]
    /\ next_processes_received' = [next_processes_received EXCEPT ![w] = @ + nn]

\* receive_score_from_center and receive_next_process in the probe loop.  m_next_process is
\* not touched.
ReceiveNotice(w) ==
    /\ pc[w] = "probe"
    /\ \/ score_updates[w] # <<>> /\ ReceiveFromCenter(w, 1, 0)
       \/ next_messages[w] # <<>> /\ ReceiveFromCenter(w, 0, 1)
    /\ UNCHANGED <<detectorVars, mainVars, next_process, destination_rank, transmitting, queue,
                   busy, managerVars, centerVars, sentVars, world, proposal, historyVars>>

\* process_message, up to the call of task_funneling.
ReceiveTask(w, s) ==
    /\ pc[w] = "probe"
    /\ Arrived(s, w, "TASK")
    /\ LET t == Head(world[<<s, w>>]).task
           rest == Drop(world, <<s, w>>)
       IN  /\ IF parent[w] # None
              THEN /\ world' = Post(Post(rest, <<w, s>>, AckMsg(t)), <<w, Center>>,
                                  Msg("RUNNING_STATE"))
                   /\ UNCHANGED <<parent, held>>
              ELSE /\ world' = Post(rest, <<w, Center>>, Msg("RUNNING_STATE"))
                   /\ parent' = [parent EXCEPT ![w] = s]
                   /\ held' = [held EXCEPT ![w] = t]
           /\ executed' = executed \cup {t}
    /\ busy' = [busy EXCEPT ![w] = TRUE]
    /\ pc' = [pc EXCEPT ![w] = "pop"]
    /\ UNCHANGED <<deficit, bundle, channelVars, managerVars, global_score, centerVars,
                   countVars, score_updates, next_messages, proposal, issued, best>>

\* Mutant: the deferred acknowledgement does not wait for the deficit.
ReleaseEagerly(w, net, d) ==
    IF parent[w] # None
    THEN /\ world' = Post(net, <<w, parent[w]>>, AckMsg(held[w]))
         /\ parent' = [parent EXCEPT ![w] = None]
         /\ held' = [held EXCEPT ![w] = 0]
    ELSE world' = net /\ UNCHANGED <<parent, held>>

\* Mutant: the deferred acknowledgement is forgotten.
ReleaseNever(w, net, d) == world' = net /\ UNCHANGED <<parent, held>>

\* release_parent_if_passive on the network net, given the deficit d of w.
release_parent_if_passive(w, net, d) ==
    IF d = 0 /\ parent[w] # None
    THEN /\ world' = Post(net, <<w, parent[w]>>, AckMsg(held[w]))
         /\ parent' = [parent EXCEPT ![w] = None]
         /\ held' = [held EXCEPT ![w] = 0]
    ELSE world' = net /\ UNCHANGED <<parent, held>>

\* process_task_received_ack, then release_parent_if_passive.
ReceiveAck(w, s) ==
    /\ pc[w] = "probe"
    /\ Arrived(s, w, "TASK_RECEIVED")
    /\ IF deficit[w] = 0
       THEN Throw(w)
       ELSE /\ deficit' = [deficit EXCEPT ![w] = @ - 1]
            /\ release_parent_if_passive(w, Drop(world, <<s, w>>), deficit[w] - 1)
            /\ UNCHANGED <<mainVars, channelVars, busy, managerVars, global_score, centerVars,
                           countVars, score_updates, next_messages, proposal, historyVars>>

\* Mutant: process_termination does not read what is still on its way.
PendingIgnored(sent, received) == 0

\* What drain_center_messages still has to read, negative if a message too many was read.
pending(sent, received) == sent - received

\* process_termination, up to the barrier: drain_center_messages reads what the center
\* has sent, and not a message more.
ReceiveTermination(w) ==
    /\ pc[w] = "probe"
    /\ Arrived(Center, w, "TERMINATION")
    /\ LET sent == Head(world[<<Center, w>>]).counts
           scores == pending(sent[1], score_updates_received[w])
           nexts == pending(sent[2], next_processes_received[w])
       IN  IF \/ deficit[w] # 0 \/ parent[w] # None
              \/ queue[w] # <<>> \/ transmitting[w]
              \/ scores < 0 \/ nexts < 0
           THEN Throw(w)
           ELSE /\ scores <= Len(score_updates[w]) /\ nexts <= Len(next_messages[w])
                /\ ReceiveFromCenter(w, scores, nexts)
                /\ world' = Drop(world, <<Center, w>>)
                /\ pc' = [pc EXCEPT ![w] = "barrier"]
                /\ UNCHANGED <<detectorVars, bundle, next_process, destination_rank,
                               transmitting, queue, busy, managerVars, centerVars, sentVars,
                               proposal, historyVars>>

-----------------------------------------------------------------------------
(* The worker's main thread: task_funneling *)

\* m_tasks_bundle_queue.pop: on success the bundle is sent next, otherwise the thread
\* goes on at `otherwise`.
PopBundle(w, otherwise) ==
    /\ IF queue[w] # <<>>
       THEN /\ bundle' = [bundle EXCEPT ![w] = Head(queue[w])]
            /\ queue' = [queue EXCEPT ![w] = Tail(@)]
            /\ pc' = [pc EXCEPT ![w] = "send"]
       ELSE /\ pc' = [pc EXCEPT ![w] = otherwise]
            /\ UNCHANGED <<bundle, queue>>
    /\ UNCHANGED <<detectorVars, next_processes, next_process, destination_rank, transmitting,
                   busy, managerVars, global_score, centerVars, countVars, netVars, historyVars>>

\* The pop before the loop.
FirstPop(w) == pc[w] = "pop" /\ PopBundle(w, "poll")

\* The pop after the locked section.
CheckQueue(w) == pc[w] = "check" /\ PopBundle(w, "isdone")

\* send_task, up to the MPI_Send of the packet; m_mutex is held.
SendTask(w) ==
    /\ pc[w] = "send"
    /\ LET d == destination_rank[w] IN
         IF d <= 0 \/ d = w
         THEN Throw(w)
         ELSE /\ deficit' = [deficit EXCEPT ![w] = @ + 1]
              /\ world' = Post(world, <<w, d>>, TaskMsg(bundle[w]))
              /\ pc' = [pc EXCEPT ![w] = "sending"]
              /\ UNCHANGED <<parent, held, bundle, channelVars, busy, managerVars, global_score,
                             centerVars, countVars, score_updates, next_messages, proposal,
                             historyVars>>

\* MPI_Send has returned: the end of send_task and of its critical section.
TaskSent(w) ==
    /\ pc[w] = "sending"
    /\ IF queue[w] # <<>>
       THEN Throw(w)
       ELSE /\ destination_rank' = [destination_rank EXCEPT ![w] = None]
            /\ transmitting' = [transmitting EXCEPT ![w] = FALSE]
            /\ bundle' = [bundle EXCEPT ![w] = 0]
            /\ pc' = [pc EXCEPT ![w] = "poll"]
            /\ UNCHANGED <<detectorVars, next_processes, next_process, queue, busy, managerVars,
                           global_score, centerVars, countVars, netVars, historyVars>>

\* update_score with the global score g, after which the thread is at `next` - or
\* waits in MPI_Ssend at `waiting`.  The code reads the local score before it acts on it:
\* a result found in between leaves the same state as one found right after.
update_score(w, g, next, waiting) ==
    \/ /\ should_update(score[w], g)
       /\ score' = [score EXCEPT ![w] = g]
       /\ result' = [result EXCEPT ![w] = Nothing]
       /\ pc' = [pc EXCEPT ![w] = next]
       /\ proposal' = proposal
    \/ /\ should_update(g, score[w])
       /\ proposal' = [proposal EXCEPT ![w] = score[w]]
       /\ pc' = [pc EXCEPT ![w] = waiting]
       /\ UNCHANGED managerVars
    \/ /\ g = score[w]
       /\ pc' = [pc EXCEPT ![w] = next]
       /\ UNCHANGED <<managerVars, proposal>>

\* maybe_receive_score_from_center, maybe_receive_next_process: how many messages the probe of
\* a channel sees.  One that is on its way may be seen now or in a later round.
maybe_receive(channel) == {n \in {0, 1} : n <= Len(channel)}

\* The section that "protects MPI calls".
PollCenter(w) ==
    /\ pc[w] = "poll"
    /\ \E ns \in maybe_receive(score_updates[w]), nn \in maybe_receive(next_messages[w]) :
         ReceiveFromCenter(w, ns, nn)
    /\ update_score(w, global_score'[w], "check", "propose")
    /\ next_process' = [next_process EXCEPT ![w] =
         IF should_update(global_score'[w], score[w]) THEN @ ELSE First(next_processes'[w])]
    /\ UNCHANGED <<detectorVars, bundle, destination_rank, transmitting, queue, busy, centerVars,
                   sentVars, world, historyVars>>

\* The center has matched the MPI_Ssend: update_next_process, and m_mutex is released.
ProposalMatched(w) ==
    /\ pc[w] = "propose"
    /\ proposal[w] = Nothing
    /\ next_process' = [next_process EXCEPT ![w] = First(next_processes[w])]
    /\ pc' = [pc EXCEPT ![w] = "check"]
    /\ UNCHANGED <<detectorVars, bundle, next_processes, destination_rank, transmitting, queue,
                   busy, managerVars, global_score, centerVars, countVars, netVars, historyVars>>

\* Mutant: no second pop once the pool is done.
CheckDoneOnce(w) ==
    /\ pc[w] = "isdone"
    /\ pc' = [pc EXCEPT ![w] = IF busy[w] THEN "poll" ELSE "final"]
    /\ UNCHANGED <<detectorVars, bundle, channelVars, busy, managerVars, global_score,
                   centerVars, countVars, netVars, historyVars>>

\* is_done, and the second pop: a pool thread may have pushed between the failed pop
\* and the end of its task.
CheckDone(w) ==
    /\ pc[w] = "isdone"
    /\ IF busy[w]
       THEN /\ pc' = [pc EXCEPT ![w] = "poll"]
            /\ UNCHANGED <<detectorVars, bundle, channelVars, busy, managerVars, global_score,
                           centerVars, countVars, netVars, historyVars>>
       ELSE PopBundle(w, "final")

\* The end of task_funneling and of process_message: tell the center, and the parent if
\* nothing is owed to this rank.
Leave(w) ==
    IF queue[w] # <<>>
    THEN /\ pc' = [pc EXCEPT ![w] = "threw"]
         /\ UNCHANGED <<parent, held, world>>
    ELSE /\ pc' = [pc EXCEPT ![w] = "probe"]
         /\ release_parent_if_passive(w, Post(world, <<w, Center>>, Msg("AVAILABLE_STATE")),
                                      deficit[w])

\* Mutant: no score update after the pool is done.
FinalUpdateSkipped(w) ==
    /\ pc[w] = "final"
    /\ pc' = [pc EXCEPT ![w] = "leave"]
    /\ UNCHANGED <<detectorVars, bundle, channelVars, busy, managerVars, global_score,
                   centerVars, countVars, netVars, historyVars>>

\* "Attempt final score update before exiting".
FinalUpdate(w) ==
    /\ pc[w] = "final"
    /\ update_score(w, global_score[w], "leave", "finalpropose")
    /\ UNCHANGED <<detectorVars, bundle, channelVars, busy, global_score, centerVars, countVars,
                   world, score_updates, next_messages, historyVars>>

LeaveFunnel(w) ==
    /\ \/ pc[w] = "leave"
       \/ pc[w] = "finalpropose" /\ proposal[w] = Nothing
    /\ Leave(w)
    /\ UNCHANGED <<deficit, bundle, channelVars, busy, managerVars, global_score, centerVars,
                   countVars, score_updates, next_messages, proposal, historyVars>>

\* send_final_solution_to_center: the result, if the node manager still holds one.
SendSolution(w) ==
    /\ pc[w] = "result"
    /\ world' = Post(world, <<w, Center>>,
                     IF result[w] = Nothing
                     THEN Msg("NO_RESULT")
                     ELSE [tag |-> "HAS_RESULT", score |-> score[w], packet |-> result[w]])
    /\ pc' = [pc EXCEPT ![w] = "done"]
    /\ UNCHANGED <<detectorVars, bundle, channelVars, busy, managerVars, global_score, centerVars,
                   countVars, score_updates, next_messages, proposal, historyVars>>

-----------------------------------------------------------------------------
(* The worker's pool threads *)

\* m_mutex is free: every other critical section is one step.
MutexFree(w) == pc[w] \notin {"sending", "propose"}

\* try_open_transmission_channel and force_push, under the guard they share.
Push(w) ==
    /\ busy[w]
    /\ issued < MaxTasks
    /\ best = Default \/ issued + 1 \in ScoredTasks
    /\ MutexFree(w)
    /\ ~transmitting[w]
    /\ next_process[w] > 0
    /\ transmitting' = [transmitting EXCEPT ![w] = TRUE]
    /\ destination_rank' = [destination_rank EXCEPT ![w] = next_process[w]]
    /\ next_processes' = [next_processes EXCEPT ![w] = shift_left(@)]
    /\ IF queue[w] # <<>>
       THEN pc' = [pc EXCEPT ![w] = "threw"] /\ UNCHANGED <<queue, issued>>
       ELSE /\ queue' = [queue EXCEPT ![w] = Append(@, issued + 1)]
            /\ issued' = issued + 1
            /\ pc' = pc
    /\ UNCHANGED <<detectorVars, bundle, next_process, busy, managerVars, global_score,
                   centerVars, countVars, netVars, executed, best>>

\* node_manager::try_update_result: a task reports a result that beats the local score.
FindResult(w, s) ==
    /\ busy[w]
    /\ issued \in ScoredTasks /\ s \in Finds[w]
    /\ should_update(score[w], s)
    /\ score' = [score EXCEPT ![w] = s]
    /\ result' = [result EXCEPT ![w] = s]
    /\ best' = IF should_update(best, s) THEN s ELSE best
    /\ UNCHANGED <<detectorVars, mainVars, channelVars, busy, global_score, centerVars,
                   countVars, netVars, issued, executed>>

\* The pool has no task left: is_done becomes true.
PoolDone(w) ==
    /\ busy[w]
    /\ busy' = [busy EXCEPT ![w] = FALSE]
    /\ UNCHANGED <<detectorVars, mainVars, channelVars, managerVars, global_score,
                   centerVars, countVars, netVars, historyVars>>

-----------------------------------------------------------------------------
(* The center *)

CenterThrows ==
    /\ cpc' = "threw"
    /\ UNCHANGED <<detectorVars, mainVars, channelVars, busy, managerVars, global_score,
                   process_state, children, collecting, best_results, countVars, netVars,
                   historyVars>>

\* The seed goes to rank 1, and the center owes for it.
send_seed ==
    /\ deficit' = [deficit EXCEPT ![Center] = @ + 1]
    /\ world' = Post(world, <<Center, 1>>, TaskMsg(Seed))
    /\ issued' = 1

\* build_topology, broadcast_nodes_topology and send_seed.  Every message is sent with
\* MPI_Ssend to a rank in its probe loop while nothing else happens, so a topology
\* message is received in the step that sends it.
Start ==
    /\ cpc = "start"
    /\ children' = Topology
    /\ next_processes' = Topology
    /\ next_processes_sent' = [w \in Worker |-> IF Topology[w] = <<>> THEN 0 ELSE 1]
    /\ next_processes_received' = next_processes_sent'
    /\ process_state' = [w \in Worker |->
         CASE w = 1 -> "RUNNING"
           [] w # 1 /\ is_assigned(Topology, w) -> "ASSIGNED"
           [] OTHER -> "AVAILABLE"]
    /\ send_seed
    /\ cpc' = "loop"
    /\ UNCHANGED <<parent, held, mainVars, next_process, destination_rank, transmitting, queue,
                   busy, managerVars, global_score, collecting, best_results,
                   score_updates_sent, score_updates_received, score_updates, next_messages,
                   proposal, executed, best>>

\* Rank v is given to rank w, on the tree and the states after the handler's first part:
\* NEXT_PROCESS, add_next, ASSIGNED_STATE.  add_next throws if v has a parent.
Assign(w, v, tree, state) ==
    IF is_assigned(tree, v)
    THEN /\ cpc' = "threw"
         /\ UNCHANGED <<process_state, children, next_processes_sent, next_messages>>
    ELSE /\ next_messages' = Post(next_messages, w, v)
         /\ next_processes_sent' = [next_processes_sent EXCEPT ![w] = @ + 1]
         /\ children' = [tree EXCEPT ![w] = Append(@, v)]
         /\ process_state' = [state EXCEPT ![v] = "ASSIGNED"]
         /\ cpc' = cpc

AssignNobody(tree, state) ==
    /\ children' = tree
    /\ process_state' = state
    /\ UNCHANGED <<cpc, next_processes_sent, next_messages>>

\* Mutant: the notifying rank stays in its parent's list.
ProcessRunningUnreleased(w) ==
    /\ cpc = "loop"
    /\ Arrived(w, Center, "RUNNING_STATE")
    /\ AssignNobody(children, [process_state EXCEPT ![w] = "RUNNING"])
    /\ world' = Drop(world, <<w, Center>>)
    /\ UNCHANGED <<detectorVars, mainVars, channelVars, busy, managerVars, global_score,
                   collecting, best_results, score_updates_sent, receivedVars, score_updates,
                   proposal, historyVars>>

\* process_running; get_available() takes the lowest available rank.
ProcessRunning(w) ==
    /\ cpc = "loop"
    /\ Arrived(w, Center, "RUNNING_STATE")
    /\ LET state == [process_state EXCEPT ![w] = "RUNNING"]
           tree == release(children, w)
           available == {v \in Worker : state[v] = "AVAILABLE"}
       IN  IF tree[w] = <<>> /\ available # {}
           THEN Assign(w, Least(available), tree, state)
           ELSE AssignNobody(tree, state)
    /\ world' = Drop(world, <<w, Center>>)
    /\ UNCHANGED <<detectorVars, mainVars, channelVars, busy, managerVars, global_score,
                   collecting, best_results, score_updates_sent, receivedVars, score_updates,
                   proposal, historyVars>>

\* process_available; the scan from a random offset picks any running rank without a child.
ProcessAvailable(w) ==
    /\ cpc = "loop"
    /\ Arrived(w, Center, "AVAILABLE_STATE")
    /\ LET state == [process_state EXCEPT ![w] = "AVAILABLE"]
           tree == release(children, w)
           candidates == {v \in Worker : state[v] = "RUNNING" /\ tree[v] = <<>>}
       IN  IF candidates # {}
           THEN \E v \in candidates : Assign(v, w, tree, state)
           ELSE AssignNobody(tree, state)
    /\ world' = Drop(world, <<w, Center>>)
    /\ UNCHANGED <<detectorVars, mainVars, channelVars, busy, managerVars, global_score,
                   collecting, best_results, score_updates_sent, receivedVars, score_updates,
                   proposal, historyVars>>

should_broadcast_global(old, new) == should_update(old, new)

\* consume_score_flag completes the sender's MPI_Ssend; maybe_broadcast_global_score sends a
\* strictly better score to every worker.
ReceiveProposal(w) ==
    /\ cpc = "loop"
    /\ proposal[w] # Nothing
    /\ proposal' = [proposal EXCEPT ![w] = Nothing]
    /\ IF should_broadcast_global(global_score[Center], proposal[w])
       THEN /\ global_score' = [global_score EXCEPT ![Center] = proposal[w]]
            /\ score_updates' = PostAll(score_updates, proposal[w])
            /\ score_updates_sent' = score_updates_sent + 1
       ELSE UNCHANGED <<global_score, score_updates, score_updates_sent>>
    /\ UNCHANGED <<detectorVars, mainVars, channelVars, busy, managerVars, centerVars,
                   next_processes_sent, receivedVars, world, next_messages, historyVars>>

\* process_task_received_ack at the center; the loop ends when nothing is owed to it.
CenterReceiveAck(w) ==
    /\ cpc = "loop"
    /\ Arrived(w, Center, "TASK_RECEIVED")
    /\ IF deficit[Center] = 0
       THEN CenterThrows
       ELSE /\ deficit' = [deficit EXCEPT ![Center] = @ - 1]
            /\ cpc' = IF deficit[Center] = 1 THEN "notify" ELSE "loop"
            /\ world' = Drop(world, <<w, Center>>)
            /\ UNCHANGED <<parent, held, mainVars, channelVars, busy, managerVars, global_score,
                           process_state, children, collecting, best_results, countVars,
                           score_updates, next_messages, proposal, historyVars>>

\* notify_termination, up to the barrier.
NotifyTermination ==
    /\ cpc = "notify"
    /\ world' = PostEach(world, [c \in {Center} \X Worker |->
                  [tag |-> "TERMINATION",
                   counts |-> <<score_updates_sent, next_processes_sent[c[2]]>>]])
    /\ cpc' = "barrier"
    /\ UNCHANGED <<detectorVars, mainVars, channelVars, busy, managerVars, global_score,
                   process_state, children, collecting, best_results, countVars,
                   score_updates, next_messages, proposal, historyVars>>

\* MPI_Barrier of notify_termination and of every process_termination.
Barrier ==
    /\ cpc = "barrier"
    /\ \A w \in Worker : pc[w] = "barrier"
    /\ cpc' = "collect"
    /\ pc' = [w \in Worker |-> "result"]
    /\ UNCHANGED <<detectorVars, bundle, channelVars, busy, managerVars, global_score,
                   process_state, children, collecting, best_results, countVars, netVars,
                   historyVars>>

\* receive_solution_from, one message of the rank it is at.
ReceiveSolution ==
    /\ cpc = "collect"
    /\ world[<<collecting, Center>>] # <<>>
    /\ LET m == Head(world[<<collecting, Center>>])
           last == collecting = WorldSize - 1
           isResult == m.tag \in {"HAS_RESULT", "NO_RESULT"}
           isState == m.tag \in {"RUNNING_STATE", "AVAILABLE_STATE"}
       IN  /\ best_results' = IF m.tag # "HAS_RESULT" THEN best_results
                              ELSE [best_results EXCEPT ![collecting] =
                                      [score |-> m.score, packet |-> m.packet]]
           /\ collecting' = IF isResult /\ ~last THEN collecting + 1 ELSE collecting
           /\ cpc' = CASE isResult /\ last -> "done"
                       [] (isResult /\ ~last) \/ isState -> cpc
                       [] OTHER -> "threw"
    /\ world' = Drop(world, <<collecting, Center>>)
    /\ UNCHANGED <<detectorVars, mainVars, channelVars, busy, managerVars, global_score,
                   process_state, children, countVars, score_updates, next_messages,
                   proposal, historyVars>>

\* fetch_solution: the packet of the first rank whose result has the global score.
fetch_solution ==
    LET hits == {w \in Worker : best_results[w].score = global_score[Center]}
    IN  IF hits = {} THEN Nothing ELSE best_results[Least(hits)].packet

-----------------------------------------------------------------------------

\* result::EMPTY, which fills m_best_results.
EmptyResult == [score |-> -1, packet |-> Nothing]

Init ==
    /\ deficit = [r \in Rank |-> 0]
    /\ parent = [r \in Rank |-> None]
    /\ held = [w \in Worker |-> 0]
    /\ pc = [w \in Worker |-> "probe"]
    /\ bundle = [w \in Worker |-> 0]
    /\ next_processes = [w \in Worker |-> <<>>]
    /\ next_process = [w \in Worker |-> None]
    /\ destination_rank = [w \in Worker |-> None]
    /\ transmitting = [w \in Worker |-> FALSE]
    /\ queue = [w \in Worker |-> <<>>]
    /\ busy = [w \in Worker |-> FALSE]
    /\ score = [w \in Worker |-> Default]
    /\ result = [w \in Worker |-> Nothing]
    /\ global_score = [r \in Rank |-> Default]
    /\ cpc = "start"
    /\ process_state = [w \in Worker |-> "AVAILABLE"]
    /\ children = [w \in Worker |-> <<>>]
    /\ collecting = 1
    /\ best_results = [w \in Worker |-> EmptyResult]
    /\ score_updates_sent = 0
    /\ next_processes_sent = [w \in Worker |-> 0]
    /\ score_updates_received = [w \in Worker |-> 0]
    /\ next_processes_received = [w \in Worker |-> 0]
    /\ world = [p \in Rank \X Rank |-> <<>>]
    /\ score_updates = [w \in Worker |-> <<>>]
    /\ next_messages = [w \in Worker |-> <<>>]
    /\ proposal = [w \in Worker |-> Nothing]
    /\ issued = 0
    /\ executed = {}
    /\ best = Default

MainThread(w) ==
    \/ ReceiveNotice(w)
    \/ \E s \in Rank : ReceiveTask(w, s)
    \/ \E s \in Rank : ReceiveAck(w, s)
    \/ ReceiveTermination(w)
    \/ FirstPop(w)
    \/ SendTask(w)
    \/ TaskSent(w)
    \/ PollCenter(w)
    \/ ProposalMatched(w)
    \/ CheckQueue(w)
    \/ CheckDone(w)
    \/ FinalUpdate(w)
    \/ LeaveFunnel(w)
    \/ SendSolution(w)

CenterThread ==
    \/ Start
    \/ \E w \in Worker : ProcessRunning(w)
    \/ \E w \in Worker : ProcessAvailable(w)
    \/ \E w \in Worker : ReceiveProposal(w)
    \/ \E w \in Worker : CenterReceiveAck(w)
    \/ NotifyTermination
    \/ Barrier
    \/ ReceiveSolution

AllDone == cpc = "done" /\ \A w \in Worker : pc[w] = "done"

\* Every rank has returned from run().
Finished == AllDone /\ UNCHANGED vars

Next ==
    \/ CenterThread
    \/ \E w \in Worker : MainThread(w)
    \/ \E w \in Worker : Push(w)
    \/ \E w \in Worker, s \in Scores : FindResult(w, s)
    \/ \E w \in Worker : PoolDone(w)
    \/ Finished

Spec == Init /\ [][Next]_vars

\* MPI_Send may wait here: the packet is not matched yet.
MaySleep(w) ==
    /\ Rendezvous
    /\ pc[w] = "sending"
    /\ TaskMsg(bundle[w]) \in Range(world[<<w, destination_rank[w]>>])

\* Main threads never stop in the middle of a loop but in MPI_Send, the center handles what it
\* receives, and the tasks of the user's algorithm end.
Fairness ==
    /\ WF_vars(CenterThread)
    /\ \A w \in Worker : WF_vars(MainThread(w) /\ ~MaySleep(w))
    /\ \A w \in Worker : WF_vars(PoolDone(w))

FairSpec == Spec /\ Fairness

-----------------------------------------------------------------------------
(* Properties *)

MainPC == {"probe", "pop", "send", "sending", "poll", "propose", "check", "isdone", "final",
           "finalpropose", "leave", "barrier", "result", "done", "threw"}
CenterPC == {"start", "loop", "notify", "barrier", "collect", "done", "threw"}
WorldMsg ==
    [tag : {"RUNNING_STATE", "AVAILABLE_STATE", "NO_RESULT"}]
      \cup [tag : {"TASK", "TASK_RECEIVED"}, task : Task]
      \cup [tag : {"HAS_RESULT"}, score : Scores \cup {Default}, packet : Scores]
      \cup [tag : {"TERMINATION"}, counts : Nat \X Nat]

DetectorTypes ==
    /\ deficit \in [Rank -> Nat]
    /\ parent \in [Rank -> Rank \cup {None}]
    /\ held \in [Worker -> Task \cup {0}]
WorkerTypes ==
    /\ pc \in [Worker -> MainPC]
    /\ bundle \in [Worker -> Task \cup {0}]
    /\ transmitting \in [Worker -> BOOLEAN]
    /\ queue \in [Worker -> Seq(Task)]
    /\ busy \in [Worker -> BOOLEAN]
TargetTypes ==
    /\ next_processes \in [Worker -> Seq(Worker)]
    /\ next_process \in [Worker -> Worker \cup {None}]
    /\ destination_rank \in [Worker -> Worker \cup {None}]
ScoreTypes ==
    /\ score \in [Worker -> Scores \cup {Default}]
    /\ result \in [Worker -> Scores \cup {Nothing}]
    /\ global_score \in [Rank -> Scores \cup {Default}]
    /\ proposal \in [Worker -> Scores \cup {Nothing}]
CenterTypes ==
    /\ cpc \in CenterPC
    /\ process_state \in [Worker -> {"AVAILABLE", "ASSIGNED", "RUNNING"}]
    /\ children \in [Worker -> Seq(Worker)]
    /\ collecting \in Worker
StreamTypes ==
    /\ score_updates_sent \in Nat /\ score_updates_received \in [Worker -> Nat]
    /\ next_processes_sent \in [Worker -> Nat] /\ next_processes_received \in [Worker -> Nat]
    /\ score_updates \in Net(Worker, Scores)
    /\ next_messages \in Net(Worker, Worker)
WorldTypes == world \in Net(Rank \X Rank, WorldMsg)
TaskTypes == issued \in 0 .. MaxTasks /\ executed \subseteq 1 .. issued

TypeOK == /\ DetectorTypes /\ WorkerTypes /\ TargetTypes /\ ScoreTypes /\ CenterTypes
          /\ StreamTypes /\ WorldTypes /\ TaskTypes

\* No rank throws: no unexpected acknowledgement, no termination with work in progress,
\* no message too many at the drain, no second bundle in the queue, no send to oneself,
\* no rank given to two parents, no unknown message in receive_solution.
NoThrow == cpc # "threw" /\ \A w \in Worker : pc[w] # "threw"

\* The pairs of ranks between which task t, or its acknowledgement, is on the way.
Carriers(t) ==
    {p \in Rank \X Rank : world[p] # <<>> /\ \E i \in DOMAIN world[p] :
        world[p][i].tag \in {"TASK", "TASK_RECEIVED"} /\ world[p][i].task = t}

\* Where task t is, as TerminationDetection sees it: phase, source and target.
Journey(t) ==
    LET owing == {w \in Worker : held[w] = t}
        across == Carriers(t)
        one(S) == CHOOSE x \in S : TRUE
    IN  CASE t > issued -> <<"free", None, None>>
          [] owing # {} -> <<"engaging", parent[one(owing)], one(owing)>>
          [] OTHER ->
               CASE across = {} -> <<"free", None, None>>
                 [] t \in executed -> <<"acking", one(across)[2], one(across)[1]>>
                 [] OTHER -> <<"sent", one(across)[1], one(across)[2]>>

Detection == INSTANCE TerminationDetection WITH
    Root <- Center,
    NoParent <- None,
    active <- [r \in Rank |-> IF r = Center THEN cpc = "start"
                              ELSE pc[r] \notin {"probe", "barrier", "result", "done"}],
    phase <- [t \in Task |-> Journey(t)[1]],
    source <- [t \in Task |-> Journey(t)[2]],
    target <- [t \in Task |-> Journey(t)[3]],
    terminated <- cpc \notin {"start", "loop", "notify"}

\* The ranks of this scheduler run the protocol of TerminationDetection: every step is a
\* step of it or changes nothing it can see.
ImplementsDetection == Detection!Spec

\* When the center announces termination every task that was created has been started,
\* none is left in a queue, and no pool is working.
NothingLost ==
    cpc \in {"notify", "barrier", "collect", "done"} =>
        /\ executed = 1 .. issued
        /\ \A w \in Worker : ~busy[w] /\ queue[w] = <<>> /\ bundle[w] = 0

\* The center's two records of an idle rank agree: a rank is ASSIGNED exactly when it is
\* in the list of one parent, and in that list once.
AssignmentConsistent ==
    cpc = "loop" => \A v \in Worker :
        Cardinality(Places(children, v)) = IF process_state[v] = "ASSIGNED" THEN 1 ELSE 0

\* Workers read every notification of the center before they leave: when the results are
\* collected the two center-to-worker communicators are empty, and no proposal is pending.
CenterMessagesRead ==
    cpc \in {"collect", "done"} =>
        /\ \A w \in Worker : score_updates[w] = <<>> /\ next_messages[w] = <<>>
        /\ \A w \in Worker : proposal[w] = Nothing
        /\ \A w \in Worker : /\ score_updates_received[w] = score_updates_sent
                             /\ next_processes_received[w] = next_processes_sent[w]

\* get_result returns the best result any task found, and the empty packet if none did.
BestIsReturned ==
    AllDone => fetch_solution = IF best = Default THEN Nothing ELSE best

\* Every run ends: all ranks leave run().
Termination == <>AllDone

-----------------------------------------------------------------------------
(* The inductive invariant *)

\* What a worker's main thread and its pool threads know of each other.
Idle == {"probe", "barrier", "result", "done"}
WorkerInv == \A w \in Worker :
    /\ pc[w] # "threw"
    /\ pc[w] \in Idle \cup {"final", "finalpropose", "leave"} => ~busy[w] /\ queue[w] = <<>>
    /\ pc[w] \in {"send", "sending"} => transmitting[w] /\ bundle[w] \in Task /\ queue[w] = <<>>
    /\ pc[w] \notin {"send", "sending"} => bundle[w] = 0
    /\ transmitting[w] /\ queue[w] = <<>> => pc[w] \in {"send", "sending"}
    /\ queue[w] # <<>> => transmitting[w] /\ Len(queue[w]) = 1
    /\ proposal[w] # Nothing => pc[w] \in {"propose", "finalpropose"}

\* A worker is never told to send a task to itself, and has a destination while it sends.
TargetInv == \A w \in Worker :
    /\ next_processes[w] \in Seq(Worker \ {w})
    /\ next_messages[w] \in Seq(Worker \ {w})
    /\ next_process[w] # w /\ destination_rank[w] # w
    /\ transmitting[w] => destination_rank[w] # None

\* What is owed to rank r: its tasks that are on their way, deferred or being acknowledged.
Owed(net, par, r) == Count(net, {r} \X Rank, "TASK") + Cardinality({w \in Worker : par[w] = r})
                       + Count(net, Rank \X {r}, "TASK_RECEIVED")

\* No ranks wait for each other in a circle.
Engaged(par) == {w \in Worker : par[w] # None}
Acyclic(par) == \A S \in SUBSET Engaged(par) : S # {} => \E w \in S : par[w] \notin S

\* Every deficit is what is owed, and a rank that works, or that waits for an
\* acknowledgement, has a parent.
DetectorInv ==
    /\ parent[Center] = None
    /\ \A r \in Rank : deficit[r] = Owed(world, parent, r)
    /\ \A w \in Worker : /\ parent[w] = None => deficit[w] = 0 /\ pc[w] \in Idle
                         /\ parent[w] # None => held[w] \in Task
    /\ Acyclic(parent)

\* What a phase of the center says about the workers, and where messages may go.
Over == {"notify", "barrier", "collect", "done"}
Announced == {"barrier", "collect", "done"}
PhaseInv ==
    /\ cpc # "threw"
    /\ cpc = "start" => issued = 0 /\ \A w \in Worker : next_messages[w] = <<>>
    /\ cpc \in Over \cup {"start"} => deficit[Center] = 0
    /\ \A w \in Worker :
         /\ pc[w] \in {"barrier", "result", "done"} => cpc \in Announced
         /\ cpc \in {"collect", "done"} => pc[w] \in {"result", "done"}
RouteInv == \A s, d \in Rank : \A m \in Messages(world, <<s, d>>) :
    /\ m.tag = "TASK" => d # Center
    /\ m.tag = "TERMINATION" =>
         /\ s = Center /\ d # Center /\ cpc \in Announced
         /\ m.counts = <<score_updates_sent, next_processes_sent[d]>>

\* Nothing the center sends to a worker is lost, and one that left its loop has read it all.
StreamInv == \A w \in Worker :
    /\ score_updates_sent = score_updates_received[w] + Len(score_updates[w])
    /\ next_processes_sent[w] = next_processes_received[w] + Len(next_messages[w])
    /\ pc[w] \in {"barrier", "result", "done"} =>
         score_updates[w] = <<>> /\ next_messages[w] = <<>>

\* Every task that was created is somewhere, and only those are.
Crosses(t) == \E s, d \in Rank : TaskMsg(t) \in Messages(world, <<s, d>>)
KeptBy(t, w) == (queue[w] # <<>> /\ Head(queue[w]) = t) \/ (pc[w] = "send" /\ bundle[w] = t)
TaskInv ==
    /\ \A t \in 1 .. issued : t \in executed \/ Crosses(t) \/ \E w \in Worker : KeptBy(t, w)
    /\ \A t \in Task : Crosses(t) \/ (\E w \in Worker : KeptBy(t, w)) => t <= issued

\* No rank is in two places of the tree, and those in the tree are ASSIGNED.
Distinct(tree) ==
    \A p, q \in Worker : \A i \in DOMAIN tree[p], j \in DOMAIN tree[q] :
        tree[p][i] = tree[q][j] => p = q /\ i = j
TreeInv ==
    /\ Distinct(children)
    /\ \A v \in Worker : process_state[v] = "ASSIGNED" <=> is_assigned(children, v)

\* No score is worse than the default one.
Found(s) == s = Default \/ should_update(Default, s)
ScoreInv ==
    /\ \A r \in Rank : Found(global_score[r])
    /\ \A w \in Worker : Found(score[w])
    /\ \A w \in Worker : proposal[w] # Nothing => Found(proposal[w])
    /\ \A w \in Worker : \A s \in Messages(score_updates, w) : Found(s)

SafetyInv == /\ TypeOK /\ WorkerInv /\ TargetInv /\ DetectorInv /\ PhaseInv /\ RouteInv /\ StreamInv
             /\ TaskInv /\ TreeInv /\ ScoreInv

\* No score is better than the best one found, and none the center has sent is better than
\* its own.
NoBetter(s, t) == ~should_update(t, s)
BoundInv ==
    /\ best \in Scores \cup {Default} /\ NoBetter(global_score[Center], best)
    /\ \A w \in Worker :
         /\ NoBetter(score[w], best)
         /\ proposal[w] # Nothing => NoBetter(proposal[w], best)
         /\ NoBetter(global_score[w], global_score[Center])
         /\ \A s \in Messages(score_updates, w) : NoBetter(s, global_score[Center])

\* A result has the worker's score, and some worker keeps the best result.
HolderInv ==
    /\ \A w \in Worker : result[w] # Nothing =>
         result[w] = score[w] /\ should_update(Default, score[w])
    /\ best # Default => \E w \in Worker : score[w] = best /\ result[w] = best

\* A worker that has made its last score update has nothing better than the center, or its
\* proposal waits.
Settled == Idle \cup {"leave", "finalpropose"}
SettledInv == \A w \in Worker : pc[w] \in Settled =>
    \/ NoBetter(score[w], global_score[Center])
    \/ pc[w] = "finalpropose" /\ proposal[w] = score[w]

\* What a worker that is done has sent is its result, and so is what was collected from it.
Kept(w) == [score |-> score[w], packet |-> result[w]]
SolutionInv ==
    /\ best_results \in [Worker -> [score : Int, packet : Scores \cup {Nothing}]]
    /\ \A w \in Worker :
         /\ \A m \in Messages(world, <<w, Center>>) :
              /\ m.tag = "NO_RESULT" => pc[w] = "done" /\ result[w] = Nothing
              /\ m.tag = "HAS_RESULT" =>
                   /\ pc[w] = "done" /\ result[w] # Nothing
                   /\ m.score = score[w] /\ m.packet = result[w]
         /\ best_results[w] # EmptyResult =>
              pc[w] = "done" /\ result[w] # Nothing /\ best_results[w] = Kept(w)
         /\ w < collecting \/ cpc = "done" =>
              pc[w] = "done" /\ (result[w] # Nothing => best_results[w] = Kept(w))

BestInv == BoundInv /\ HolderInv /\ SettledInv /\ SolutionInv

\* The ranks of a run always fit each other: what is owed, on its way, read and assigned, and
\* where the best result is (mpi_semi_centralized_scheduler.hpp).
IInv == SafetyInv /\ BestInv
=============================================================================
