# TLA+ models of GemPBA

GemPBA parallelises branching algorithms over threads and MPI ranks. This
directory holds TLA+ models of the code that makes the distributed part correct, of
the load balancers inside a process, of telemetry and of the Java binding, TLC
configurations that check them on small instances, and TLAPS proofs about the termination
detector, both schedulers, telemetry, the load balancers and the Java binding, for every number
of ranks, tasks, clients, threads and nodes.

Paths below are relative to the repository root; `map` in `PROJECT.json` gives the
lines behind every definition.

## 1. The system

| Part | State | Operations |
| --- | --- | --- |
| Termination detector (`private/impl/schedulers/termination_detector.hpp`) | deficit, parent, root flag of one rank | `on_task_sent`, `on_task_received`, `on_ack_received`, `on_passive`, `is_quiescent` |
| Semi-centralized scheduler (`mpi_semi_centralized_scheduler.hpp/.cpp`) | worker: list of ranks to send to and a cached head of it, destination, transmitting flag, bundle queue, global score, counters of messages read. Center: state of every rank, process tree, global score, counters of messages sent, results | worker: probe loop, one handler per message, `task_funneling`, `update_score`, `force_push`, final solution. Center: `send_seed`, handlers of RUNNING, AVAILABLE, SCORE_PROPOSAL, TASK_RECEIVED, termination, collection of results |
| Centralized scheduler (`mpi_centralized_scheduler.hpp/.cpp`, `centralized_utils.hpp`) | as above, with a priority queue of tasks and a fullness status at the center instead of lists of ranks | as above, with TASK_FOR_CENTER, dispatching, fullness notices |
| `node_manager` | goal, score, result, load balancer | `try_update_result`, `try_update_score_and_invalidate_result`, submissions |
| Load balancers (quasi-horizontal, work stealing) | a thread pool, one root per thread, the tree of nodes | `try_local_submit`, `try_remote_submit`, `forward`, `send`, root correction |
| Nodes | state, parent, children, result | `run`, `delegate_locally`, `delegate_remotely`, `prune` |
| Process tree and topology (`tree.hpp/.cpp`, `utils.hpp`) | linked lists of the children of each rank | `add_next`, `pop_front`, `release`, `build_topology`, `shift_left` |
| Score, result, packet | values | comparison, conversion |
| Queue, task bundle, transmission guard | mutex, deque | `push`, `pop`, `empty` |
| Telemetry (`src/telemetry/`, `private/impl/telemetry/`) | per rank: paused, interval, snapshot due and answered, sequence number. Rank 0: latest frame of every rank, pending controls, snapshot requested, clients with their outboxes | `tick_if_due`, `apply_control_from_client`, `publish_worker`, `poll`, `send_control`, the broadcast and accept threads, `shutdown` |
| C ABI and Java binding (`src/cabi/`, `bindings/`) | per node: a Java object, a C wrapper, a `node_core`, `java_user_data` with a global reference. A Java result beside `m_score`. Serial runnables | factories, submissions, `getResult`, `close` and the Cleaner, callbacks, `tryUpdateResult`, `Worker.run` |
| Statistics | counters | addition, visiting |

**Interaction.** The user's function runs on pool threads of a worker. It reports
results to the `node_manager` and offers nodes to the load balancer, which gives
them to the pool or, when `try_open_transmission_channel` yields a guard, to
`force_push`. The worker's main thread sits in `task_funneling` while its pool has
tasks: it sends the queued bundle, polls the channels from the center, exchanges
scores. When the pool is done it reports AVAILABLE_STATE, acknowledges its parent
if it may, and returns to the probe loop. The center runs one loop over what it
receives and stops when its deficit is zero. Telemetry runs in `tick_if_due`, called
from those loops (or from a timer thread without MPI), and in two threads of rank 0.
Java code enters through the JNI layer and the C ABI, and is called back by pool threads.

**What is hard.**

* Two threads of a worker share the queue, the destination and the list of ranks;
  the mutex is held over parts of the loop only.
* Four communicators: tasks, acknowledgements and states; score proposals; score
  updates; next-process or fullness messages. MPI keeps the order within one pair
  of ranks on one communicator, and nothing else.
* `MPI_Ssend` waits for the receiver; `MPI_Send` of a packet may.
* A rank's acknowledgement of its first task is deferred until its own tasks are
  acknowledged, so the end of the computation is a cascade of messages.
* The garbage collector deletes wrappers at any time, and native objects own Java
  objects that own them.
* A telemetry line is built from frames that another thread keeps replacing, and waits for
  ranks and clients that may never answer.
* Termination is announced once, on one communicator, while others may hold
  messages the worker has to read.

**Correctness.** The announced termination is real and is always announced; no
task is lost; no `throw` is reachable; the best result is the one returned; the
center's records of the ranks are consistent; a full center stops the workers and
lets them go on. A branch is run once and none is dropped. A dashboard's commands reach
every rank in order, its snapshots are complete, and telemetry never holds up the end of a
run. Native code never uses a deleted object, nothing leaks, and Java is told the best
score and the result that belongs to it.

There is no crash recovery in this code: errors throw and end the run, and MPI
delivers every message once. The models have neither loss nor restarts.

## 2. Modules

| Module | Models |
| --- | --- |
| `TerminationDetection` | the detector and its callers, for any ranks and any delivery order; the abstract specification of both schedulers |
| `TerminationDetectionProofs` | proofs of its invariants |
| `Channels` | networks of channels that keep their order: sending, receiving, counting messages |
| `ChannelTheorems` | what sending and receiving do to the messages, the counts and the order of a network |
| `SemiCentralized` | the semi-centralized scheduler, worker and center, for any initial tree |
| `InitialTopology` | `build_topology`, the initial tree the center builds |
| `SemiCentralizedProofs` | proofs of the scheduler's invariants |
| `Centralized` | the centralized scheduler, worker and center |
| `CentralizedProofs` | proofs of its invariants |
| `SchedulerClock` | `scheduler_clock`: to which times of a rank the time between two events is added |
| `CentralizedClock` | `Centralized` with the clock of every rank, driven by what the scheduler records |
| `CentralizedClockProofs` | proof that recording changes nothing, and that the clocks agree with the scheduler |
| `LoadBalancer` | both load balancers of a process, with the tree of nodes |
| `LoadBalancerProofs` | proofs of its invariants |
| `Telemetry` | the hubs of all ranks, both transports, the server of rank 0 and its clients |
| `TelemetryProofs` | proofs of its invariants |
| `Score` | a score as a tag and a bit pattern, its order, its conversions and its default |
| `Bindings` | nodes, results and serial runnables across Java, JNI, C ABI and core; EXTENDS `Score` |
| `BindingsProofs` | proofs of its invariants |
| `MC...` | constants for TLC |

Both schedulers INSTANCE `TerminationDetection` under a refinement mapping and have
`ImplementsDetection` as a property: deficits and parents are mapped to
themselves, a rank is active while it is outside its probe loop, and the messages
in flight give the phase of a task. So the Dijkstra-Scholten argument is made once,
proved for all sizes, and the schedulers are shown to follow it on small sizes. What
matters of it is also proved of both schedulers directly (section 4).

### TerminationDetection

A task goes through the phases free, sent, engaging (received, acknowledgement
deferred), acking. `ReceiveTask`, `ReceiveAck` and `BecomePassive` are the calls the
schedulers make to `on_task_received`, `on_ack_received` and `on_passive`.
The semi-centralized root gives the seed away and is passive; the centralized root
queues tasks and hands them out again. Both are `SendTask` and `ReceiveTask` of the
root, which always acknowledges on receipt.
Identifiers of tasks are reused, so the number of tasks in a run is not bounded,
only the number outstanding at once.

### SemiCentralized

`pc[w]` is the main thread of worker `w`:

| pc | Place in the code |
| --- | --- |
| probe | the probe loop of `run` |
| pop, send, sending | `task_funneling`: the first pop, before `send_task`, inside its `MPI_Send` |
| poll, propose | the locked section with `probe_score_comm`, `probe_next_process_comm`, `update_score`; waiting in `MPI_Ssend` |
| check, isdone | the pop after it; `is_done()` and the second pop |
| final, finalpropose, leave | the last `update_score`; its `MPI_Ssend`; the tail of `process_message` |
| barrier, result, done, threw | `process_termination`; `send_final_solution_to_center`; returned; an exception left `run` |

The pool is `busy[w]`: `Push` is `try_open_transmission_channel` with `force_push`
under the guard they share, `FindResult` is `try_update_result`, `PoolDone` makes
`is_done()` true. They interleave with every step of the main thread, except that
`Push` needs the mutex.
`cpc` is the center: start, loop, notify, barrier, collect, done.

Decisions:

* TASK and RUNNABLE_ID, and the two messages of a result, are one message: both ends
  treat the pair without anything in between.
* `update_score` reads the local score and acts on it later. It is one step of the
  model because a result found in between leaves the state that it leaves when it is
  found afterwards (the update inside `node_manager` compares again under its lock).
* `m_process_tree` is the list of children of each rank, which is what the iterator
  of the linked list yields.
* The scan of `process_available` starts at a random rank: any candidate is chosen.
* `held[w]` and the number in a TASK_RECEIVED message are history variables, used to
  state the refinement; the code acknowledges without naming a task.
* The initial tree is the constant `Topology`. `TopologyAssumption` asks that no rank is in
  it twice, that none is its own child and that rank 1, which gets the seed, is nobody's.
  The runs use the tree of `InitialTopology`, which the center builds when the user gives
  none; TLC checks in `TreeAssumption` that `build_topology` yields such a tree, that every
  other rank is in it and that a child's number is above its parent's, for up to
  `LargestWorld` = 40 ranks.
* NEXT_PROCESS messages overwrite the first cell of the array only. The array is modelled
  without its tail of -1.
* `MPI_Send` of a packet may wait until the receiver matches it, or return at once: `TaskSent`
  is always possible, and `Rendezvous` decides whether it has to happen while the packet is
  unmatched (`MaySleep`, in `Fairness`). So safety covers both behaviours, whatever
  `Rendezvous` is, and `Termination` with `Rendezvous = TRUE` asks whether the run ends
  although every packet may wait.

### Centralized

The same worker without lists of ranks; `is_center_full` closes the channel instead.
Sends may wait as above, those of the center too (`CenterMaySleep`).
The center alternates between a message and `Dispatch`, `DispatchSent` (the loop of
`dispatch_to_available`, one task per step because each send may wait) and
`Monitor`. `MonitorIdle` is the same work when no message is there.
`center_queue` is a set: `priority` decides which task goes first, and any may.
Memory use is one of three levels, as the two tests against `MAX_MEMORY_MB` tell
apart; the clock that limits repeated notices is a free choice.

The queue test in the exit condition (`mpi_centralized_scheduler.hpp:600`) is never
decisive. When the center's deficit is zero nothing it sent is unacknowledged, every
AVAILABLE_STATE has been handled (it precedes the acknowledgement on the same
channel), and the dispatch that follows each message has emptied the queue.

`CentralizedClock` conjoins to each action what it records at the telemetry hub of its
rank. A clock keeps the facts that choose the totals (`in_run`, the phase of a worker, the
available ranks, whether the queue is empty, whether the workers were told it is full) and
the set of assignments whose latency is open; durations are left out. A handler and what it
records are one step, because only the thread that records reads the clock.

### LoadBalancer

`stack[t]` holds the nested calls of the user's function on pool thread `t`, and
`tree` the links of all nodes: `parent`, `children`, whether `m_root` is set, and the
cell of `m_roots` that it points to. The node of a call has the call's number; a call
that the pool runs has no node and creates a dummy, numbered `-i`, for its branches
(as `tests/integration/leaf_count.hpp` does). `SendRemotely`, `ChannelClosed`,
`SendLocally`, `PoolFull` and `forward` are the outcomes of `try_remote_submit`,
`try_local_submit` and `forward`; `Return` is what `run` and `forward` do after the
nested call. The user's function chooses freely among the three for every branch.

Decisions:

* Every link of a node is touched by the thread that created the node and by no other.
  So what a thread does to its tree is one step. A round of `send` is one step, and the
  rounds of one `send` are separate steps, because the mutex is released in between.
* `m_recursive_mutex` is only tried, never waited for, in `send`. It may be taken when
  another thread is running; the send then fails as it does for a full pool.
* `try_correct_root` walks down a line of only children. The model takes the line as a
  whole: its end becomes the root, all above are pruned. `Descent` is the line, a recursive
  function.
* `BranchesAssumption`: every call but the seed is made by one call, at one place. A number
  stands for one call of the user's function in one run, not for its arguments.
* Two ways to create nodes: all branches of a call before the first is submitted
  (eager), or each before its own submission (late). In the late style the dummy of a
  call can be pruned while the call still adds children to it, and the thread's root
  may be a node that is gone. TLC shows that nothing is dropped then.
* The user's function only forwards a node that is already consumed. `send` throws for
  such a node, which the unit tests require (`try_local_submit` on a consumed child,
  `quasi_horizontal_load_balancer_test.cpp:958`). A caller that
  submits more than its first branch has to ask `is_consumed()` or use `forward`, because
  the others may have been given away from inside the first.
* The initializer of a lazy node is asked once; a call in `Lazy` may turn out not
  worthy then (`m_should_branch_cached`).

### Telemetry

`hub[r].at` is the place of rank `r`'s thread: loop, tick (some control of this tick was
read), fanout, regular and final (the two drains of `poll`), and in shutdown check, stop,
join, flush, reset, down. `server.at` is the broadcast thread: drain, push, build, flush,
ended. `try_recv_control`, `Emit`, `NotDue`, `Fanout`, `ReceiveFrame`, `ReceiveSlot` and
`ProbeFailed` make up `tick_if_due`; `ClientControl`, `Push`, `ClientSnapshot` and
`ClientSnapshotTooSoon` are `apply_control_from_client`; `StartLine`, `ReadFrame` and
`Deliver` are a round of the broadcast thread; `Shutdown` to `Reset` are `shutdown`, with
`aggregator_tcp_server::stop` and the destructor of the transport.

Decisions:

* There is no clock. An interval may pass between any two ticks; the waits for a snapshot,
  for final frames and for the last flush each have a flag that one step sets.
* A frame is its sequence number, the snapshot it answers and whether it is final. A line
  is a number and the frames in it, sent in `LineParts` parts; `got` and `torn` record what
  reached a client.
* `server.left` is the set of ranks whose frame the line still lacks; `ReadFrame` takes them
  in the order of the topology, which is `Precedes`: by host, hosts by their lowest rank.
* `Line` is the set of lines a client may send; `parse_control_line` yields a command or
  "UNSPECIFIED", which `ClientControl` ignores.
* Messages on one tag from one rank arrive in order; tags are independent, and a probe may
  miss what has been sent.
* `Bounds` is a set of bounds, one of which holds in a behaviour: commands while the other
  rank may leave, a run that ends with a command on its way, and a client that reads
  slowly. Their product would be too large; each question needs one of them.

### Bindings and Score

`node[n]` records what exists of node `n`: whether a Java variable holds it, wrapper, core,
`java_user_data`, global reference, `m_state`, links, the native call that uses it and the
pool's task. `Owned` and `Surviving` are the `shared_ptr` owners, and `Settled` destroys
what nobody owns after a step. `Collect` is the collector with the Cleaner, at any time that
`Reachable` does not hold. Calls go through called (Java has read the handle),
the place in the balancer, running and returned (the callback), leaving.

Three scenarios: `mt`, the life of a lazy and an explicit node below a dummy with threads
only; `mp`, a worker process, where a serial runnable's task creates the nodes, remote
submission exists and the runnable may be closed while its task runs; `results`, two tasks
that offer results for every goal, type and form.

Decisions:

* A Java variable may be dead from its last use on, while the call still runs: `Uses` makes
  that choice, and `Fenced` is the `reachabilityFence` of the three submissions. `getResult`
  and the factories have none.
* A factory with a parent is two steps: `ReadParent` reads `parent.state.handle` in Java, and
  `CreateExplicit`, `CreateSerializable` or `CreateLazy` uses the parent's wrapper in native
  code; the parent's variable may be dropped and the collector may run in between, as they may
  while a serializer of the user runs. Serializers themselves are taken to use no nodes.
* Native code that is about to read a deleted wrapper is `Dangling`. What it would do is
  undefined; the model lets that thread stop there.
* One Java `NodeManager` is assumed. `getNodeManager()` would make a second one, with its own
  lock and its own result over the same native manager.
* `tryUpdateResult` of an object is split at the synchronized block, the native update and
  the store. The update of bytes is one step, as it is one critical section of
  `node_manager`.
* `Score` uses small widths: 4-byte types have `Half` patterns, 8-byte types `Full`. The
  sign, NaN, which bits are copied and which value is the default are kept.
* The balancer is the work-stealing one.

## 3. Runs

| Run | Instance | States | Shows |
| --- | --- | --- | --- |
| detection | 4 ranks, 3 outstanding tasks | exhaustive | the inductive invariant, safe termination, stability, detection |
| semi | 3 workers, 3 tasks, 2 scores, packets buffered | 129 000 | the inductive invariant, nothing thrown, nothing lost, center's records agree, everything read, best result returned, refinement, every run ends |
| central_tasks | 2 workers, 3 tasks, 2 notices caused by memory, waiting sends, with clocks | 147 000 | the inductive invariant of scheduler and clocks, nothing thrown, nothing lost, tasks go to idle ranks and do not wait beside one, refinement, every run ends |
| central_fullness | 1 worker, limit of 2 tasks, 6 tasks, 1 score, waiting sends, with clocks | 529 000 | worker and center agree on fullness, the worker is told to go on, the times a rank reports are those of what it does, every run ends |
| load_balancer | 2 threads, 9 calls on 4 levels, both policies and styles | 1 190 000 | no call twice or dropped, links agree, nothing thrown, the pool becomes idle |
| telemetry | 2 ranks or 1, 1 client, 2 commands, 4 lines | 617 000 | the inductive invariant, ranks agree on controls, snapshots are complete and answered, outboxes keep whole lines and the newest, shutdown ends |
| bindings | 3 nodes, up to 2 calls on each, 2 received tasks, 1 offer per task | 286 000 | the inductive invariant, no use of a deleted object, nothing leaks, result and score agree |
| semi_send_deadlock | 2 workers, 6 tasks, waiting sends | until violated | finding 2 |
| central_lost_best | 2 workers, 2 tasks, 1 score | until violated | finding 1 |
| lb_order | 2 threads, 5 calls on 4 levels | until violated | finding 3 |
| telemetry_final | 2 ranks, one frame and a final one | until violated | finding 4 |
| bindings_last_use | 2 nodes, one the parent of the other | until violated | finding 5 |

**Bounds.** `MaxTasks` bounds the tasks of a run. Three are the seed, a task it
splits off, and one that reaches a rank still waiting for an acknowledgement, the
case in which `on_task_received` acknowledges at once. `WorldSize` 4 is the least
where `build_topology` gives a rank two children. In `semi` results are found only while one
or two tasks have been created (`ScoredTasks`), and no third is created then. Rank 1 finds the
lower score only (`Finds`), the others both: two workers may find
results, propose them in either order and read each other's late. Two workers that wait in
`MPI_Send` for each other need a second push of both, so `semi_send_deadlock` has six tasks,
and no results. With packets that MPI buffers, `Termination` holds on that instance too
(463 000 states). In the centralized scheduler workers send to the center only, and the center
to idle workers, so three tasks on two workers reach every pair of sends that may wait.
`TasksPerProcess` is 1 instead of
1000, so that the queue passes its limit, twice its limit, and falls below 0.8 of it.
`MaxNotices` bounds the notices caused by memory use; after that memory use is low.
In `load_balancer` the seed has three branches, so that one more remains after the
second was given away, and the first has two levels below it, so that the root is
lowered by one and by more than one node.
In `telemetry` the outbox holds one line and a line takes two sends, so that lines are
dropped behind a half-written one; two commands let a second snapshot, or a RESUME, meet
the first on its way. In `bindings` two calls on the middle node let a consumed node be
submitted again, and offers include negative numbers, one beyond 4 bytes, numbers below the
default and NaN.
Two scores are needed for a proposal that is overtaken by a better one. All runs
check deadlock except `detection`, where a computation that has ended has no step
left, and `semi_send_deadlock`. A scheduler that is done has a `Finished` step.

**Fairness.** `WF(CenterThread)` and `WF(MainThread(w))`: the loops of both threads
probe without blocking and handle what they find. With `Rendezvous = TRUE` a thread owes
nothing while it is in `MPI_Send` with an unmatched packet (`~MaySleep(w)`). `WF(PoolDone(w))`: the tasks of the
user's algorithm end. Nothing is assumed of the pool's pushes or results. A weakly
fair thread may choose among its channels; the bounded number of messages makes that
choice harmless, and the probe loops alternate between communicators. In
`LoadBalancer` every pool thread is weakly fair: it takes tasks while there are any, and
the user's function, whose tree of calls is finite, goes on. In `Telemetry` every thread
of rank 0 and every clock goes on; nothing makes a rank shut down or a client read. The
conjuncts of `FairSpec` have the form `[]<>~(enabled at a place)`: a thread that can leave
a place is the only one that does, so this is weak fairness of that step with `ENABLED`
written out, which TLC evaluates much faster. In `Bindings` only `Reclaim` is fair: the pool
destroys tasks that have run and the collector comes round. In
`TerminationDetection` only the handling of acknowledgements and the root's test are
fair, since a computation need not end.

**Mutants.** For every property of a passing run `PROJECT.json` names a change of one
definition, such as a dropped second pop or a release that ignores the deficit, under
which TLC finds the property violated.

### Findings

1. `central_lost_best`: the centralized `task_funneling` has no `update_score` after its
   loop. A result reported after the last one is sent to the center at the end, but the
   global score is not raised, and `get_result` returns the empty packet. The
   semi-centralized scheduler has the call.
2. `semi_send_deadlock`: `m_next_process` is a cached head of `m_next_processes`. A second push
   before it is refreshed goes to the rank just used. That rank may by then run the first task,
   have been given this rank as its next process, and do the same: two pushes cross, and if
   MPI does not buffer the packets both main threads stay in `MPI_Send` for ever. The
   release notes of v4.3.0 say that a run ends as soon as its work is done.
3. `lb_order`: when the root's call has a single branch that branches further,
   `get_root_level_pending_node` finds fewer than two children
   (`quasi_horizontal_load_balancer.hpp:330`, "Not really sure how we can get here") and
   returns nothing, so that a node of the current, deeper call is given away although one
   nearer to the root waits: with the calls 1 -> 2 -> 3, 4 and 3 -> 5 node 5 goes and 4
   waits. The repository's README says that work near the root is selected. In the tree of
   the run `load_balancer` the only call with a single branch is followed by a leaf, and there
   the property `NearestToRoot` would hold; nothing is dropped or run twice in either.
4. `telemetry_final`: a regular frame that arrives between the two drains of `poll`, with the
   final one behind it, is handed over after the final one, which the comment at
   `mpi_transport.cpp:178` excludes. Rank 0 then keeps the older frame of that rank.
5. `bindings_last_use`: `Node.getResult` (`Node.java:160`) and the factories, which read the
   parent's handle, have no `reachabilityFence`. When such a call is the last use of the node,
   as it is in the example in the documentation of `getResult`, the Cleaner may delete the
   wrapper before native code reads it. A parent that is the context of the running callback is
   safe, since the callback's global reference keeps it.

### Seen while modelling, without a run

* The second push of finding 2 also shifts a child out of `m_next_processes` that was never
  used (`mpi_semi_centralized_scheduler.hpp:256`). The center keeps that child ASSIGNED to the
  rank and gives it to nobody else, so it idles, although "each node has an array containing its
  children were it is going to send tasks" (line 763). No task is lost: `NothingLost` holds.
* `result::EMPTY` has score -1 (`result.hpp:35`). With -1 as best score `fetch_solution`
  (`mpi_semi_centralized_scheduler.hpp:82`, and the same loop in the centralized scheduler) stops
  at the first rank without a result and returns its empty packet: `BestIsReturned` is violated
  with `Scores = {-1}` and a default below it.
* `Node.close` says that it releases the global reference (`Node.java:199`). The core of a
  child that was never submitted stays alive through its parent's list of children, and
  with it `java_user_data` and the reference, until the parent goes.
* A node that is sent to another process has no callback here, so its reference stays until
  its core goes. A forwarded task that throws is not pruned.
* `SerialRunnable.close` does not clear the handle (`SerialRunnable.java:73`): closing twice
  deletes twice. `gempba_scheduler_destroy` deletes an object that the library's global
  pointer also owns. `gempba::shutdown` destroys the scheduler before the balancer.
* `NewGlobalRef` may fail in `SerialRunnable.create`: Java then has handle 0, which
  `gempba_scheduler_worker_run` dereferences.
* A NULL result of the lazy-args callback and an error of it are both "not worthy"
  (`internals.hpp:189`), while `gempba.h` says that errors are propagated.
* A buffer that cannot be allocated is returned as `{NULL, 0}` with `GEMPBA_OK`.
* The telemetry server is started before `m_topology` is assigned
  (`telemetry_hub.cpp:124`).

## 4. Proofs

`TerminationDetectionProofs` proves, for every set `Rank` with `Root \in Rank`, every
`NoParent \notin Rank` and every set `Task`:

* `Invariant`: `Spec => []IInv`
* `Safety`: `Spec => []SafeTermination`
* `NoUnexpectedAck`: `Spec => []AckIsExpected`
* `WorkersAreHeld`: `Spec => []ActiveIsEngaged`
* `Stability`: `Spec => StaysTerminated`

`SafeTermination` is not inductive: that the root's deficit is zero says nothing about
other ranks by itself. `IInv` adds what links them:

* `DeficitCounts`: a deficit is the number of the rank's outstanding tasks;
* `TaskEnds`: an outstanding task has two different ends;
* `EngagedBy`: a rank has a parent exactly when one deferred acknowledgement exists, of
  a task of that parent, and the root has none;
* `DisengagedIsQuiet`: a worker without parent has no work and is owed nothing;
* `Acyclic`: in every non-empty set of engaged ranks some parent is outside the set;
* `TerminatedRoot`: what the root tested when it stopped.

The argument (`NobodyEngaged`, `RootKnows`): take all engaged ranks. If there are any,
`Acyclic` gives one whose parent is not engaged. The parent has an outstanding task, so
it is not a disengaged worker, so it is the root, whose deficit is then positive. With
deficit zero nobody is engaged, so every worker is quiet and no task is outstanding.
`Acyclic` is stated over sets of ranks, not paths, which needs no induction: a rank that
takes a parent was disengaged and owed nothing, so it is nobody's parent, and any set
with it and another rank has a witness among the others.

`AckIsExpected` and `ActiveIsEngaged` follow from `IInv` and are stated by theorems only.

### The centralized scheduler

`CentralizedProofs` proves, for every world size of at least two, every number of tasks,
every limit and every set of memory levels and scores named in the ASSUMEs of `Centralized`:

* `Invariance`: `Spec => []IInv`
* `TypeCorrect`, `NeverThrows` (`NoThrow`), `NoTaskLost` (`NothingLost`),
  `AvailableRanksIdle` (`AvailableIsIdle`), `NobodyWaitsForATask` (`NobodyWaits`),
  `FullnessAgreed` (`FullnessAgrees`), `AllMessagesRead` (`CenterMessagesRead`):
  `Spec => []` of the property named.

`MaxTasks` and `MaxNotices` are arbitrary, so a run of any length is covered. None of the
properties is inductive. The parts of `IInv` beside `TypeOK`:

* `WorkerInv`: at most one bundle is between the guard of a push and the end of its send.
  This makes the throw for a second bundle and the one at the end of `task_funneling`
  unreachable.
* `DetectorInv`: each deficit is a number of messages in flight and of deferred
  acknowledgements. An acknowledgement that arrives is one of them, so it is expected; a
  center with deficit zero knows that nothing is on its way.
* `PhaseInv`: what a step of the center's ending says about all workers, and the numbers
  TERMINATION carries.
* `StreamInv`: sent = read + in flight, for score updates and for notices, so that the
  drain waits for messages that exist and reads the last one.
* `TaskInv`: a created task is started, queued, in flight or kept by its worker.
* `AvailableInv`: a rank the center believes available has no state message in flight, and
  AVAILABLE_STATE is the last state message of its channel. Without the order of the
  channel an overtaken RUNNING_STATE would mark a rank that has finished.
* `FullnessInv`: the last notice is what the center remembers, or the center has just
  forgotten it in a dispatch and will announce fullness again before it waits.
* `ScoreInv`: no score is worse than the default; a first proposal is a score.

The lemmas of `ChannelTheorems` say what `Post` and `Drop` do to the messages, counts and
order of a network. The proofs of both schedulers have one lemma per action and work with
these operators unexpanded.

`CentralizedClockProofs` proves

* `RecordingIsPassive`: `ClockSpec => Spec`, so all of the above holds with clocks;
* `TimedInvariance`: `ClockSpec => []TimedInv`;
* `ClocksAgree`: `ClockSpec => []ClockAgrees`.

`TimedInv` adds to `IInv` that a worker's clock is in the phase of its main thread
(`WorkerClocks`), that the center's clock holds the number of available ranks and whether
the queue is empty (`CenterClock`), and that the open assignments are those whose rank has
yet to answer (`AssignmentInv`): a rank has at most one RUNNING_STATE in flight, and the
acknowledgement that could end the center's loop is behind it. This is why no assignment
is open when the center leaves its loop.

### The semi-centralized scheduler

`SemiCentralizedProofs` proves, for every world size of at least two, every number of tasks,
every `Topology` that satisfies `TopologyAssumption`, every set of scores, both goals and both
behaviours of `MPI_Send`:

* `Invariance`: `Spec => []IInv`
* `TypeCorrect`, `NeverThrows` (`NoThrow`), `NoTaskLost` (`NothingLost`), `AssignmentAgreed`
  (`AssignmentConsistent`), `AllMessagesRead` (`CenterMessagesRead`): `Spec => []` of the
  property named.
* `BestReturned`: `Spec => []BestIsReturned`, if no result has the score -1. With such a result
  the property is false (section 3).

Here workers send tasks to each other and the center sees none of them: it owes for the seed
only, and leaves its loop on the one acknowledgement of rank 1. So the invariant cannot
count at the center, as it does for the centralized scheduler. The parts of `IInv`:

* `DetectorInv`: the deficit of a rank is what is owed to it (`Owed`: its tasks in flight,
  the workers whose parent it is, the acknowledgements on their way to it); a worker without
  parent is owed nothing and is in its probe loop; and `Acyclic`, as in
  `TerminationDetection`. Lemma `Quiet` concludes that when the center's deficit is zero no
  worker is engaged or works and no task or acknowledgement is in flight. `StillOwed`, its
  converse, says that whatever moves in the network keeps the center in its loop; nearly
  every action of a worker uses it.
* `WorkerInv`: as for the centralized scheduler.
* `TargetInv`: no worker is ever given itself, in its array, in a message, in
  `m_next_process` or as destination, and one that transmits has a destination. This makes
  the throw of `send_task` unreachable. That the center never gives a rank to itself follows
  from the states it keeps: `process_running` marks the sender RUNNING before it looks for
  an AVAILABLE rank, and `process_available` the other way round.
* `TreeInv`: no rank is in two places of the tree, and those in it are exactly the ASSIGNED
  ones. `add_next` throws for a rank that has a parent; it is called for AVAILABLE ranks only.
* `PhaseInv`, `RouteInv`, `StreamInv`, `TaskInv`, `ScoreInv`: what the center's phase says
  about the workers, where tasks and TERMINATION may be and what numbers it carries, sent =
  read + in flight for both streams, where a created task is, and that no score is worse
  than the default.

These are `SafetyInv`. The rest of `IInv`, `BestInv`, follows the best result, and is why
`update_score` may discard a result as soon as it hears of a better score:

* `BoundInv`: no score of a rank, in a message or in a proposal is better than the best one
  found, and none that workers have or are sent is better than the center's.
* `HolderInv`: a result has its worker's score, and some worker holds the best result. It never
  discards it, since no global score it compares with can be better.
* `SettledInv`: a worker after its last `update_score` has nothing better than the center, or
  waits with its score proposed. So when all are done the center's score is the best one.
* `SolutionInv`: the message `send_final_solution_to_center` sends, and what `receive_solution`
  keeps of it, is the worker's result; the ranks below `collecting` have been collected.

`fetch_solution` then looks for a rank with the center's score, and whichever it finds has the
best result: for this a result of the score -1 must be excluded, as `result::EMPTY` has it.
`Nothing`, the empty packet, is none of the scores (`NothingAssumption`).

`build_topology` itself recurses over the depth, so what it computes is examined by TLC
(`TreeAssumption`) and not proved. Finding 2 contradicts none of the
theorems: a child that the array loses idles, but no task is lost; and that a run ends is not
among them.

### Telemetry

`TelemetryProofs` proves, for every number of ranks and of clients, every assignment of ranks
to hosts, every set of lines a client may send, every bound and every size of the outbox:

* `Invariance`: `Spec => []IInv`
* `TypeCorrect`, `ControlsAgreed` (`ControlsAgree`), `SnapshotsComplete`
  (`SnapshotComplete`), `OutboxesKeep` (`OutboxKeeps`): `Spec => []` of the property named

The assumptions are those of `Telemetry`: at least two ranks, integers as intervals, an outbox
of at least one line, lines of at least one part, and a `None` that is neither a frame nor a
line. The parts of `IInv`:

* `ControlInv`: a control given by a client is applied at rank 0 and then passes through three
  queues: the broadcast thread that pushes it, `m_pending_fanout`, and the transport to each
  rank. `Pending(r)` puts the three behind each other, so that most steps leave it as it is.
  `Settled` says that the last control of a kind in it makes what rank 0 has, and that without
  one the rank has it already; `ControlsAgree` is the case of an empty `Pending(r)`. The
  snapshots in it ascend (`SnapshotsAhead`) and the one a rank answered is not beyond the one
  requested, so a frame never claims to answer a snapshot nobody asked for.
* `FrameInv`: the frames of a rank on their way are in the order they were taken, none is newer
  than its hub, and the last received is not newer than those, until the final frame, which has
  a tag of its own, has overtaken them.
* `LineInv`: when a line is to announce a snapshot, every running rank has answered it, and the
  frame already copied into the line, or the one still to be read, keeps being recent enough.
  The second half needs `FrameInv`: a frame that replaces the latest one is no older.
* `RunningInv`: a rank runs until it enters `shutdown` from its loop. A rank emits nothing and
  applies nothing after that, which is why a final frame is the last one.
* `FinalsInv`: final frames received and on their way are of different ranks that have ended,
  so `m_final_frames_received` never exceeds the number of ranks.
* `OutboxInv`: the lines in an outbox ascend, the first goes on where the last part sent ends,
  and the last is the newest queued; a closed client has none. The line to be queued next is
  newer than all of them, which ties the outboxes to the place of the broadcast thread: between
  `StartLine` and `Deliver` its number is `lines`, otherwise `lines + 1`. A `flush` of k parts
  is arithmetic: the i-th part belongs to the line at a quotient by `LineParts` and is at the
  remainder in it (`Row`, `Col`), and counting up by one moves to the next part or to the first
  of the next line (`Walk`), so that parts follow each other. A `push` keeps the line that has
  started going out and the newest ones after it (`QueueKept`).

### The load balancers

`LoadBalancerProofs` proves, for every set of threads, every tree of calls that satisfies
`BranchesAssumption` (it may be infinite), every set of lazy calls, both policies and both
styles:

* `Invariance`: `Spec => []IInv`
* `NeverThrows` (`NoThrow`), `LinksAlwaysAgree` (`LinksAgree`), `CallsRunOnce` (`RunsOnce`),
  `NothingIsDropped` (`NothingDropped`): `Spec => []` of the property named.

The balancers find the next node through pointers that they change themselves: children,
parents and the thread's root. None of the properties says how these relate to the calls in
progress, and that is what `IInv` adds:

* `StackInv`: a call in progress waits for the branch it submitted last, which is unused until
  it returns, and no call is in two places.
* `CallInv`, `BranchInv`: a call waits in the pool at most once and before it is run; the
  branches of a call are resolved (run, waiting in the pool, sent away, found not worthy) up to
  its current one, and beyond it if they were given away; those of a call that has returned
  are all resolved, from which `NothingDropped` follows.
* `Hung`: the children of the node of a call in progress are exactly its unused branches that
  have a node (`Kids`), from left to right. The exception is a call whose only such branch was
  made a root: its list is empty and the branch has no parent.
* `Anchored`: no other node has children. `Home`: the root a thread holds has no parent and
  was made by the thread. `Known`: a thread with branches to submit holds a root, and its
  waiting nodes know it.

`Hung` gives `NoThrow`: the second child that `get_root_level_pending_node` takes is an unused
branch that no thread has begun. The hard case is `try_correct_root`, which may lower the root
by any number of levels in one call. Its loop is the recursive function `Descent`. `LoopEnds`
bounds it by the depth of the stack, `WalkExists` and `DescentWalk` show that it yields the line
of only children, and `LoopOnStack` that this line consists of the nodes of consecutive calls
in progress. `CorrectKeeps`, `PruneKeeps`, `PushKeeps`, `PopKeeps` and `CreateKeeps` say that
each change of the tree and the stacks keeps the four conditions on the tree.

`IInv` was checked with TLC on the instance of the run `load_balancer` before it was proved;
the run itself checks its consequences.

### The Java binding

`BindingsProofs` proves, for any number of nodes, any factories, calls, offers and received tasks,
and for scores of any even widths `Half` and `Full`:

* `Invariance`: `Spec => []IInv`
* `NativeStaysSafe`: `Spec => []NativeSafe`. The application may let a node go during `getResult`
  or a factory, and `NativeSafe` then promises nothing of that call; it promises the wrapper
  when the variable of the node or of the parent lives on, when the parent is the context of
  the running callback, and in every submission and callback. `LastUseSafe` promises it always,
  and is false (finding 5).
* `ResultAgrees`: `Spec => []ResultMatchesScore`. `OffersAssumption` is what Java's types ensure:
  integers may be any number, of which the bits are kept, and a floating-point number is one of
  its type or NaN.
* `TypeCorrect`: `Spec => []TypeOK`.

`NativeSafe` says that what is used exists; why it does is spread over owners, references and
the collector. `IInv` adds:

* `Intact`, about one node at a time: a handle is set exactly while the wrapper exists; a
  submission has a handle, and so has `getResult` while a variable holds the node, so the
  collector, which respects variables, references and fences, never takes the wrapper under
  them; what is owned exists, and
  `java_user_data` as long as the core; a node that is in its callback has never been given to
  the pool, so the one reference is released once.
* `CreationInv`: while a factory is at work its caller does nothing else, so that a callback whose
  context is the parent does not return and a parent that a variable holds is not closed.
* `WorkerInv`: the serial runnable has its reference while its wrapper exists or `Worker.run`
  goes on, and tasks exist only within `Worker.run`.
* `UpdateInv`, `ScoreInv`: one task at a time is between the native update and the store,
  objects and bytes are not mixed, no accepted score is better than `m_score`, and the
  result kept has `m_score`, or the task that is about to store it has.

After most steps `Settled` destroys the cores that nobody owns, a set defined over all links at
once. The proof does not follow the links: `OwnedSurvives` says that a core with an owner
other than a core is never in that set, and `DestroyedOk` that a node without such an owner is
in no call and in no task, so its objects may go. Scores rest on `RawSame` (the raw bits are those
of the payload, both ways) and `BetterOrder` (what is not better than a score is not better than
one that replaces it, although NaN is comparable to nothing).

### Model-checked only

* Liveness (`TerminationDetected`, `Termination`, `FullnessRecovers`, `Completion`,
  `ShutdownEnds`, `SnapshotAnswered`, `EventuallyFreed`): fairness is out of the
  prover's reach.
* The refinements `ImplementsDetection`. The consequence that matters, that an announced
  termination is real, is proved directly for both schedulers (`NoTaskLost`).
* `build_topology`, a recursion (`TreeAssumption`).

## 5. Not modelled

* Custom topologies and priorities of the user, `synchronize_stats`, MPI set-up and
  finalisation, statistics: no decision of the schedulers reads them, or they happen
  outside `run`.
* Telemetry: node frames of sentinels, annotations and markers of a run, the other counters
  of `record_*`, the durations of `scheduler_clock`, probes, formats, the interleavings of start-up.
* Binding: byte buffers and their copies, serial runnables that return a value, `setScore`,
  the handle of the center, statistics, the quasi-horizontal policy under Java.
* Score: unsigned types and `long double`, which Java does not have, and comparisons of
  different types.
* The thread pool is external; the schedulers see it as `busy`, `LoadBalancer` as a queue
  and one call stack per thread, `Bindings` as one task per node.
* Resizing the pool while it runs.
* Errors returned by MPI: the code logs them and goes on.

## 6. Plan

1. Proofs: the safety part of `ImplementsDetection`, and `NearestToRoot` for the trees of calls in
   which it holds.
2. Load balancers: an abstract specification (a set of waiting calls, each consumed once)
   that `LoadBalancer` implements.
3. Process tree: the linked list of `tree.cpp` implements the list of children used by
   `SemiCentralized`.
4. Telemetry: node frames, and `scheduler_clock` with the semi-centralized scheduler.
