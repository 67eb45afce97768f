------------------------------- MODULE Bindings -------------------------------
(***************************************************************************)
(* The Java binding: nodes and results across Java, the JNI layer, the C   *)
(* ABI and the core.                                                       *)
(*                                                                         *)
(* A node is four objects.  The Java Node is collected when nobody reaches *)
(* it, and its Cleaner then deletes the C wrapper.  The wrapper owns the   *)
(* node_core, as do the native calls that use it, the pool's task, its     *)
(* parent and its children.  The core owns, in its runnable, the holder of *)
(* java_user_data, and that holds a global reference to the Java Node: a   *)
(* circle, which the callbacks of the node break.                          *)
(*                                                                         *)
(* A node belongs to the Java code that created it: the main thread, or a  *)
(* task while its callback runs.  Nodes are submitted to the work-stealing *)
(* balancer, whose steps are those of LoadBalancer; here they are split    *)
(* where the collector, a pool thread or another call can come between.    *)
(* The collector may run at any time, and a Java variable may be dead from *)
(* its last use on, also while the call it was passed to still runs.       *)
(***************************************************************************)
EXTENDS Score, FiniteSets, Sequences

CONSTANTS
    Main,       \* the main thread
    Serial,     \* the task of a serial runnable
    Nodes,      \* the nodes, created in this order: 1, 2, ...
    Makes,      \* per scenario, the factories that create the nodes of a run
    MaxCalls,   \* per scenario, how many calls are made on each: submissions and getResult
    MaxOffers,  \* results a task offers
    MaxReceived,\* tasks a worker process receives
    Goals,      \* the goals examined
    Offers,     \* the scores of results that tasks offer, as pairs of a type and a value
    Scenarios   \* what is examined: the lifetime of nodes in a build with threads only, "mt", or in
                \*   a worker process of a build with MPI, "mp", or the "results" that tasks offer

None == 0
Factory == {"dummy", "seed", "explicit", "lazy"}

ASSUME NodesAssumption == IsFiniteSet(Nodes) /\ Nodes = 1 .. Cardinality(Nodes)
ASSUME MakesAssumption == Makes \in [Scenarios -> Seq(Factory)]
ASSUME MainAssumption == Main \notin Nodes \cup {None, Serial} /\ Serial \notin Nodes \cup {None}
ASSUME CallsAssumption == MaxCalls \in [Scenarios -> Seq(Nat)] /\ MaxOffers \in Nat /\ MaxReceived \in Nat
ASSUME GoalsAssumption == Goals \subseteq {"MAXIMISE", "MINIMISE"}
ASSUME ScenariosAssumption == Scenarios \subseteq {"mt", "mp", "results"}
\* Scores are numbers; those of floating-point types are among the numbers of the type, or NaN.
ASSUME OffersAssumption ==
    /\ DOMAIN Offers \subseteq score_type
    /\ \A k \in DOMAIN Offers : Offers[k] \subseteq Int
    /\ \A k \in DOMAIN Offers \ Integral : \A v \in Offers[k] :
         - (Patterns(k) \div 2) < v /\ v < Patterns(k) \div 2

VARIABLES
    scenario,
    goal,
    kind,       \* the type of all scores of a run, given to set_goal
    form,       \* results are offered as a Java object or as bytes
    runtime,    \* the singletons: "none", "scheduler", "balancer", "manager" (no goal yet),
                \*   "ready", "down"
    worker,     \* the serial runnable of a worker process, and its Worker.run (see Worker)
    node,       \* what exists of every node (see Object)
    update,     \* where the tryUpdateResult of a node's task is
    lock,       \* the task that holds m_javaResultLock
    nm_score,   \* m_score
    stored,     \* the result kept: the object m_javaResult, or the packet m_result
    accepted    \* history: the scores offered in calls that have returned

vars == <<scenario, goal, kind, form, runtime, worker, node, update, lock, nm_score,
          stored, accepted>>
scores == <<update, lock, nm_score, stored, accepted>>
fixed == <<scenario, goal, kind, form>>

node_state == {"UNUSED", "FORWARDED", "PUSHED", "DISCARDED", "RETRIEVED",
               "SENT_TO_ANOTHER_PROCESS"}
Call == {"none",
         "called",                      \* Java has read the handle, the wrapper is not read yet
         "remote", "local", "forward",  \* in the balancer
         "running", "returned",         \* in or after the callback, in node_core::run
         "leaving",                     \* the balancer has returned
         "result",                      \* in gempba_node_get_result
         "creating"}                    \* its factory has read the handle of the parent
Object ==
    [java     : {"absent", "held", "dropped"}, \* a variable of the creator holds the Java Node
     creator  : Nodes \cup {Main, Serial},
     handle   : BOOLEAN,                       \* state.handle # 0
     wrapper  : {"none", "alive", "deleted"},
     core     : {"none", "alive", "destroyed"},
     data     : {"none", "alive", "released"}, \* java_user_data
     ref      : BOOLEAN,                       \* global_ref # nullptr
     state    : node_state,
     branch   : SUBSET BOOLEAN,                \* what should_branch may still return
     parent   : Nodes \cup {None},             \* m_parent, or the one given to its factory
     children : SUBSET Nodes,                  \* m_children
     call     : Call,
     how      : {"remote", "local", "forward"},
     calls    : Nat,
     task     : {"none", "queued", "running", "ran"},
     fate     : {"none", "ran", "failed", "skipped"}]  \* history: of its callbacks

Absent ==
    [java |-> "absent", creator |-> Main, handle |-> FALSE, wrapper |-> "none", core |-> "none",
     data |-> "none", ref |-> FALSE, state |-> "UNUSED", branch |-> {TRUE}, parent |-> None,
     children |-> {}, call |-> "none", how |-> "local", calls |-> 0, task |-> "none",
     fate |-> "none"]

Worker ==
    [wrapper  : {"none", "alive", "deleted"},  \* of the SerialRunnable
     run      : {"before", "in", "after"},     \* Worker.run, whose map shares the runnable
     ref      : BOOLEAN,                       \* its java_user_data, with a global reference
     task     : {"none", "queued", "running"}, \* the pool's task that calls it
     received : Nat]

\* Places where the runnable's callback of n is in Java.
Running(n) == node[n].call = "running" \/ node[n].task = "running"

-----------------------------------------------------------------------------
(* Ownership *)

\* The wrapper, node_local of a submission, or v_copy of the pool's task own the core.
\* gempba_node_get_result does not copy the node.
Owned(o) ==
    \/ o.wrapper = "alive"
    \/ o.call \notin {"none", "called", "result", "creating"}
    \/ o.task # "none"

\* The cores that are left when every core has been destroyed that nobody owns: the largest
\* set of which each has an owner, one of these or another core of the set.
Surviving(nd) ==
    LET alive == {n \in Nodes : nd[n].core = "alive"}
        owned(n, S) == \/ Owned(nd[n])
                       \/ \E p \in S : n \in nd[p].children \/ nd[p].parent = n
    IN  UNION {S \in SUBSET alive : \A n \in S : owned(n, S)}

\* release_global_ref_now and the deletion of java_user_data.
java_user_data_release(o) ==
    [o EXCEPT !.data = IF @ = "alive" THEN "released" ELSE @, !.ref = FALSE]

\* A core is destroyed with its runnable, whose holder has a deleter that calls release_fn.
Destroyed(o) ==
    java_user_data_release([o EXCEPT !.core = "destroyed", !.parent = None, !.children = {}])

\* The objects after a step that may have dropped the last owner of a core.
Settled(nd) ==
    LET left == Surviving(nd)
    IN  [n \in Nodes |-> IF nd[n].core = "alive" /\ n \notin left THEN Destroyed(nd[n]) ELSE nd[n]]

\* node_core::prune, before Settled.
Pruned(nd, n) ==
    [m \in Nodes |-> [nd[m] EXCEPT !.children = IF m = n THEN {} ELSE
                                                IF m = nd[n].parent THEN @ \ {n} ELSE @,
                                   !.parent = IF m = n THEN None ELSE @]]

-----------------------------------------------------------------------------
(* Java code *)

\* Who creates nodes: in a worker process not the main thread.
Creators == Nodes \cup {IF scenario = "mp" THEN Serial ELSE Main}

\* The main thread or a task's callback may go on: it runs and is in no call.
Free(c) ==
    /\ c = Main => worker.run # "in"
    /\ c = Serial => worker.task = "running"
    /\ c \in Nodes => Running(c) /\ update[c].at = "idle"
    /\ \A n \in Nodes : node[n].creator = c => node[n].call = "none"

\* GemPBA.createScheduler, in a build with MPI.
CreateScheduler ==
    /\ scenario = "mp"
    /\ runtime = "none"
    /\ runtime' = "scheduler"
    /\ UNCHANGED <<fixed, worker, node, scores>>

\* create_load_balancer and create_node_manager of either build, then setGoal.
CreateLoadBalancer ==
    /\ runtime = IF scenario = "mp" THEN "scheduler" ELSE "none"
    /\ runtime' = "balancer"
    /\ UNCHANGED <<fixed, worker, node, scores>>

\* m_score starts as score::make(INT_MIN).
CreateNodeManager ==
    /\ runtime = "balancer"
    /\ runtime' = "manager"
    /\ nm_score' = make("I32", - (Half \div 2))
    /\ UNCHANGED <<fixed, worker, node, update, lock, stored, accepted>>

SetGoal ==
    /\ runtime = "manager"
    /\ runtime' = "ready"
    /\ nm_score' = get_default_score(goal, kind)
    /\ UNCHANGED <<fixed, worker, node, update, lock, stored, accepted>>

\* m_invoke hands a task its own node as context, or a null handle when the pool runs it.
Context(c) == {p \in Nodes : p = c /\ node[p].call = "running"}

\* The nodes c can pass as parent: its own, and the context of its callback.
Parents(c) == {p \in Nodes : node[p].java = "held" /\ node[p].creator = c} \cup Context(c)

IsNext(n, f) ==
    /\ runtime = "ready"
    /\ n \in DOMAIN Makes[scenario] /\ Makes[scenario][n] = f
    /\ node[n].java = "absent"
    /\ \A m \in 1 .. n - 1 : node[m].java # "absent"

\* new_user_data: a global reference to the Java Node.
new_user_data(o) == [o EXCEPT !.data = "alive", !.ref = TRUE]

\* What the factories of the C ABI make for the Java code c.
gempba_create_dummy_node(c) ==
    [Absent EXCEPT !.java = "held", !.creator = c, !.handle = TRUE, !.wrapper = "alive",
                   !.core = "alive"]
gempba_create_seed_node(c) == new_user_data(gempba_create_dummy_node(c))
gempba_mt_create_explicit_node(c, p) ==
    [new_user_data(gempba_create_dummy_node(c)) EXCEPT !.parent = p]
gempba_mp_create_explicit_node(c, p) ==
    [new_user_data(gempba_create_dummy_node(c)) EXCEPT !.parent = p]
\* A node_core whose arguments an initializer makes, or finds not worthy, on first use.
LAZY(o) == [o EXCEPT !.branch = BOOLEAN]
gempba_mt_create_lazy_node(c, p) ==
    LAZY([new_user_data(gempba_create_dummy_node(c)) EXCEPT !.parent = p])

\* The new object n, which add_child enters with its parent.
add_child(n, o) ==
    [m \in Nodes |-> IF m = n THEN o
                     ELSE IF m = o.parent THEN [node[m] EXCEPT !.children = @ \cup {n}]
                     ELSE node[m]]

CreateDummy(n) ==
    /\ IsNext(n, "dummy")
    /\ \E c \in Creators : Free(c) /\ node' = add_child(n, gempba_create_dummy_node(c))
    /\ UNCHANGED <<fixed, runtime, worker, scores>>

CreateSeed(n) ==
    /\ IsNext(n, "seed")
    /\ \E c \in Creators : Free(c) /\ node' = add_child(n, gempba_create_seed_node(c))
    /\ UNCHANGED <<fixed, runtime, worker, scores>>

\* createExplicitNode and createLazyNode read parent.state.handle.  Nothing keeps the parent
\* from then on if this is its last use, also while a serializer runs: serializers are taken
\* to use no nodes.
ReadParent(n) ==
    /\ IsNext(n, "explicit") \/ IsNext(n, "lazy")
    /\ \E c \in Creators : \E p \in Parents(c) :
         /\ Free(c)
         /\ node[p].handle
         /\ node' = [node EXCEPT ![n] = [Absent EXCEPT !.java = "held", !.creator = c,
                                                       !.call = "creating", !.parent = p]]
    /\ UNCHANGED <<fixed, runtime, worker, scores>>

\* The native side of a factory of this kind finds the wrapper of the parent that it was given.
Creating(n, f) ==
    /\ node[n].call = "creating"
    /\ Makes[scenario][n] = f
    /\ node[node[n].parent].wrapper = "alive"
    /\ UNCHANGED <<fixed, runtime, worker, scores>>

\* An explicit node of the build with threads only and of the build with MPI.
CreateExplicit(n) ==
    /\ scenario # "mp"
    /\ Creating(n, "explicit")
    /\ node' = add_child(n, gempba_mt_create_explicit_node(node[n].creator, node[n].parent))

CreateSerializable(n) ==
    /\ scenario = "mp"
    /\ Creating(n, "explicit")
    /\ node' = add_child(n, gempba_mp_create_explicit_node(node[n].creator, node[n].parent))

CreateLazy(n) ==
    /\ Creating(n, "lazy")
    /\ node' = add_child(n, gempba_mt_create_lazy_node(node[n].creator, node[n].parent))

\* safe_make_holder has taken java_user_data: a factory that fails releases it.
Refused(c) ==
    [java_user_data_release(new_user_data(Absent)) EXCEPT !.java = "dropped", !.creator = c]

\* The parent has no wrapper: the C ABI refuses the call, and Java sees an exception.
CreateRefused(n) ==
    /\ IsNext(n, "explicit") \/ IsNext(n, "lazy")
    /\ \E c \in Creators : \E p \in Parents(c) :
         /\ Free(c)
         /\ ~node[p].handle
         /\ node' = [node EXCEPT ![n] = Refused(c)]
    /\ UNCHANGED <<fixed, runtime, worker, scores>>

\* NewGlobalRef fails: the native factory returns 0, and Java keeps a Node without handle.
NoGlobalRef(n) ==
    /\ scenario # "results"
    /\ \E f \in Factory \ {"dummy"} : IsNext(n, f)
    /\ \E c \in Creators :
         /\ Free(c)
         /\ node' = [node EXCEPT ![n] = [Absent EXCEPT !.java = "held", !.creator = c]]
    /\ UNCHANGED <<fixed, runtime, worker, scores>>

Used(o, place, how, last) ==
    [o EXCEPT !.call = place, !.how = how, !.calls = @ + 1,
              !.java = IF last THEN "dropped" ELSE @]

\* Java code uses its node n, and it may be the last use.
Uses(n, place, how, lasts) ==
    /\ runtime = "ready"
    /\ node[n].java = "held"
    /\ node[n].handle
    /\ Free(node[n].creator)
    /\ node[n].calls < MaxCalls[scenario][n]
    /\ \E last \in lasts : node' = [node EXCEPT ![n] = Used(@, place, how, last)]
    /\ UNCHANGED <<fixed, runtime, worker, scores>>

\* The node has a runnable to submit.
Submittable(n) == node[n].java = "held" /\ Makes[scenario][n] # "dummy"

\* The submissions read the handle and go to native code.
tryLocalSubmit(n) ==
    /\ Submittable(n)
    /\ Uses(n, "called", "local", IF scenario # "results" THEN BOOLEAN ELSE {TRUE})

forward(n) ==
    scenario # "results" /\ Submittable(n) /\ Uses(n, "called", "forward", BOOLEAN)

tryRemoteSubmit(n) ==
    scenario # "results" /\ Submittable(n) /\ Uses(n, "called", "remote", BOOLEAN)

\* Node.getResult, without a fence: after the last use nothing keeps the Java Node.
getResult(n) ==
    scenario # "results" /\ Uses(n, "result", "local", BOOLEAN)

\* A variable goes out of scope.
Drop(n) ==
    /\ scenario # "results"
    /\ node[n].java = "held"
    /\ node[n].call = "none"
    /\ node' = [node EXCEPT ![n].java = "dropped"]
    /\ UNCHANGED <<fixed, runtime, worker, scores>>

gempba_node_destroy(o) == [o EXCEPT !.wrapper = "deleted"]

\* State.run: the handle is taken and the wrapper destroyed.
Cleaned(n) ==
    Settled([node EXCEPT ![n] = [gempba_node_destroy(@) EXCEPT !.java = "dropped",
                                                              !.handle = FALSE]])

\* Node.close, after which the code does not use the node.
Close(n) ==
    /\ scenario # "results"
    /\ node[n].java = "held"
    /\ node[n].handle
    /\ Free(node[n].creator)
    /\ node' = Cleaned(n)
    /\ UNCHANGED <<fixed, runtime, worker, scores>>

\* Mutant: no reachabilityFence.
Unfenced(n) == FALSE

\* The submissions end with a reachabilityFence.
Fenced(n) == node[n].call \notin {"none", "result", "creating"}

Reachable(n) == node[n].java = "held" \/ node[n].ref \/ Fenced(n)

Collectable(n) == node[n].handle /\ ~Reachable(n)

\* The collector finds the Java Node unreachable, and the Cleaner runs its action.
Collect(n) ==
    /\ Collectable(n)
    /\ node' = Cleaned(n)
    /\ UNCHANGED <<fixed, runtime, worker, scores>>

\* GemPBA.shutdown, after the last call: the pool is drained by the destructor of the
\* balancer, then the node manager goes.  Wrappers may outlive both.
Shutdown ==
    /\ runtime = "ready"
    /\ Free(Main)
    /\ worker.run # "before" \/ scenario # "mp"
    /\ \A n \in Nodes : node[n].call = "none" /\ node[n].task = "none"
    /\ runtime' = "down"
    /\ UNCHANGED <<fixed, worker, node, scores>>

-----------------------------------------------------------------------------
(* Worker processes *)

\* The wrapper and the map of Worker.run share the runnable, and that owns java_user_data.
\* The tasks it submits hold a bare pointer to it.
Shared(w) == [w EXCEPT !.ref = w.wrapper = "alive" \/ w.run = "in"]

AtWorker(w) == worker' = Shared(w) /\ UNCHANGED <<fixed, runtime, scores>>

\* A new runnable, whose holder takes the java_user_data made for it.
gempba_serial_runnable_create(w) == [w EXCEPT !.wrapper = "alive"]

\* GemPBA.runnableReturnNone.  NewGlobalRef does not fail here: Worker.run would dereference
\* the handle 0 that Java then has.
runnableReturnNone ==
    /\ scenario = "mp" /\ runtime = "ready"
    /\ worker.wrapper = "none"
    /\ AtWorker(gempba_serial_runnable_create(worker))
    /\ UNCHANGED node

\* Scheduler.Worker.run, which the main thread is in until the center says TERMINATION.
WorkerRun ==
    /\ worker.wrapper = "alive" /\ worker.run = "before"
    /\ AtWorker([worker EXCEPT !.run = "in"])
    /\ UNCHANGED node

\* A task packet arrives, and the runnable submits a call to the pool.
ReceiveTask ==
    /\ worker.run = "in"
    /\ worker.task = "none"
    /\ worker.received < MaxReceived
    /\ AtWorker([worker EXCEPT !.task = "queued", !.received = @ + 1])
    /\ UNCHANGED node

TakeSerial ==
    /\ worker.task = "queued"
    /\ AtWorker([worker EXCEPT !.task = "running"])
    /\ UNCHANGED node

\* The callback keeps the global reference.  The variables of the Java code go.
SerialReturns ==
    /\ worker.task = "running"
    /\ Free(Serial)
    /\ AtWorker([worker EXCEPT !.task = "none"])
    /\ node' = [n \in Nodes |-> IF node[n].creator = Serial /\ node[n].java = "held"
                               THEN [node[n] EXCEPT !.java = "dropped"] ELSE node[n]]

\* task_funneling does not end before the pool has done all its tasks.
PoolDone == worker.task = "none" /\ \A n \in Nodes : node[n].task \in {"none", "ran"}

WorkerReturns ==
    /\ worker.run = "in"
    /\ PoolDone
    /\ AtWorker([worker EXCEPT !.run = "after"])
    /\ UNCHANGED node

\* SerialRunnable.close, once, by any Java code that runs.
CloseSerial ==
    /\ worker.wrapper = "alive" /\ worker.run # "before"
    /\ \E c \in Creators \cup {Main} : Free(c)
    /\ AtWorker([worker EXCEPT !.wrapper = "deleted"])
    /\ UNCHANGED node

-----------------------------------------------------------------------------
(* Native calls *)

\* The native call on n goes on at `place`; nd holds the other changes.
GoOn(nd, n, place) ==
    /\ node' = Settled([nd EXCEPT ![n].call = place])
    /\ UNCHANGED <<fixed, runtime, worker, scores>>

\* The C ABI copies node->cpp into node_local.
Enter(n, how) ==
    /\ node[n].call = "called"
    /\ node[n].how = how
    /\ node[n].wrapper = "alive"
    /\ GoOn(node, n, how)

gempba_nm_try_local_submit(n) == Enter(n, "local")
gempba_nm_forward(n) == Enter(n, "forward")
gempba_nm_try_remote_submit(n) == Enter(n, "remote")

\* node_local is gone, then the fence.
Leave(n) == node[n].call = "leaving" /\ GoOn(node, n, "none")

\* The lazy-args callback has no Java Node to call when the reference is gone.
Worthy(o) == IF o.branch = BOOLEAN /\ ~o.ref THEN {FALSE} ELSE o.branch

\* Mutant: a node that is not worthy keeps its reference.
GatedPinned(o, worthy) ==
    [o EXCEPT !.branch = {worthy},
              !.fate = IF o.branch = BOOLEAN /\ ~worthy THEN "skipped" ELSE @]

\* should_branch, which calls the lazy initializer once.  One that prunes the node releases
\* the reference, for the runnable will not be called.
Gated(o, worthy) ==
    [o EXCEPT !.branch = {worthy},
              !.ref = @ /\ ~(o.branch = BOOLEAN /\ ~worthy),
              !.fate = IF o.branch = BOOLEAN /\ ~worthy THEN "skipped" ELSE @]

\* send: a consumed node makes it throw; another is pruned and given to `place`.
Send(n, st, task) ==
    IF node[n].state # "UNUSED" THEN GoOn(node, n, "leaving")
    ELSE \E worthy \in Worthy(node[n]) :
            LET o == Gated(Pruned(node, n)[n], worthy)
                sent == IF worthy THEN [o EXCEPT !.state = st, !.task = task]
                        ELSE [o EXCEPT !.state = "DISCARDED"]
            IN  GoOn([Pruned(node, n) EXCEPT ![n] = sent], n, "leaving")

\* try_remote_submit throws without a scheduler.
NoScheduler(n) == node[n].call = "remote" /\ scenario # "mp" /\ GoOn(node, n, "leaving")

SendRemotely(n) ==
    /\ node[n].call = "remote" /\ scenario = "mp"
    /\ Send(n, "SENT_TO_ANOTHER_PROCESS", node[n].task)

ChannelClosed(n) == node[n].call = "remote" /\ scenario = "mp" /\ GoOn(node, n, "local")
SendLocally(n) == node[n].call = "local" /\ Send(n, "PUSHED", "queued")
PoolFull(n) == scenario # "results" /\ node[n].call = "local" /\ GoOn(node, n, "forward")

\* forward: the callback is called in run(), which throws if the reference is gone.
Run(n) ==
    /\ node[n].call = "forward"
    /\ node[n].state = "UNUSED"
    /\ TRUE \in Worthy(node[n])
    /\ GoOn([node EXCEPT ![n] = Gated(@, TRUE)], n, IF node[n].ref THEN "running" ELSE "leaving")

Skip(n) ==
    /\ node[n].call = "forward"
    /\ \/ node[n].state # "UNUSED" /\ GoOn(Pruned(node, n), n, "leaving")
       \/ /\ node[n].state = "UNUSED"
          /\ FALSE \in Worthy(node[n])
          /\ GoOn(Pruned([node EXCEPT ![n] = Gated(@, FALSE)], n), n, "leaving")

\* java_node_runnable_callback after Java returned or threw.
CalledBack(o, ok) == [o EXCEPT !.ref = FALSE, !.fate = IF ok THEN "ran" ELSE "failed"]

Return(n) ==
    /\ node[n].call = "running"
    /\ Free(n)
    /\ \E ok \in BOOLEAN : GoOn([node EXCEPT ![n] = CalledBack(@, ok)], n, "returned")

\* run() marks the node and the balancer prunes it, unless the callback failed and run() threw.
RunEnds(n) ==
    /\ node[n].call = "returned"
    /\ LET done == [node EXCEPT ![n].state = "FORWARDED"]
       IN  GoOn(IF node[n].fate = "ran" THEN Pruned(done, n) ELSE node, n, "leaving")

\* get_any_result, once the task has ended: the future of a task that failed throws.
get_any_result(o) ==
    [o EXCEPT !.state = IF o.state = "PUSHED" /\ o.fate # "ran" THEN @ ELSE "RETRIEVED"]

gempba_node_get_result(n) ==
    /\ node[n].call = "result"
    /\ node[n].wrapper = "alive"
    /\ node[n].task \in {"none", "ran"}
    /\ GoOn([node EXCEPT ![n] = get_any_result(@)], n, "none")

-----------------------------------------------------------------------------
(* The pool *)

Task(n, nd) == node' = Settled(nd) /\ UNCHANGED <<fixed, runtime, worker, scores>>

\* A pool thread calls the callback, with a null handle.
Take(n) ==
    /\ node[n].task = "queued"
    /\ Task(n, [node EXCEPT ![n].task = IF node[n].ref THEN "running" ELSE "ran"])

TaskReturns(n) ==
    /\ node[n].task = "running"
    /\ Free(n)
    /\ \E ok \in BOOLEAN : Task(n, [node EXCEPT ![n] = [CalledBack(@, ok) EXCEPT !.task = "ran"]])

\* The future is ready and the task is destroyed with v_copy.
TaskGone(n) == node[n].task = "ran" /\ Task(n, [node EXCEPT ![n].task = "none"])

-----------------------------------------------------------------------------
(* Results *)

UpdateAt(n, place) == update' = [update EXCEPT ![n].at = place]

\* A task calls tryUpdateResult with a result and its score.
Offer(n) ==
    /\ scenario = "results"
    /\ Running(n)
    /\ Free(n)
    /\ update[n].left > 0
    /\ \E v \in Offers[kind] :
         update' = [update EXCEPT ![n] = [at |-> IF form = "object" THEN "waiting" ELSE "bytes",
                                          left |-> @.left - 1, score |-> Score_make(kind, v)]]
    /\ UNCHANGED <<fixed, runtime, worker, node, lock, nm_score, stored, accepted>>

\* Mutant: tryUpdateResult is not synchronized.
SynchronizeNot(n) ==
    /\ update[n].at = "waiting"
    /\ UpdateAt(n, "native")
    /\ UNCHANGED <<fixed, runtime, worker, node, lock, nm_score, stored, accepted>>

Synchronize(n) ==
    /\ update[n].at = "waiting"
    /\ lock = None
    /\ lock' = n
    /\ UpdateAt(n, "native")
    /\ UNCHANGED <<fixed, runtime, worker, node, nm_score, stored, accepted>>

should_update_result(new, old) ==
    IF goal = "MAXIMISE" THEN less(old, new) ELSE less(new, old)

\* What Java sends: the raw bits and the ordinal of the type.
Offered(n) == from_raw(update[n].score.kind, update[n].score.payload)

\* What either update of node_manager leaves in m_score, under m_mutex.
try_update_score_and_invalidate_result(s) ==
    IF should_update_result(s, nm_score) THEN s ELSE nm_score

\* tryUpdateResultMT: the score only; Java keeps the object.
UpdateScore(n) ==
    /\ update[n].at = "native"
    /\ nm_score' = try_update_score_and_invalidate_result(Offered(n))
    /\ UpdateAt(n, IF should_update_result(Offered(n), nm_score) THEN "store" ELSE "leave")
    /\ UNCHANGED <<fixed, runtime, worker, node, lock, stored, accepted>>

\* tryUpdateResult of bytes: the packet and the score change together, under m_mutex.
UpdateResult(n) ==
    /\ update[n].at = "bytes"
    /\ nm_score' = try_update_score_and_invalidate_result(Offered(n))
    /\ stored' = IF should_update_result(Offered(n), nm_score)
                 THEN [found |-> TRUE, score |-> update[n].score] ELSE stored
    /\ accepted' = accepted \cup {update[n].score}
    /\ UpdateAt(n, "idle")
    /\ UNCHANGED <<fixed, runtime, worker, node, lock>>

StoreResult(n) ==
    /\ update[n].at = "store"
    /\ stored' = [found |-> TRUE, score |-> update[n].score]
    /\ UpdateAt(n, "leave")
    /\ UNCHANGED <<fixed, runtime, worker, node, lock, nm_score, accepted>>

LeaveUpdate(n) ==
    /\ update[n].at = "leave"
    /\ UpdateAt(n, "idle")
    /\ lock' = None
    /\ accepted' = accepted \cup {update[n].score}
    /\ UNCHANGED <<fixed, runtime, worker, node, nm_score, stored>>

-----------------------------------------------------------------------------

Init ==
    /\ scenario \in Scenarios
    /\ goal \in Goals
    /\ kind \in DOMAIN Offers
    /\ form \in {"object", "bytes"}
    /\ scenario # "results" => goal = "MAXIMISE" /\ kind = "I32" /\ form = "object"
    /\ runtime = "none"
    /\ worker = [wrapper |-> "none", run |-> "before", ref |-> FALSE, task |-> "none", received |-> 0]
    /\ node = [n \in Nodes |-> Absent]
    /\ update = [n \in Nodes |-> [at |-> "idle", left |-> MaxOffers, score |-> make(kind, 0)]]
    /\ lock = None
    /\ nm_score = make("I32", 0)
    /\ stored = [found |-> FALSE, score |-> make("I32", 0)]
    /\ accepted = {}

Java(n) ==
    \/ CreateDummy(n) \/ CreateSeed(n) \/ ReadParent(n) \/ CreateRefused(n) \/ NoGlobalRef(n)
    \/ tryLocalSubmit(n) \/ forward(n) \/ tryRemoteSubmit(n) \/ getResult(n)
    \/ Drop(n) \/ Close(n) \/ Collect(n)

Native(n) ==
    \/ CreateExplicit(n) \/ CreateSerializable(n) \/ CreateLazy(n)
    \/ gempba_nm_try_local_submit(n) \/ gempba_nm_forward(n) \/ gempba_nm_try_remote_submit(n)
    \/ gempba_node_get_result(n) \/ Leave(n)
    \/ NoScheduler(n) \/ SendRemotely(n) \/ ChannelClosed(n) \/ SendLocally(n) \/ PoolFull(n)
    \/ Run(n) \/ Skip(n) \/ Return(n) \/ RunEnds(n)
    \/ Take(n) \/ TaskReturns(n) \/ TaskGone(n)

Result(n) ==
    \/ Offer(n) \/ Synchronize(n) \/ UpdateScore(n) \/ StoreResult(n) \/ LeaveUpdate(n)
    \/ UpdateResult(n)

WorkerProcess ==
    \/ runnableReturnNone \/ WorkerRun \/ ReceiveTask \/ TakeSerial \/ SerialReturns
    \/ WorkerReturns \/ CloseSerial

\* Native code is about to use a wrapper that is deleted.  What happens then is undefined: here
\* the thread stops.
Dangling(n) ==
    \/ node[n].call = "creating" /\ node[node[n].parent].wrapper # "alive"
    \/ node[n].call = "result" /\ node[n].wrapper # "alive"

Stopped == (runtime = "down" \/ \E n \in Nodes : Dangling(n)) /\ UNCHANGED vars

Next ==
    \/ CreateScheduler \/ CreateLoadBalancer \/ CreateNodeManager \/ SetGoal
    \/ WorkerProcess \/ Shutdown \/ Stopped
    \/ \E n \in Nodes : Java(n) \/ Native(n) \/ Result(n)

Spec == Init /\ [][Next]_vars

\* The pool destroys the tasks it has run, and the collector comes round to every Java object
\* that nothing reaches.  Each such step is one of finitely many.
Reclaim == \E n \in Nodes : TaskGone(n) \/ Collect(n)

FairSpec == Spec /\ WF_vars(Reclaim)

-----------------------------------------------------------------------------
(* Properties *)

TypeOK ==
    /\ runtime \in {"none", "scheduler", "balancer", "manager", "ready", "down"}
    /\ worker \in Worker
    /\ node \in [Nodes -> Object]
    /\ update \in [Nodes -> [at : {"idle", "waiting", "bytes", "native", "store", "leave"},
                             left : 0 .. MaxOffers, score : score]]
    /\ lock \in Nodes \cup {None}
    /\ nm_score \in score
    /\ stored \in [found : BOOLEAN, score : score]
    /\ accepted \subseteq score

\* Native code never uses what is gone.  A call finds the wrapper its handle names, getResult
\* and the factories at least when the variable of their node or parent lives on, or the parent is
\* the context of a callback.  While a callback is in Java its core, its java_user_data and
\* its Java Node exist, and so does the wrapper behind the handle it was given as its own; and
\* a callback that has returned still finds its java_user_data.  So does the task of a serial
\* runnable, which holds a bare pointer, although the runnable may be closed meanwhile.
NativeSafe ==
    /\ worker.task # "none" => worker.ref
    /\ \A n \in Nodes :
        /\ node[n].call = "called" => node[n].wrapper = "alive"
        /\ node[n].call = "result" /\ node[n].java = "held" => node[n].wrapper = "alive"
        /\ node[n].call = "creating" =>
             LET p == node[n].parent
             IN  node[p].java = "held" \/ p = node[n].creator => node[p].wrapper = "alive"
        /\ Running(n) => node[n].data = "alive" /\ node[n].ref
        /\ node[n].call = "running" => node[n].wrapper = "alive"
        /\ node[n].call = "returned" \/ node[n].task # "none" => node[n].data = "alive"

\* A node may be used for the last time by getResult, as in the example of Node.getResult, or as
\* the parent of a new node: native code still finds its wrapper.
LastUseSafe == \A n \in Nodes : ~Dangling(n)

\* The code is done with n: it dropped it, and the node was run or found not worthy.
Consumed(n) ==
    /\ node[n].java # "held"
    /\ node[n].call = "none"
    /\ \/ node[n].wrapper = "none"
       \/ node[n].fate \in {"ran", "skipped"}
       \/ Makes[scenario][n] = "dummy"
Freed(n) ==
    /\ node[n].wrapper # "alive"
    /\ node[n].core # "alive"
    /\ node[n].data # "alive"
    /\ ~node[n].ref

\* Nothing leaks: when the code is done with all its nodes, all their wrappers, cores and
\* java_user_data go away and no global reference is left, as release_global_ref_now is for.
EventuallyFreed ==
    (\A n \in Nodes : Consumed(n)) ~> \/ \A n \in Nodes : Freed(n)
                                      \/ \E n \in Nodes : ~Consumed(n)

\* What getScore returns to Java.
getScore == getValue(nm_score.kind, to_raw(nm_score))

\* The packet in m_result, if there is one.
get_result_bytes == stored

\* The score that the result was offered with which getResult or getResultBytes returns; that of
\* the initial result is the default.
getResultBytes ==
    IF get_result_bytes.found THEN get_result_bytes.score ELSE get_default_score(goal, kind)

\* Outside of tryUpdateResult the score that getScore returns to Java is the best one that
\* was offered, and what getResult or getResultBytes returns was offered with it; both are
\* the initial ones if no offer was better than the default.  NaN is never better.
ResultMatchesScore ==
    runtime = "ready" /\ (\A n \in Nodes : update[n].at \in {"idle", "waiting", "bytes"}) =>
        LET value(s) == getValue(s.kind, s.payload)
        IN  /\ is_nan(nm_score) = is_nan(getResultBytes) /\ getScore = value(getResultBytes)
            /\ \A s \in accepted : is_nan(s) \/ IF goal = "MAXIMISE" THEN value(s) <= getScore
                                                 ELSE value(s) >= getScore

-----------------------------------------------------------------------------
(* The inductive invariant *)

\* A node's own objects.  The handle names a wrapper that exists, and a call on the node keeps
\* the Java Node, and so the handle, by its fence, or getResult by a variable.  A core that is owned from
\* outside exists, and java_user_data as long as the core.  A callback is called once.
Intact(n, o) ==
    LET runs == Makes[scenario][n] # "dummy" IN
    /\ o.creator # n
    /\ o.java = "absent" => o.call = "none" /\ o.task = "none"
    /\ o.handle <=> o.wrapper = "alive"
    /\ o.call \notin {"none", "result", "creating"} => o.handle
    /\ o.call = "result" /\ o.java = "held" => o.handle
    /\ Owned(o) => o.core = "alive"
    /\ o.core = "alive" /\ runs => o.data = "alive"
    /\ o.call \notin {"none", "result", "creating"} \/ o.task # "none" => runs
    /\ o.call = "running" => o.ref /\ o.state = "UNUSED"
    /\ o.task = "running" => o.ref
    /\ o.task # "none" => o.state # "UNUSED"

NodeInv == \A n \in Nodes : Intact(n, node[n])

\* While a factory is at work its caller does nothing else: the callback whose context is the
\* parent does not return, and the parent is not closed while a variable holds it.
CreationInv ==
    \A n \in Nodes : node[n].call = "creating" =>
        LET p == node[n].parent IN
        /\ p \in Nodes /\ node[p].java # "absent" /\ node[n].core = "none"
        /\ IF p = node[n].creator THEN node[p].call = "running"
           ELSE node[p].creator = node[n].creator /\ (node[p].java = "held" => node[p].handle)

\* The runnable is shared by Worker.run, which waits for the tasks of the pool.
WorkerInv ==
    /\ worker.ref <=> worker.wrapper = "alive" \/ worker.run = "in"
    /\ worker.task # "none" => worker.run = "in"

better(s, old) == should_update_result(s, old)

\* Before the goal is set nothing has happened.
FreshInv ==
    runtime \notin {"ready", "down"} =>
        /\ accepted = {} /\ ~stored.found
        /\ \A n \in Nodes : /\ update[n].at = "idle"
                            /\ node[n].call = "none" /\ node[n].task = "none"

\* The update of a result is one critical section.  The score is no NaN, no accepted score is
\* better, and the result kept has this score, or will have it when it is stored.
ScoreInv ==
    runtime \in {"ready", "down"} =>
        /\ nm_score.kind = kind /\ ~is_nan(nm_score)
        /\ \A s \in accepted : s.kind = kind /\ ~better(s, nm_score)
        /\ \A n \in Nodes :
             /\ update[n].at = "store" => nm_score = update[n].score
             /\ update[n].at = "leave" => ~better(update[n].score, nm_score)
        /\ (\A n \in Nodes : update[n].at # "store") => nm_score = getResultBytes

UpdateInv ==
    /\ goal \in Goals /\ kind \in DOMAIN Offers /\ form \in {"object", "bytes"}
    /\ \A n \in Nodes :
         /\ update[n].score.kind = kind
         /\ update[n].at \in {"native", "store", "leave"} => lock = n
         /\ update[n].at \notin {"idle", "bytes"} => form = "object"
         /\ update[n].at = "bytes" => form = "bytes"

\* Inductive: the objects of every node are in order, a factory's parent is there unless that
\* was its last use, the runnable of a worker is there for its tasks, and the update of
\* m_javaResult with m_score is one critical section of tryUpdateResult.
IInv ==
    /\ TypeOK
    /\ NodeInv
    /\ CreationInv
    /\ WorkerInv
    /\ FreshInv
    /\ UpdateInv
    /\ ScoreInv
=============================================================================
