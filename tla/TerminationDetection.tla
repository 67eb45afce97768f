---------------------- MODULE TerminationDetection ----------------------
(***************************************************************************)
(* The Dijkstra-Scholten protocol that both MPI schedulers of GemPBA run,  *)
(* each rank through one termination_detector object.                      *)
(*                                                                         *)
(* The module models the detector (deficit, parent) and the calls the      *)
(* schedulers make to it: which rank may send a task, when a task or an    *)
(* acknowledgement is handled, and when a rank reports that it is passive. *)
(* What a scheduler does beside that - scores, assignment of idle workers, *)
(* mutexes - is in the modules SemiCentralized and Centralized.            *)
(*                                                                         *)
(* A task is followed from the moment it is sent to the moment its sender  *)
(* has counted the acknowledgement; then the identifier is free again.  So *)
(* Task bounds the tasks outstanding at the same time, not their number.   *)
(* Messages are delivered in any order, which covers the FIFO channels of  *)
(* the real transport.                                                     *)
(***************************************************************************)
EXTENDS Integers, FiniteSets

CONSTANTS
    Rank,       \* the MPI ranks
    Root,       \* the rank constructed with p_is_root (the center, rank 0)
    NoParent,   \* termination_detector::NO_PARENT
    Task        \* identifiers of outstanding tasks

ASSUME RootAssumption == Root \in Rank
ASSUME NoParentAssumption == NoParent \notin Rank

VARIABLES
    deficit,    \* m_deficit of each rank
    parent,     \* m_parent of each rank
    active,     \* the rank has local work: tasks on its pool, or (root) tasks to hand out
    phase,      \* where each task is between its sending and its acknowledgement
    source,     \* the rank that sent the task, NoParent while the task is free
    target,     \* the rank it was sent to, NoParent while the task is free
    terminated  \* the root left its loop and announces TERMINATION

vars == <<deficit, parent, active, phase, source, target, terminated>>

\* free:     not outstanding
\* sent:     a TASK message is in flight
\* engaging: received; the acknowledgement is deferred until the target is passive
\* acking:   a TASK_RECEIVED message is in flight
Phase == {"free", "sent", "engaging", "acking"}

TypeOK ==
    /\ deficit \in [Rank -> Nat]
    /\ parent \in [Rank -> Rank \cup {NoParent}]
    /\ active \in [Rank -> BOOLEAN]
    /\ phase \in [Task -> Phase]
    /\ source \in [Task -> Rank \cup {NoParent}]
    /\ target \in [Task -> Rank \cup {NoParent}]
    /\ terminated \in BOOLEAN

Worker == Rank \ {Root}

-----------------------------------------------------------------------------
(* The detector's operations on one rank *)

on_task_sent(r) == deficit' = [deficit EXCEPT ![r] = @ + 1]

\* A rank that must acknowledge on receipt.
acknowledges_now(r) == r = Root \/ parent[r] # NoParent

\* Mutant: the deferred acknowledgement is not held back by the deficit.
may_release_eagerly(r, d) == parent[r] # NoParent

\* on_passive() returns the parent, given that the deficit of r is d.
may_release(r, d) == d = 0 /\ parent[r] # NoParent

is_quiescent(r) == deficit[r] = 0 /\ parent[r] = NoParent

\* Mutant: on_passive() is not called after an acknowledgement.
NoRelease(r, released, d) ==
    /\ parent' = parent
    /\ phase' = released

\* release_parent_if_passive: r has just become passive, or has just counted an
\* acknowledgement while passive.  `released` is the phase function before the
\* release and d the deficit of r at that moment.
release_parent_if_passive(r, released, d) ==
    IF may_release(r, d)
    THEN /\ parent' = [parent EXCEPT ![r] = NoParent]
         /\ phase' = [t \in Task |-> IF released[t] = "engaging" /\ target[t] = r
                                     THEN "acking" ELSE released[t]]
    ELSE parent' = parent /\ phase' = released

-----------------------------------------------------------------------------
(* The schedulers' use of the detector *)

\* The root starts with the seed to hand out; nothing else is running.
Init ==
    /\ deficit = [r \in Rank |-> 0]
    /\ parent = [r \in Rank |-> NoParent]
    /\ active = [r \in Rank |-> r = Root]
    /\ phase = [t \in Task |-> "free"]
    /\ source = [t \in Task |-> NoParent]
    /\ target = [t \in Task |-> NoParent]
    /\ terminated = FALSE

\* A rank with work sends a task to another rank.  A worker goes on with its own
\* tasks; the root executes none, and has nothing left once it gave its last away.
SendTask(r, q, t) ==
    /\ active[r]
    /\ q # r
    /\ on_task_sent(r)
    /\ phase[t] = "free"
    /\ phase' = [phase EXCEPT ![t] = "sent"]
    /\ source' = [source EXCEPT ![t] = r]
    /\ target' = [target EXCEPT ![t] = q]
    /\ \/ active' = active
       \/ r = Root /\ active' = [active EXCEPT ![r] = FALSE]
    /\ UNCHANGED <<parent, terminated>>

\* Mutant: a task received while engaged replaces the parent.
ReceiveTaskReparenting(t) ==
    /\ phase[t] = "sent"
    /\ phase' = [phase EXCEPT ![t] = "engaging"]
    /\ parent' = [parent EXCEPT ![target[t]] = source[t]]
    /\ active' = [active EXCEPT ![target[t]] = TRUE]
    /\ UNCHANGED <<deficit, source, target, terminated>>

\* on_task_received: acknowledge now, or take the sender as parent.
ReceiveTask(t) ==
    /\ phase[t] = "sent"
    /\ LET r == target[t] IN
         /\ IF acknowledges_now(r)
            THEN /\ phase' = [phase EXCEPT ![t] = "acking"]
                 /\ parent' = parent
            ELSE /\ phase' = [phase EXCEPT ![t] = "engaging"]
                 /\ parent' = [parent EXCEPT ![r] = source[t]]
         /\ active' = [active EXCEPT ![r] = TRUE]
    /\ UNCHANGED <<deficit, source, target, terminated>>

\* on_ack_received, followed by on_passive when the rank has no work left.  With a
\* deficit of 0 the schedulers throw, so the step has no successor
\* (AckIsExpected shows that this never happens).
ReceiveAck(t) ==
    /\ phase[t] = "acking"
    /\ LET r == source[t]
           counted == [phase EXCEPT ![t] = "free"]
       IN  /\ deficit[r] > 0
           /\ deficit' = [deficit EXCEPT ![r] = @ - 1]
           /\ source' = [source EXCEPT ![t] = NoParent]
           /\ target' = [target EXCEPT ![t] = NoParent]
           /\ IF active[r]
              THEN parent' = parent /\ phase' = counted
              ELSE release_parent_if_passive(r, counted, deficit[r] - 1)
    /\ UNCHANGED <<active, terminated>>

\* A worker's pool has run dry: the tail of process_message.
BecomePassive(r) ==
    /\ r # Root
    /\ active[r]
    /\ active' = [active EXCEPT ![r] = FALSE]
    /\ release_parent_if_passive(r, phase, deficit[r])
    /\ UNCHANGED <<deficit, source, target, terminated>>

\* Mutant: the root trusts its deficit while it still has tasks to hand out.
TerminateEarly ==
    /\ ~terminated
    /\ deficit[Root] = 0
    /\ terminated' = TRUE
    /\ UNCHANGED <<deficit, parent, active, phase, source, target>>

\* The root leaves its receive loop.
Terminate ==
    /\ ~terminated
    /\ ~active[Root]
    /\ deficit[Root] = 0
    /\ terminated' = TRUE
    /\ UNCHANGED <<deficit, parent, active, phase, source, target>>

Next ==
    \/ \E r, q \in Rank, t \in Task : SendTask(r, q, t)
    \/ \E t \in Task : ReceiveTask(t)
    \/ \E t \in Task : ReceiveAck(t)
    \/ \E r \in Rank : BecomePassive(r)
    \/ Terminate

Spec == Init /\ [][Next]_vars

\* A rank that has a message to read reads it, and the root tests its exit
\* condition after every message: both are loops that never block elsewhere while
\* the rank is passive.  Nothing is assumed of the tasks: a computation may go on
\* for ever.
Fairness ==
    /\ \A t \in Task : WF_vars(ReceiveAck(t))
    /\ WF_vars(Terminate)

FairSpec == Spec /\ Fairness

-----------------------------------------------------------------------------
(* What the detector promises *)

\* Nothing is left to do: no rank computes and no task is on its way.
ComputationDone ==
    /\ \A r \in Rank : ~active[r]
    /\ \A t \in Task : phase[t] # "sent"

\* "the whole computation has terminated exactly when the root is passive and its
\* deficit is zero": the announced termination is a real one, and every detector is
\* then quiescent with no acknowledgement in flight - the condition whose failure
\* makes a worker throw in process_termination.
SafeTermination ==
    terminated =>
        /\ ComputationDone
        /\ \A r \in Rank : is_quiescent(r)
        /\ \A t \in Task : phase[t] = "free"

\* on_ack_received never returns false: whoever gets an acknowledgement still has an
\* open task, so neither the center nor a worker throws on TASK_RECEIVED.
AckIsExpected == \A t \in Task : phase[t] = "acking" => deficit[source[t]] > 0

\* A worker that computes, waits for acknowledgements or is about to is held in the
\* tree: it has a parent, and the parent still counts it.
ActiveIsEngaged ==
    \A r \in Worker :
        active[r] \/ deficit[r] > 0 =>
            parent[r] \in Rank /\ deficit[parent[r]] > 0

\* Once the computation is done the root finds out: the deferred acknowledgements
\* cascade up the tree of parents and none is forgotten.
TerminationDetected == ComputationDone ~> terminated

\* A terminated computation stays terminated: no rank resumes, no task appears.
StaysTerminated == [][terminated => terminated' /\ UNCHANGED <<active, phase>>]_vars

-----------------------------------------------------------------------------
(* The inductive invariant behind SafeTermination *)

\* The tasks of r whose acknowledgement r has not counted yet.
Outstanding(r) == {t \in Task : phase[t] # "free" /\ source[t] = r}

\* A rank's deficit is the number of its outstanding tasks.
DeficitCounts ==
    \A r \in Rank :
        /\ IsFiniteSet(Outstanding(r))
        /\ deficit[r] = Cardinality(Outstanding(r))

\* Every outstanding task has two different ends.
TaskEnds ==
    \A t \in Task : phase[t] # "free" =>
        /\ source[t] \in Rank
        /\ target[t] \in Rank
        /\ source[t] # target[t]

\* Deferred acknowledgements and parents are the same thing.
EngagedBy ==
    /\ parent[Root] = NoParent
    /\ \A t \in Task : phase[t] = "engaging" => parent[target[t]] = source[t]
    /\ \A r \in Rank : parent[r] # NoParent =>
         /\ \E t \in Task : phase[t] = "engaging" /\ target[t] = r /\ source[t] = parent[r]
         /\ \A t, u \in Task :
              phase[t] = "engaging" /\ target[t] = r /\ phase[u] = "engaging" /\ target[u] = r
                => t = u

\* A disengaged worker has nothing to wait for.
DisengagedIsQuiet == \A r \in Worker : parent[r] = NoParent => ~active[r] /\ deficit[r] = 0

\* The parents form a forest: in every set of engaged ranks some rank's parent is
\* outside the set.
Engaged == {r \in Rank : parent[r] # NoParent}
Acyclic == \A S \in SUBSET Engaged : S # {} => \E r \in S : parent[r] \notin S

\* The root announces termination only when it is passive and owed nothing.
TerminatedRoot == terminated => ~active[Root] /\ deficit[Root] = 0

IInv ==
    /\ TypeOK
    /\ DeficitCounts
    /\ TaskEnds
    /\ EngagedBy
    /\ DisengagedIsQuiet
    /\ Acyclic
    /\ TerminatedRoot
=============================================================================
