------------------- MODULE TerminationDetectionProofs -------------------
(***************************************************************************)
(* Proofs about TerminationDetection, for any set of ranks and any set of  *)
(* task identifiers.                                                       *)
(*                                                                         *)
(* SafeTermination is not inductive.  The invariant IInv adds what makes   *)
(* Dijkstra-Scholten work: a deficit is the number of outstanding tasks    *)
(* (DeficitCounts), a deferred acknowledgement is a parent (EngagedBy), a  *)
(* disengaged worker is quiet (DisengagedIsQuiet) and the parents form a   *)
(* forest (Acyclic, stated over sets of ranks so that no induction over    *)
(* the tree is needed).                                                    *)
(***************************************************************************)
EXTENDS TerminationDetection, FiniteSetTheorems, TLAPS

-----------------------------------------------------------------------------
(* Counting *)

\* A rank that has an outstanding task has a positive deficit.
LEMMA OutstandingPositive ==
    ASSUME DeficitCounts, NEW r \in Rank, NEW t \in Outstanding(r)
    PROVE  deficit[r] \in Nat /\ deficit[r] > 0
<1>1. IsFiniteSet(Outstanding(r)) /\ deficit[r] = Cardinality(Outstanding(r))
  BY DEF DeficitCounts
<1>2. Cardinality(Outstanding(r)) \in Nat
  BY <1>1, FS_CardinalityType
<1>3. Cardinality(Outstanding(r)) # 0
  BY <1>1, FS_EmptySet
<1> QED
  BY <1>1, <1>2, <1>3

\* The deficits follow a task that starts or stops being outstanding at its source.
LEMMA CountOne ==
    ASSUME NEW A, NEW B, NEW t, NEW n, IsFiniteSet(A), n = Cardinality(A)
    PROVE  /\ B = A \cup {t} /\ t \notin A => IsFiniteSet(B) /\ Cardinality(B) = n + 1
           /\ B = A \ {t} /\ t \in A => IsFiniteSet(B) /\ Cardinality(B) = n - 1
  BY FS_AddElement, FS_RemoveElement

-----------------------------------------------------------------------------
(* The initial states *)

\* The initial states, in which the root holds the seed and nothing is outstanding,
\* satisfy the invariant.
LEMMA InitIInv == Init => IInv
<1> SUFFICES ASSUME Init PROVE IInv
  OBVIOUS
<1>1. TypeOK
  BY RootAssumption DEF Init, TypeOK, Phase
<1>2. DeficitCounts
  <2>1. \A r \in Rank : Outstanding(r) = {}
    BY DEF Init, Outstanding
  <2> QED
    BY <2>1, FS_EmptySet DEF Init, DeficitCounts
<1>3. TaskEnds /\ EngagedBy /\ DisengagedIsQuiet /\ TerminatedRoot
  BY RootAssumption, NoParentAssumption
  DEF Init, TaskEnds, EngagedBy, DisengagedIsQuiet, TerminatedRoot, Worker
<1>4. Acyclic
  BY DEF Init, Acyclic, Engaged
<1> QED
  BY <1>1, <1>2, <1>3, <1>4 DEF IInv

-----------------------------------------------------------------------------
(* The invariant implies the properties *)

\* The parent of an engaged rank has an outstanding task, and is the root or itself
\* engaged.
LEMMA ParentIsEngaged ==
    ASSUME IInv, NEW r \in Rank, parent[r] # NoParent
    PROVE  /\ parent[r] \in Rank
           /\ deficit[parent[r]] > 0
           /\ parent[r] = Root \/ parent[parent[r]] # NoParent
<1>1. PICK t \in Task : phase[t] = "engaging" /\ target[t] = r /\ source[t] = parent[r]
  BY DEF IInv, EngagedBy
<1>2. parent[r] \in Rank
  BY <1>1 DEF IInv, TypeOK
<1>3. t \in Outstanding(parent[r])
  BY <1>1 DEF Outstanding
<1>4. deficit[parent[r]] > 0
  BY <1>2, <1>3, OutstandingPositive DEF IInv
<1> QED
  BY <1>2, <1>4 DEF IInv, DisengagedIsQuiet, Worker

\* If the root is owed nothing, the tree of engaged ranks is empty.
LEMMA NobodyEngaged ==
    ASSUME IInv, deficit[Root] = 0
    PROVE  Engaged = {}
<1> SUFFICES ASSUME Engaged # {} PROVE FALSE
  OBVIOUS
<1>1. PICK r \in Engaged : parent[r] \notin Engaged
  BY DEF IInv, Acyclic
<1>2. r \in Rank /\ parent[r] # NoParent
  BY <1>1 DEF Engaged
<1>3. parent[r] = Root /\ deficit[Root] > 0
  BY <1>1, <1>2, ParentIsEngaged DEF Engaged
<1> QED
  BY <1>3

\* When the passive root is owed nothing the computation is over: no rank is engaged,
\* so no rank works and no task is outstanding.
LEMMA RootKnows ==
    ASSUME IInv, ~active[Root], deficit[Root] = 0
    PROVE  /\ \A r \in Rank : ~active[r] /\ deficit[r] = 0 /\ parent[r] = NoParent
           /\ \A t \in Task : phase[t] = "free"
<1>1. \A r \in Rank : parent[r] = NoParent
  BY NobodyEngaged DEF Engaged
<1>2. \A r \in Rank : ~active[r] /\ deficit[r] = 0
  BY <1>1 DEF IInv, DisengagedIsQuiet, Worker
<1>3. ASSUME NEW t \in Task, phase[t] # "free" PROVE FALSE
  <2>1. source[t] \in Rank /\ t \in Outstanding(source[t])
    BY <1>3 DEF IInv, TaskEnds, Outstanding
  <2>2. deficit[source[t]] > 0
    BY <2>1, OutstandingPositive DEF IInv
  <2> QED
    BY <1>2, <2>1, <2>2
<1> QED
  BY <1>1, <1>2, <1>3

\* The inductive invariant implies the safety properties of the detectors.
LEMMA IInvSafe == IInv => SafeTermination /\ AckIsExpected /\ ActiveIsEngaged
<1> SUFFICES ASSUME IInv PROVE SafeTermination /\ AckIsExpected /\ ActiveIsEngaged
  OBVIOUS
<1>1. SafeTermination
  <2> SUFFICES ASSUME terminated
               PROVE  /\ \A r \in Rank : ~active[r] /\ deficit[r] = 0 /\ parent[r] = NoParent
                      /\ \A t \in Task : phase[t] = "free"
    BY DEF SafeTermination, ComputationDone, is_quiescent
  <2> QED
    BY RootKnows DEF IInv, TerminatedRoot
<1>2. AckIsExpected
  <2> SUFFICES ASSUME NEW t \in Task, phase[t] = "acking" PROVE deficit[source[t]] > 0
    BY DEF AckIsExpected
  <2>1. source[t] \in Rank /\ t \in Outstanding(source[t])
    BY DEF IInv, TaskEnds, Outstanding
  <2> QED
    BY <2>1, OutstandingPositive DEF IInv
<1>3. ActiveIsEngaged
  <2> SUFFICES ASSUME NEW r \in Worker, active[r] \/ deficit[r] > 0
               PROVE  parent[r] \in Rank /\ deficit[parent[r]] > 0
    BY DEF ActiveIsEngaged
  <2>1. r \in Rank /\ parent[r] # NoParent
    BY DEF IInv, DisengagedIsQuiet, Worker, TypeOK
  <2> QED
    BY <2>1, ParentIsEngaged
<1> QED
  BY <1>1, <1>2, <1>3

-----------------------------------------------------------------------------
(* Every action preserves the invariant *)

\* As long as no parent changes, the forest stays a forest.
LEMMA AcyclicStable ==
    ASSUME Acyclic, parent' = parent
    PROVE  Acyclic'
  BY DEF Acyclic, Engaged

\* on_task_sent: a new task is outstanding at its source and in flight.
LEMMA SendTaskStep ==
    ASSUME IInv, NEW r \in Rank, NEW q \in Rank, NEW t \in Task, SendTask(r, q, t)
    PROVE  IInv'
<1> USE DEF SendTask, on_task_sent
<1>1. TypeOK'
  <2>1. active' \in [Rank -> BOOLEAN]
    <3>1. active \in [Rank -> BOOLEAN]
      BY DEF IInv, TypeOK
    <3>2. active' = active \/ active' = [active EXCEPT ![r] = FALSE]
      OBVIOUS
    <3> QED
      BY ONLY <3>1, <3>2
  <2>2. deficit' \in [Rank -> Nat] /\ parent' \in [Rank -> Rank \cup {NoParent}]
    BY DEF IInv, TypeOK
  <2>3. /\ phase' \in [Task -> Phase]
        /\ source' \in [Task -> Rank \cup {NoParent}]
        /\ target' \in [Task -> Rank \cup {NoParent}]
    BY DEF IInv, TypeOK, Phase
  <2>4. terminated' \in BOOLEAN
    BY DEF IInv, TypeOK
  <2> QED
    BY <2>1, <2>2, <2>3, <2>4 DEF TypeOK
<1>2. DeficitCounts'
  <2> SUFFICES ASSUME NEW x \in Rank
               PROVE  IsFiniteSet(Outstanding(x)') /\ deficit'[x] = Cardinality(Outstanding(x)')
    BY DEF DeficitCounts
  <2>1. IsFiniteSet(Outstanding(x)) /\ deficit[x] = Cardinality(Outstanding(x))
    BY DEF IInv, DeficitCounts
  <2>2. CASE x = r
    <3>1. Outstanding(x)' = Outstanding(x) \cup {t} /\ t \notin Outstanding(x)
      BY <2>2 DEF IInv, TypeOK, Outstanding
    <3> QED
      BY <2>1, <2>2, <3>1, CountOne DEF IInv, TypeOK
  <2>3. CASE x # r
    <3>1. Outstanding(x)' = Outstanding(x)
      BY <2>3 DEF IInv, TypeOK, Outstanding
    <3> QED
      BY <2>1, <2>3, <3>1 DEF IInv, TypeOK
  <2> QED
    BY <2>2, <2>3
<1>3. TaskEnds'
  BY DEF IInv, TypeOK, TaskEnds
<1>4. EngagedBy'
  BY DEF IInv, TypeOK, EngagedBy
<1>5. DisengagedIsQuiet'
  BY DEF IInv, TypeOK, DisengagedIsQuiet, Worker
<1>6. Acyclic'
  BY AcyclicStable DEF IInv
<1>7. TerminatedRoot'
  BY IInvSafe DEF IInv, TypeOK, TerminatedRoot, SafeTermination, ComputationDone
<1> QED
  BY <1>1, <1>2, <1>3, <1>4, <1>5, <1>6, <1>7 DEF IInv

\* on_task_received: the task is acknowledged at once, or the receiver - until now
\* outside the tree - becomes a leaf below the sender.
LEMMA ReceiveTaskStep ==
    ASSUME IInv, NEW t \in Task, ReceiveTask(t)
    PROVE  IInv'
<1> DEFINE r == target[t]
<1> USE DEF ReceiveTask
<1>1. r \in Rank /\ source[t] \in Rank /\ source[t] # r
  BY DEF IInv, TypeOK, TaskEnds
<1>2. TypeOK'
  BY <1>1 DEF IInv, TypeOK, Phase
<1>3. DeficitCounts'
  <2>1. \A x \in Rank : Outstanding(x)' = Outstanding(x)
    BY DEF IInv, TypeOK, Outstanding
  <2> QED
    BY <2>1 DEF IInv, DeficitCounts
<1>4. TaskEnds'
  BY DEF IInv, TypeOK, TaskEnds
<1>5. TerminatedRoot'
  <2>1. ~terminated
    BY IInvSafe DEF SafeTermination
  <2> QED
    BY <2>1 DEF TerminatedRoot
<1>6. CASE acknowledges_now(r)
  <2>1. EngagedBy'
    BY <1>1, <1>6 DEF IInv, TypeOK, EngagedBy
  <2>2. DisengagedIsQuiet'
    BY <1>1, <1>6 DEF IInv, TypeOK, DisengagedIsQuiet, Worker, acknowledges_now
  <2>3. Acyclic'
    BY <1>6, AcyclicStable DEF IInv
  <2> QED
    BY <1>2, <1>3, <1>4, <1>5, <2>1, <2>2, <2>3 DEF IInv
<1>7. CASE ~acknowledges_now(r)
  <2>1. /\ r # Root /\ parent[r] = NoParent
        /\ parent' = [parent EXCEPT ![r] = source[t]]
        /\ phase' = [phase EXCEPT ![t] = "engaging"]
    BY <1>7 DEF acknowledges_now
  <2>2. EngagedBy'
    <3>1. \A u \in Task : phase[u] = "engaging" => target[u] # r
      BY <2>1, NoParentAssumption DEF IInv, EngagedBy, TaskEnds
    <3>2. parent'[Root] = NoParent
      BY <2>1, RootAssumption DEF IInv, TypeOK, EngagedBy
    <3>3. ASSUME NEW u \in Task, phase'[u] = "engaging"
          PROVE  parent'[target'[u]] = source'[u]
      BY <1>1, <2>1, <3>1, <3>3 DEF IInv, TypeOK, EngagedBy, TaskEnds
    <3>4. ASSUME NEW x \in Rank, parent'[x] # NoParent
          PROVE  /\ \E u \in Task : phase'[u] = "engaging" /\ target'[u] = x /\ source'[u] = parent'[x]
                 /\ \A u, v \in Task :
                      phase'[u] = "engaging" /\ target'[u] = x /\ phase'[v] = "engaging" /\ target'[v] = x
                        => u = v
      <4>1. CASE x = r
        BY <1>1, <2>1, <3>1, <4>1 DEF IInv, TypeOK
      <4>2. CASE x # r
        BY <1>1, <2>1, <3>1, <3>4, <4>2 DEF IInv, TypeOK, EngagedBy
      <4> QED
        BY <4>1, <4>2
    <3> QED
      BY <3>2, <3>3, <3>4 DEF EngagedBy
  <2>3. DisengagedIsQuiet'
    BY <1>1, <2>1, NoParentAssumption DEF IInv, TypeOK, DisengagedIsQuiet, Worker
  <2>4. Acyclic'
    <3> SUFFICES ASSUME NEW S \in SUBSET Engaged', S # {}
                 PROVE  \E x \in S : parent'[x] \notin S
      BY DEF Acyclic
    <3>1. \A x \in Engaged : x # r /\ parent[x] # r /\ parent'[x] = parent[x]
      BY <1>1, <2>1, ParentIsEngaged DEF Engaged, IInv, TypeOK
    <3>2. S \ {r} \in SUBSET Engaged
      BY <1>1, <2>1 DEF Engaged, IInv, TypeOK
    <3>3. CASE S \ {r} # {}
      <4>1. PICK x \in S \ {r} : parent[x] \notin S \ {r}
        BY <3>2, <3>3 DEF IInv, Acyclic
      <4> QED
        BY <3>1, <3>2, <4>1
    <3>4. CASE S \ {r} = {}
      BY <1>1, <2>1, <3>4 DEF IInv, TypeOK
    <3> QED
      BY <3>3, <3>4
  <2> QED
    BY <1>2, <1>3, <1>4, <1>5, <2>2, <2>3, <2>4 DEF IInv
<1> QED
  BY <1>6, <1>7

\* What a release does to the invariant's parts, whoever calls it: `released` is the
\* phase function after the caller's own change, which made no task engaging.
LEMMA ReleaseStep ==
    ASSUME IInv, NEW r \in Rank, NEW released \in [Task -> Phase], NEW d,
           \A t \in Task : released[t] = "engaging" <=> phase[t] = "engaging",
           release_parent_if_passive(r, released, d)
    PROVE  /\ parent' \in [Rank -> Rank \cup {NoParent}]
           /\ phase' \in [Task -> Phase]
           /\ \A t \in Task : phase'[t] = "free" <=> released[t] = "free"
           /\ Acyclic'
           /\ \A t \in Task : phase'[t] = "engaging" =>
                phase[t] = "engaging" /\ parent'[target[t]] = source[t]
           /\ \A x \in Rank : parent'[x] # NoParent =>
                /\ parent'[x] = parent[x]
                /\ \A t \in Task : target[t] = x =>
                     (phase'[t] = "engaging" <=> phase[t] = "engaging")
           /\ \A x \in Rank : parent'[x] = NoParent => parent[x] = NoParent \/ (x = r /\ d = 0)
<1>1. CASE ~may_release(r, d)
  <2>1. parent' = parent /\ phase' = released
    BY <1>1 DEF release_parent_if_passive
  <2> QED
    BY <2>1, AcyclicStable DEF IInv, TypeOK, EngagedBy
<1>2. CASE may_release(r, d)
  <2>1. /\ d = 0 /\ parent[r] # NoParent
        /\ parent' = [parent EXCEPT ![r] = NoParent]
        /\ phase' = [t \in Task |-> IF released[t] = "engaging" /\ target[t] = r
                                    THEN "acking" ELSE released[t]]
    BY <1>2 DEF release_parent_if_passive, may_release
  <2>2. Acyclic'
    <3>1. /\ Engaged' \in SUBSET Engaged
          /\ \A x \in Engaged' : parent'[x] = parent[x]
      BY <2>1 DEF IInv, TypeOK, Engaged
    <3>2. \A S \in SUBSET Engaged' : S # {} => \E x \in S : parent'[x] \notin S
      BY <3>1 DEF IInv, Acyclic
    <3> QED
      BY <3>2 DEF Acyclic
  <2>3. parent' \in [Rank -> Rank \cup {NoParent}] /\ phase' \in [Task -> Phase]
    BY <2>1 DEF IInv, TypeOK, Phase
  <2>4. \A t \in Task : phase'[t] = "free" <=> released[t] = "free"
    BY <2>1
  <2>5. ASSUME NEW t \in Task, phase'[t] = "engaging"
        PROVE  phase[t] = "engaging" /\ parent'[target[t]] = source[t]
    BY <2>1, <2>5 DEF IInv, TypeOK, EngagedBy, TaskEnds
  <2>6. ASSUME NEW x \in Rank, parent'[x] # NoParent
        PROVE  /\ parent'[x] = parent[x]
               /\ \A t \in Task : target[t] = x =>
                    (phase'[t] = "engaging" <=> phase[t] = "engaging")
    BY <2>1, <2>6 DEF IInv, TypeOK
  <2>7. ASSUME NEW x \in Rank, parent'[x] = NoParent
        PROVE  parent[x] = NoParent \/ (x = r /\ d = 0)
    BY <2>1, <2>7 DEF IInv, TypeOK
  <2> QED
    BY <2>2, <2>3, <2>4, <2>5, <2>6, <2>7
<1> QED
  BY <1>1, <1>2

\* A worker's pool runs dry: it stays in the tree while tasks of its own are
\* outstanding, and leaves it otherwise.
LEMMA BecomePassiveStep ==
    ASSUME IInv, NEW r \in Rank, BecomePassive(r)
    PROVE  IInv'
<1>1. /\ r # Root
      /\ active' = [active EXCEPT ![r] = FALSE]
      /\ release_parent_if_passive(r, phase, deficit[r])
      /\ deficit' = deficit /\ source' = source /\ target' = target /\ terminated' = terminated
  BY DEF BecomePassive
<1>2. /\ parent' \in [Rank -> Rank \cup {NoParent}]
      /\ phase' \in [Task -> Phase]
      /\ \A t \in Task : phase'[t] = "free" <=> phase[t] = "free"
      /\ Acyclic'
      /\ \A t \in Task : phase'[t] = "engaging" =>
           phase[t] = "engaging" /\ parent'[target[t]] = source[t]
      /\ \A x \in Rank : parent'[x] # NoParent =>
           /\ parent'[x] = parent[x]
           /\ \A t \in Task : target[t] = x =>
                (phase'[t] = "engaging" <=> phase[t] = "engaging")
      /\ \A x \in Rank : parent'[x] = NoParent =>
           parent[x] = NoParent \/ (x = r /\ deficit[r] = 0)
  BY <1>1, ReleaseStep DEF IInv, TypeOK
<1>3. TypeOK'
  BY <1>1, <1>2 DEF IInv, TypeOK
<1>4. DeficitCounts'
  <2>1. \A x \in Rank : Outstanding(x)' = Outstanding(x)
    BY <1>1, <1>2 DEF Outstanding
  <2> QED
    BY <1>1, <2>1 DEF IInv, DeficitCounts
<1>5. TaskEnds'
  BY <1>1, <1>2 DEF IInv, TaskEnds
<1>6. EngagedBy'
  BY <1>1, <1>2, RootAssumption DEF IInv, EngagedBy
<1>7. DisengagedIsQuiet'
  BY <1>1, <1>2 DEF IInv, TypeOK, DisengagedIsQuiet, Worker
<1>8. TerminatedRoot'
  BY <1>1, RootAssumption DEF IInv, TypeOK, TerminatedRoot
<1> QED
  BY <1>2, <1>3, <1>4, <1>5, <1>6, <1>7, <1>8 DEF IInv

\* on_ack_received: one outstanding task less at its source, which leaves the tree if
\* it is passive and that was the last.
LEMMA ReceiveAckStep ==
    ASSUME IInv, NEW t \in Task, ReceiveAck(t)
    PROVE  IInv'
<1> DEFINE r == source[t]
           counted == [phase EXCEPT ![t] = "free"]
<1>1. /\ phase[t] = "acking"
      /\ deficit' = [deficit EXCEPT ![r] = @ - 1]
      /\ source' = [source EXCEPT ![t] = NoParent]
      /\ target' = [target EXCEPT ![t] = NoParent]
      /\ active' = active /\ terminated' = terminated
  BY DEF ReceiveAck
<1>2. r \in Rank /\ deficit[r] \in Nat /\ deficit[r] > 0
  BY <1>1, IInvSafe DEF IInv, TypeOK, TaskEnds, AckIsExpected
<1>3. /\ counted \in [Task -> Phase]
      /\ \A u \in Task : counted[u] = "engaging" <=> phase[u] = "engaging"
      /\ \A u \in Task : counted[u] = "free" <=> phase[u] = "free" \/ u = t
  BY <1>1 DEF IInv, TypeOK, Phase
<1>4. /\ parent' \in [Rank -> Rank \cup {NoParent}]
      /\ phase' \in [Task -> Phase]
      /\ \A u \in Task : phase'[u] = "free" <=> counted[u] = "free"
      /\ Acyclic'
      /\ \A u \in Task : phase'[u] = "engaging" =>
           phase[u] = "engaging" /\ parent'[target[u]] = source[u]
      /\ \A x \in Rank : parent'[x] # NoParent =>
           /\ parent'[x] = parent[x]
           /\ \A u \in Task : target[u] = x =>
                (phase'[u] = "engaging" <=> phase[u] = "engaging")
      /\ \A x \in Rank : parent'[x] = NoParent =>
           parent[x] = NoParent \/ (x = r /\ deficit[r] - 1 = 0 /\ ~active[r])
  <2>1. CASE active[r]
    <3>1. parent' = parent /\ phase' = counted
      BY <2>1 DEF ReceiveAck
    <3> HIDE DEF counted
    <3> QED
      BY <1>3, <3>1, AcyclicStable DEF IInv, TypeOK, EngagedBy
  <2>2. CASE ~active[r]
    <3>1. release_parent_if_passive(r, counted, deficit[r] - 1)
      BY <2>2 DEF ReceiveAck
    <3> HIDE DEF counted
    <3> QED
      BY <1>2, <1>3, <2>2, <3>1, ReleaseStep
  <2> QED
    BY <2>1, <2>2
<1> HIDE DEF counted
<1>5. TypeOK'
  <2>1. deficit' \in [Rank -> Nat]
    BY <1>1, <1>2 DEF IInv, TypeOK
  <2>2. source' \in [Task -> Rank \cup {NoParent}] /\ target' \in [Task -> Rank \cup {NoParent}]
    BY <1>1 DEF IInv, TypeOK
  <2>3. active' \in [Rank -> BOOLEAN] /\ terminated' \in BOOLEAN
    BY <1>1 DEF IInv, TypeOK
  <2> QED
    BY <1>4, <2>1, <2>2, <2>3 DEF TypeOK
<1>6. DeficitCounts'
  <2> SUFFICES ASSUME NEW x \in Rank
               PROVE  IsFiniteSet(Outstanding(x)') /\ deficit'[x] = Cardinality(Outstanding(x)')
    BY DEF DeficitCounts
  <2>1. IsFiniteSet(Outstanding(x)) /\ deficit[x] = Cardinality(Outstanding(x))
    BY DEF IInv, DeficitCounts
  <2>2. CASE x = r
    <3>1. Outstanding(x)' = Outstanding(x) \ {t} /\ t \in Outstanding(x)
      BY <1>1, <1>2, <1>3, <1>4, <2>2, NoParentAssumption DEF IInv, TypeOK, Outstanding
    <3>2. deficit'[x] = deficit[x] - 1
      BY <1>1, <1>2, <2>2 DEF IInv, TypeOK
    <3> QED
      BY <2>1, <3>1, <3>2, CountOne
  <2>3. CASE x # r
    <3>1. Outstanding(x)' = Outstanding(x)
      BY <1>1, <1>3, <1>4, <2>3, NoParentAssumption DEF IInv, TypeOK, Outstanding
    <3>2. deficit'[x] = deficit[x]
      BY <1>1, <2>3 DEF IInv, TypeOK
    <3> QED
      BY <2>1, <3>1, <3>2
  <2> QED
    BY <2>2, <2>3
<1>7. TaskEnds'
  BY <1>1, <1>3, <1>4 DEF IInv, TypeOK, TaskEnds
<1>8. EngagedBy'
  <2>1. \A u \in Task : phase'[u] = "engaging" => u # t
    BY <1>1, <1>4
  <2>2. \A u \in Task : u # t => source'[u] = source[u] /\ target'[u] = target[u]
    BY <1>1 DEF IInv, TypeOK
  <2>3. parent'[Root] = NoParent
    BY <1>4, RootAssumption DEF IInv, EngagedBy
  <2>4. \A u \in Task : phase'[u] = "engaging" => parent'[target'[u]] = source'[u]
    BY <1>4, <2>1, <2>2
  <2>5. ASSUME NEW x \in Rank, parent'[x] # NoParent
        PROVE  /\ \E u \in Task : phase'[u] = "engaging" /\ target'[u] = x /\ source'[u] = parent'[x]
               /\ \A u, v \in Task :
                    phase'[u] = "engaging" /\ target'[u] = x /\ phase'[v] = "engaging" /\ target'[v] = x
                      => u = v
    BY <1>1, <1>4, <2>1, <2>2, <2>5 DEF IInv, EngagedBy
  <2> QED
    BY <2>3, <2>4, <2>5 DEF EngagedBy
<1>9. DisengagedIsQuiet'
  BY <1>1, <1>2, <1>4 DEF IInv, TypeOK, DisengagedIsQuiet, Worker
<1>10. TerminatedRoot'
  BY <1>1, IInvSafe DEF TerminatedRoot, SafeTermination
<1> QED
  BY <1>4, <1>5, <1>6, <1>7, <1>8, <1>9, <1>10 DEF IInv

\* Leaving the root's loop changes nothing but the announcement.
LEMMA TerminateStep ==
    ASSUME IInv, Terminate
    PROVE  IInv'
<1>1. UNCHANGED <<deficit, parent, active, phase, source, target>>
  BY DEF Terminate
<1>2. TypeOK' /\ TerminatedRoot'
  BY DEF Terminate, IInv, TypeOK, TerminatedRoot
<1>3. DeficitCounts' /\ TaskEnds' /\ EngagedBy' /\ DisengagedIsQuiet' /\ Acyclic'
  BY <1>1, AcyclicStable
  DEF IInv, DeficitCounts, Outstanding, TaskEnds, EngagedBy, DisengagedIsQuiet
<1> QED
  BY <1>2, <1>3 DEF IInv

\* A step that changes none of the variables preserves the invariant.
LEMMA StutterStep ==
    ASSUME IInv, UNCHANGED vars
    PROVE  IInv'
  BY AcyclicStable
  DEF vars, IInv, TypeOK, DeficitCounts, Outstanding, TaskEnds, EngagedBy,
      DisengagedIsQuiet, TerminatedRoot

\* Every step preserves the invariant.
LEMMA NextIInv == IInv /\ [Next]_vars => IInv'
<1> SUFFICES ASSUME IInv, [Next]_vars PROVE IInv'
  OBVIOUS
<1>1. CASE \E r, q \in Rank, t \in Task : SendTask(r, q, t)
  BY <1>1, SendTaskStep
<1>2. CASE \E t \in Task : ReceiveTask(t)
  BY <1>2, ReceiveTaskStep
<1>3. CASE \E t \in Task : ReceiveAck(t)
  BY <1>3, ReceiveAckStep
<1>4. CASE \E r \in Rank : BecomePassive(r)
  BY <1>4, BecomePassiveStep
<1>5. CASE Terminate
  BY <1>5, TerminateStep
<1>6. CASE UNCHANGED vars
  BY <1>6, StutterStep
<1> QED
  BY <1>1, <1>2, <1>3, <1>4, <1>5, <1>6 DEF Next

-----------------------------------------------------------------------------
(* The theorems *)

\* Every reachable state of the detectors satisfies the inductive invariant.
THEOREM Invariant == Spec => []IInv
  BY InitIInv, NextIInv, PTL DEF Spec

\* The termination the root announces is a real one: nothing runs, nothing is in
\* flight and every detector is quiescent (termination_detector, class comment).
THEOREM Safety == Spec => []SafeTermination
  BY Invariant, IInvSafe, PTL

\* No rank receives an acknowledgement it does not wait for, so the throw on
\* TASK_RECEIVED is never reached.
THEOREM NoUnexpectedAck == Spec => []AckIsExpected
  BY Invariant, IInvSafe, PTL

\* A worker that has work or is owed an acknowledgement is in the tree.
THEOREM WorkersAreHeld == Spec => []ActiveIsEngaged
  BY Invariant, IInvSafe, PTL

\* After the announcement no rank resumes and no task appears.
THEOREM Stability == Spec => StaysTerminated
<1>1. ASSUME IInv, [Next]_vars
      PROVE  [terminated => terminated' /\ UNCHANGED <<active, phase>>]_vars
  <2> SUFFICES ASSUME Next, terminated
               PROVE  terminated' /\ UNCHANGED <<active, phase>>
    BY <1>1
  <2>1. /\ \A r \in Rank : ~active[r]
        /\ \A t \in Task : phase[t] = "free"
    BY <1>1, IInvSafe DEF SafeTermination, ComputationDone
  <2> QED
    BY <2>1 DEF Next, SendTask, ReceiveTask, ReceiveAck, BecomePassive, Terminate
<1> QED
  BY <1>1, Invariant, PTL DEF Spec, StaysTerminated
=============================================================================
