----------------------- MODULE SemiCentralizedProofs -----------------------
(***************************************************************************)
(* Proofs about the semi-centralized scheduler, for any number of ranks    *)
(* and tasks, any initial tree in which no rank has two parents, any set   *)
(* of scores and both ways MPI_Send may behave.                            *)
(*                                                                         *)
(* IInv (SemiCentralized) is inductive. It is SafetyInv, what the ranks    *)
(* owe each other, and BestInv, where the best result is.                  *)
(*                                                                         *)
(* The heart of SafetyInv is DetectorInv: the deficit of a rank is what is *)
(* owed to it (Owed), a worker without a parent is idle and owed nothing,  *)
(* and the parents contain no circle (Acyclic). From this lemma Quiet      *)
(* derives that nobody works and no task travels once the center's deficit *)
(* is 0: if ranks had parents, one of them had a parent outside of them,   *)
(* which is the center or a rank without parent, and to neither is         *)
(* anything owed. The center counts only the seed, and never sees the      *)
(* tasks workers send each other; this is why the absence of circles must  *)
(* be carried along.                                                       *)
(*                                                                         *)
(* The other parts are what the actions need besides it: what the threads  *)
(* of a worker know of each other (WorkerInv), that a worker is never      *)
(* given itself (TargetInv, which needs TreeInv), what the center's phase  *)
(* says (PhaseInv), where messages go (RouteInv), that nothing sent by the *)
(* center is lost (StreamInv), that every task is somewhere (TaskInv).     *)
(*                                                                         *)
(* Each action has a lemma <action>Next that it keeps SafetyInv. What      *)
(* several actions do is proved once: Reading, Releasing, Updating,        *)
(* Released, StateRead, CenterReads. The ...Frame lemmas say which         *)
(* variables a part of SafetyInv is about.                                 *)
(*                                                                         *)
(* BestInv follows the best result. No score in the system is better than  *)
(* the best one found (BoundInv), so the worker that holds it (HolderInv)  *)
(* never discards it in update_score; when it leaves task_funneling the    *)
(* center's score is the best one or its proposal waits (SettledInv); and  *)
(* what is sent to and collected by the center is what the workers hold    *)
(* (SolutionInv). Most steps touch none of this (Silent); the others have  *)
(* a lemma <action>Best.                                                   *)
(***************************************************************************)
EXTENDS SemiCentralized, ChannelTheorems, SequenceTheorems, WellFoundedInduction

USE DEF detectorVars, mainVars, channelVars, managerVars, centerVars, sentVars, receivedVars,
        countVars, netVars, historyVars

\* The ranks of a world of at least two processes, and the channels between them.
LEMMA Ranks ==
    /\ IsFiniteSet(Worker) /\ Worker \subseteq Nat \ {0} /\ Center \notin Worker /\ 1 \in Worker
    /\ Rank = {Center} \cup Worker /\ Seed \in Task /\ WorldSize - 1 \in Worker
    /\ None \notin Rank /\ IsFiniteSet(Rank) /\ IsFiniteSet(Rank \X Rank)
<1>1. WorldSize - 1 \in Nat /\ WorldSize - 1 >= 1
  BY WorldSizeAssumption
<1>2. IsFiniteSet(Worker)
  BY <1>1, FS_Interval DEF Worker
<1>3. IsFiniteSet(Rank)
  BY <1>2, FS_AddElement DEF Rank
<1>4. IsFiniteSet(Rank \X Rank)
  BY <1>3, FS_Product
<1> QED
  BY <1>1, <1>2, <1>3, <1>4, MaxTasksAssumption DEF Worker, Center, Rank, Seed, Task, None

\* The messages the ranks exchange, and what a message with a tag carries.
LEMMA MessageTypes ==
    /\ Msg("RUNNING_STATE") \in WorldMsg /\ Msg("RUNNING_STATE").tag = "RUNNING_STATE"
    /\ Msg("AVAILABLE_STATE") \in WorldMsg /\ Msg("AVAILABLE_STATE").tag = "AVAILABLE_STATE"
    /\ Msg("NO_RESULT") \in WorldMsg /\ Msg("NO_RESULT").tag = "NO_RESULT"
    /\ \A t \in Task : TaskMsg(t) \in WorldMsg /\ AckMsg(t) \in WorldMsg
    /\ \A t : TaskMsg(t).tag = "TASK" /\ TaskMsg(t).task = t /\ AckMsg(t).tag = "TASK_RECEIVED"
    /\ \A m \in WorldMsg : m.tag = "TASK" => m.task \in Task /\ m = TaskMsg(m.task)
    /\ \A m \in WorldMsg : m.tag = "TERMINATION" => m.counts \in Nat \X Nat
    /\ \A m \in WorldMsg : m.tag \in {"RUNNING_STATE", "AVAILABLE_STATE", "NO_RESULT", "TASK",
                                      "TASK_RECEIVED", "HAS_RESULT", "TERMINATION"}
<1>1. ASSUME NEW m \in WorldMsg, m.tag = "TASK"
      PROVE  m.task \in Task /\ m = TaskMsg(m.task)
  BY <1>1 DEF WorldMsg, TaskMsg
<1>2. ASSUME NEW m \in WorldMsg, m.tag = "TERMINATION" PROVE m.counts \in Nat \X Nat
  BY <1>2 DEF WorldMsg
<1>3. \A t \in Task : TaskMsg(t) \in WorldMsg /\ AckMsg(t) \in WorldMsg
  BY DEF WorldMsg, TaskMsg, AckMsg
<1>4. \A t : TaskMsg(t).tag = "TASK" /\ TaskMsg(t).task = t /\ AckMsg(t).tag = "TASK_RECEIVED"
  BY DEF TaskMsg, AckMsg
<1>5. /\ Msg("RUNNING_STATE") \in WorldMsg /\ Msg("RUNNING_STATE").tag = "RUNNING_STATE"
      /\ Msg("AVAILABLE_STATE") \in WorldMsg /\ Msg("AVAILABLE_STATE").tag = "AVAILABLE_STATE"
      /\ Msg("NO_RESULT") \in WorldMsg /\ Msg("NO_RESULT").tag = "NO_RESULT"
  BY DEF Msg, WorldMsg
<1>6. \A m \in WorldMsg : m.tag \in {"RUNNING_STATE", "AVAILABLE_STATE", "NO_RESULT", "TASK",
                                     "TASK_RECEIVED", "HAS_RESULT", "TERMINATION"}
  BY DEF WorldMsg
<1> QED
  BY <1>1, <1>2, <1>3, <1>4, <1>5, <1>6

-----------------------------------------------------------------------------
(* What is owed to a rank, and the moves that change it *)

World == Net(Rank \X Rank, WorldMsg)
Parents == [Rank -> Rank \cup {None}]

\* Sending a message from one rank to another puts it there and nothing else anywhere.
LEMMA WorldPost ==
    ASSUME NEW net \in World, NEW s \in Rank, NEW d \in Rank, NEW m \in WorldMsg
    PROVE  /\ Post(net, <<s, d>>, m) \in World
           /\ \A p, q \in Rank : \A x : x \in Messages(Post(net, <<s, d>>, m), <<p, q>>) <=>
                x \in Messages(net, <<p, q>>) \/ (p = s /\ q = d /\ x = m)
<1>1. \A p, q \in Rank : <<p, q>> \in Rank \X Rank /\ (<<p, q>> = <<s, d>> <=> p = s /\ q = d)
  OBVIOUS
<1> QED
  BY <1>1, PostIn DEF World

\* Receiving a message takes nothing but that message away.
LEMMA WorldDrop ==
    ASSUME NEW net \in World, NEW s \in Rank, NEW d \in Rank, net[<<s, d>>] # <<>>
    PROVE  /\ Drop(net, <<s, d>>) \in World
           /\ Head(net[<<s, d>>]) \in WorldMsg
           /\ Head(net[<<s, d>>]) \in Messages(net, <<s, d>>)
           /\ \A p, q \in Rank : \A x :
                /\ x \in Messages(Drop(net, <<s, d>>), <<p, q>>) => x \in Messages(net, <<p, q>>)
                /\ x \in Messages(net, <<p, q>>) =>
                     \/ x \in Messages(Drop(net, <<s, d>>), <<p, q>>)
                     \/ p = s /\ q = d /\ x = Head(net[<<s, d>>])
<1>1. \A p, q \in Rank : <<p, q>> \in Rank \X Rank /\ (<<p, q>> = <<s, d>> <=> p = s /\ q = d)
  OBVIOUS
<1>2. Head(net[<<s, d>>]) \in WorldMsg /\ Head(net[<<s, d>>]) \in Messages(net, <<s, d>>)
  BY <1>1, MessagesType DEF World
<1> QED
  BY <1>1, <1>2, DropIn DEF World

\* What is owed is a number; it is 0 exactly if the rank has no task on its way, no worker
\* defers an acknowledgement to it, and none is on its way to it.
LEMMA OwedNat ==
    ASSUME NEW net \in World, NEW par, NEW r \in Rank
    PROVE  /\ Owed(net, par, r) \in Nat
           /\ Owed(net, par, r) = 0 =>
                /\ \A d \in Rank : \A m \in Messages(net, <<r, d>>) : m.tag # "TASK"
                /\ \A w \in Worker : par[w] # r
                /\ \A s \in Rank : \A m \in Messages(net, <<s, r>>) : m.tag # "TASK_RECEIVED"
<1> DEFINE a == Count(net, {r} \X Rank, "TASK")
           E == {w \in Worker : par[w] = r}
           b == Cardinality(E)
           c == Count(net, Rank \X {r}, "TASK_RECEIVED")
<1>1. {r} \X Rank \in SUBSET (Rank \X Rank) /\ Rank \X {r} \in SUBSET (Rank \X Rank)
  OBVIOUS
<1>2. a \in Nat /\ (a = 0 => \A x \in {r} \X Rank : \A m \in Messages(net, x) : m.tag # "TASK")
  BY <1>1, Ranks, CountNat DEF World
<1>3. /\ c \in Nat
      /\ c = 0 => \A x \in Rank \X {r} : \A m \in Messages(net, x) : m.tag # "TASK_RECEIVED"
  BY <1>1, Ranks, CountNat DEF World
<1>4. IsFiniteSet(E) /\ b \in Nat /\ (b = 0 => E = {})
  <2>1. IsFiniteSet(E)
    BY Ranks, FS_Subset
  <2> QED
    BY <2>1, FS_CardinalityType, FS_EmptySet
<1>5. Owed(net, par, r) = a + b + c
  BY DEF Owed
<1> HIDE DEF a, b, c
<1>6. a + b + c \in Nat /\ (a + b + c = 0 => a = 0 /\ b = 0 /\ c = 0)
  BY <1>2, <1>3, <1>4
<1>7. \A d \in Rank : <<r, d>> \in {r} \X Rank /\ <<d, r>> \in Rank \X {r}
  OBVIOUS
<1> QED
  BY <1>2, <1>3, <1>4, <1>5, <1>6, <1>7

\* A message is sent: a task is owed to its sender, an acknowledgement to its receiver.
LEMMA OwedPost ==
    ASSUME NEW net \in World, NEW par, NEW s \in Rank, NEW d \in Rank, NEW m \in WorldMsg,
           NEW r \in Rank
    PROVE  Owed(Post(net, <<s, d>>, m), par, r) = Owed(net, par, r)
             + IF (m.tag = "TASK" /\ r = s) \/ (m.tag = "TASK_RECEIVED" /\ r = d) THEN 1 ELSE 0
<1> DEFINE new == Post(net, <<s, d>>, m)
           C == {r} \X Rank
           D == Rank \X {r}
           b == Cardinality({w \in Worker : par[w] = r})
<1>1. C \in SUBSET (Rank \X Rank) /\ D \in SUBSET (Rank \X Rank) /\ <<s, d>> \in Rank \X Rank
      /\ (<<s, d>> \in C <=> r = s) /\ (<<s, d>> \in D <=> r = d)
  OBVIOUS
<1> HIDE DEF C, D
<1>2. Count(new, C, "TASK") = Count(net, C, "TASK")
        + IF m.tag = "TASK" /\ r = s THEN 1 ELSE 0
  <2>1. Count(net, C, "TASK") \in Nat
    BY <1>1, Ranks, CountNat DEF World
  <2> QED
    BY <2>1, <1>1, Ranks, CountPost DEF World
<1>3. Count(new, D, "TASK_RECEIVED") = Count(net, D, "TASK_RECEIVED")
        + IF m.tag = "TASK_RECEIVED" /\ r = d THEN 1 ELSE 0
  <2>1. Count(net, D, "TASK_RECEIVED") \in Nat
    BY <1>1, Ranks, CountNat DEF World
  <2> QED
    BY <2>1, <1>1, Ranks, CountPost DEF World
<1>4. /\ Count(net, C, "TASK") \in Nat /\ Count(net, D, "TASK_RECEIVED") \in Nat /\ b \in Nat
  <2>1. b \in Nat
    BY Ranks, FS_Subset, FS_CardinalityType
  <2> QED
    BY <2>1, <1>1, Ranks, CountNat DEF World
<1>5. /\ Owed(new, par, r) = Count(new, C, "TASK") + b + Count(new, D, "TASK_RECEIVED")
      /\ Owed(net, par, r) = Count(net, C, "TASK") + b + Count(net, D, "TASK_RECEIVED")
  BY DEF Owed, C, D
<1> HIDE DEF new, b
<1>6. Owed(new, par, r) = Owed(net, par, r)
        + IF (m.tag = "TASK" /\ r = s) \/ (m.tag = "TASK_RECEIVED" /\ r = d) THEN 1 ELSE 0
  BY <1>2, <1>3, <1>4, <1>5
<1> QED
  BY <1>6 DEF new

\* A message is received.
LEMMA OwedDrop ==
    ASSUME NEW net \in World, NEW par, NEW s \in Rank, NEW d \in Rank, net[<<s, d>>] # <<>>,
           NEW r \in Rank
    PROVE  LET m == Head(net[<<s, d>>]) IN
           Owed(net, par, r) = Owed(Drop(net, <<s, d>>), par, r)
             + IF (m.tag = "TASK" /\ r = s) \/ (m.tag = "TASK_RECEIVED" /\ r = d) THEN 1 ELSE 0
<1> DEFINE m == Head(net[<<s, d>>])
           new == Drop(net, <<s, d>>)
           C == {r} \X Rank
           D == Rank \X {r}
           b == Cardinality({w \in Worker : par[w] = r})
<1>1. C \in SUBSET (Rank \X Rank) /\ D \in SUBSET (Rank \X Rank) /\ <<s, d>> \in Rank \X Rank
      /\ (<<s, d>> \in C <=> r = s) /\ (<<s, d>> \in D <=> r = d)
  OBVIOUS
<1> HIDE DEF C, D
<1>2. /\ Count(net, C, "TASK") \in Nat /\ Count(net, D, "TASK_RECEIVED") \in Nat /\ b \in Nat
  <2>1. b \in Nat
    BY Ranks, FS_Subset, FS_CardinalityType
  <2> QED
    BY <2>1, <1>1, Ranks, CountNat DEF World
<1>3. Count(new, C, "TASK") = Count(net, C, "TASK")
        - IF m.tag = "TASK" /\ r = s THEN 1 ELSE 0
  BY <1>1, <1>2, Ranks, CountDrop DEF World
<1>4. Count(new, D, "TASK_RECEIVED") = Count(net, D, "TASK_RECEIVED")
        - IF m.tag = "TASK_RECEIVED" /\ r = d THEN 1 ELSE 0
  BY <1>1, <1>2, Ranks, CountDrop DEF World
<1>5. /\ Owed(new, par, r) = Count(new, C, "TASK") + b + Count(new, D, "TASK_RECEIVED")
      /\ Owed(net, par, r) = Count(net, C, "TASK") + b + Count(net, D, "TASK_RECEIVED")
  BY DEF Owed, C, D
<1> HIDE DEF new, b
<1>6. Owed(net, par, r) = Owed(new, par, r)
        + IF (m.tag = "TASK" /\ r = s) \/ (m.tag = "TASK_RECEIVED" /\ r = d) THEN 1 ELSE 0
  BY <1>2, <1>3, <1>4, <1>5
<1> QED
  BY <1>6 DEF new

\* Worker w gets the parent p: what is owed to p is one more, or one less to the one it had.
LEMMA OwedEngage ==
    ASSUME NEW net \in World, NEW par \in Parents, NEW w \in Worker, NEW p \in Rank \cup {None},
           p = None \/ par[w] = None, NEW r \in Rank
    PROVE  LET new == [par EXCEPT ![w] = p] IN
           /\ r = p => Owed(net, new, r) = Owed(net, par, r) + 1
           /\ r # p /\ r = par[w] => Owed(net, par, r) = Owed(net, new, r) + 1
           /\ r # p /\ r # par[w] => Owed(net, new, r) = Owed(net, par, r)
<1> DEFINE new == [par EXCEPT ![w] = p]
           a == Count(net, {r} \X Rank, "TASK")
           c == Count(net, Rank \X {r}, "TASK_RECEIVED")
           E == {v \in Worker : par[v] = r}
           F == {v \in Worker : new[v] = r}
<1>1. a \in Nat /\ c \in Nat
  <2>1. {r} \X Rank \in SUBSET (Rank \X Rank) /\ Rank \X {r} \in SUBSET (Rank \X Rank)
    OBVIOUS
  <2> QED
    BY <2>1, Ranks, CountNat DEF World
<1>2. \A v \in Worker : new[v] = IF v = w THEN p ELSE par[v]
  BY Ranks DEF Parents
<1>3. IsFiniteSet(E) /\ IsFiniteSet(F) /\ Cardinality(E) \in Nat /\ Cardinality(F) \in Nat
  <2>1. IsFiniteSet(E) /\ IsFiniteSet(F)
    BY Ranks, FS_Subset
  <2> QED
    BY <2>1, FS_CardinalityType
<1>4. r # None
  BY Ranks
<1> HIDE DEF new
<1>5. r = p => Cardinality(F) = Cardinality(E) + 1
  <2> SUFFICES ASSUME r = p PROVE Cardinality(F) = Cardinality(E) + 1
    OBVIOUS
  <2>1. F = E \cup {w} /\ w \notin E
    BY <1>2, <1>4
  <2> HIDE DEF E, F
  <2> QED
    BY <1>3, <2>1, FS_AddElement
<1>6. r # p /\ r = par[w] => Cardinality(E) = Cardinality(F) + 1
  <2> SUFFICES ASSUME r # p, r = par[w] PROVE Cardinality(E) = Cardinality(F) + 1
    OBVIOUS
  <2>1. E = F \cup {w} /\ w \notin F
    BY <1>2, <1>4
  <2> HIDE DEF E, F
  <2> QED
    BY <1>3, <2>1, FS_AddElement
<1>7. r # p /\ r # par[w] => E = F
  BY <1>2
<1>8. Owed(net, par, r) = a + Cardinality(E) + c /\ Owed(net, new, r) = a + Cardinality(F) + c
  BY DEF Owed
<1> HIDE DEF a, c, E, F
<1>9. /\ r = p => Owed(net, new, r) = Owed(net, par, r) + 1
      /\ r # p /\ r = par[w] => Owed(net, par, r) = Owed(net, new, r) + 1
      /\ r # p /\ r # par[w] => Owed(net, new, r) = Owed(net, par, r)
  BY <1>1, <1>3, <1>5, <1>6, <1>7, <1>8
<1> QED
  BY <1>9 DEF new

\* A worker that has no parent and that nobody has as parent does not close a circle when it
\* gets another rank as its parent.
LEMMA AcyclicEngage ==
    ASSUME NEW par \in Parents, Acyclic(par), NEW w \in Worker, NEW p \in Rank, p # w,
           par[w] = None, \A v \in Worker : par[v] # w
    PROVE  Acyclic([par EXCEPT ![w] = p])
<1> DEFINE new == [par EXCEPT ![w] = p]
<1>1. \A v \in Worker : new[v] = IF v = w THEN p ELSE par[v]
  BY Ranks DEF Parents
<1> HIDE DEF new
<1>2. ASSUME NEW S \in SUBSET Engaged(new), S # {} PROVE \E v \in S : new[v] \notin S
  <2> DEFINE T == S \ {w}
  <2>1. T \in SUBSET Engaged(par)
    BY <1>1 DEF Engaged
  <2>2. CASE T = {}
    <3>1. S = {w}
      BY <1>2, <2>2
    <3> QED
      BY <3>1, <1>1
  <2>3. CASE T # {}
    <3>1. PICK v \in T : par[v] \notin T
      BY <2>1, <2>3 DEF Acyclic
    <3>2. v \in Worker /\ v # w /\ v \in S
      BY <2>1, <3>1 DEF Engaged
    <3>3. par[v] # w /\ new[v] = par[v]
      BY <3>2, <1>1
    <3>4. par[v] \notin S
      BY <3>1, <3>3
    <3> QED
      BY <3>2, <3>3, <3>4
  <2> QED
    BY <2>2, <2>3
<1> QED
  BY <1>2 DEF Acyclic, new

\* Nor does a worker that loses its parent.
LEMMA AcyclicRelease ==
    ASSUME NEW par \in Parents, Acyclic(par), NEW w \in Worker
    PROVE  Acyclic([par EXCEPT ![w] = None])
<1> DEFINE new == [par EXCEPT ![w] = None]
<1>1. \A v \in Worker : new[v] = IF v = w THEN None ELSE par[v]
  BY Ranks DEF Parents
<1> HIDE DEF new
<1>2. ASSUME NEW S \in SUBSET Engaged(new), S # {} PROVE \E v \in S : new[v] \notin S
  <2>1. S \in SUBSET Engaged(par) /\ \A v \in S : new[v] = par[v]
    BY <1>1 DEF Engaged
  <2> QED
    BY <1>2, <2>1 DEF Acyclic
<1> QED
  BY <1>2 DEF Acyclic, new

\* A center to which nothing is owed: no worker has a parent, is owed anything or works, and
\* neither a task nor an acknowledgement is on its way.
LEMMA Quiet ==
    ASSUME SafetyInv, deficit[Center] = 0
    PROVE  /\ \A w \in Worker : parent[w] = None /\ deficit[w] = 0 /\ pc[w] \in Idle
           /\ \A s, d \in Rank : \A m \in Messages(world, <<s, d>>) :
                m.tag # "TASK" /\ m.tag # "TASK_RECEIVED"
<1>1. DetectorInv /\ world \in World /\ parent \in Parents
  BY DEF SafetyInv, TypeOK, WorldTypes, DetectorTypes, World, Parents
<1>2. \A r \in Rank : deficit[r] = 0 => \A w \in Worker : parent[w] # r
  BY <1>1, OwedNat DEF DetectorInv
<1>3. ASSUME Engaged(parent) # {} PROVE FALSE
  <2>1. PICK w \in Engaged(parent) : parent[w] \notin Engaged(parent)
    BY <1>1, <1>3 DEF DetectorInv, Acyclic
  <2>2. w \in Worker /\ parent[w] \in Rank
    BY <2>1, <1>1, Ranks DEF Engaged, Parents
  <2>3. CASE parent[w] = Center
    BY <2>2, <2>3, <1>2
  <2>4. CASE parent[w] \in Worker
    <3>1. parent[parent[w]] = None
      BY <2>1, <2>4 DEF Engaged
    <3>2. deficit[parent[w]] = 0
      BY <3>1, <2>4, <1>1 DEF DetectorInv
    <3> QED
      BY <3>2, <2>2, <1>2
  <2> QED
    BY <2>2, <2>3, <2>4, Ranks
<1>4. \A w \in Worker : parent[w] = None /\ deficit[w] = 0 /\ pc[w] \in Idle
  BY <1>1, <1>3 DEF Engaged, DetectorInv
<1>5. \A r \in Rank : Owed(world, parent, r) = 0
  BY <1>1, <1>4, Ranks DEF DetectorInv
<1> QED
  BY <1>1, <1>4, <1>5, OwedNat

\* So a worker at work, a deferred acknowledgement, a task or an acknowledgement on its way
\* keeps the center in its loop.
LEMMA StillOwed ==
    ASSUME SafetyInv,
           \/ \E w \in Worker : parent[w] # None \/ pc[w] \notin Idle
           \/ \E s, d \in Rank : \E m \in Messages(world, <<s, d>>) :
                m.tag \in {"TASK", "TASK_RECEIVED"}
    PROVE  cpc = "loop" /\ deficit[Center] # 0
<1>1. deficit[Center] # 0
  BY Quiet
<1> QED
  BY <1>1 DEF SafetyInv, TypeOK, CenterTypes, CenterPC, PhaseInv, Over

-----------------------------------------------------------------------------
(* What an action that leaves the variables of a part alone does not disturb. *)

\* Where a worker works on a task; the parts below do not tell these places apart.
Inside == {"pop", "send", "sending", "poll", "propose", "check", "isdone", "final",
           "finalpropose", "leave"}
SameSide == \A w \in Worker : pc'[w] = pc[w] \/ (pc[w] \in Inside /\ pc'[w] \in Inside)

\* The types of the detector's state are kept by a step that leaves it alone.
LEMMA DetectorTypesFrame ==
    ASSUME DetectorTypes, UNCHANGED <<deficit, parent, held>> PROVE DetectorTypes'
  BY DEF DetectorTypes

\* The same for the state of the main threads, their queues and pools.
LEMMA WorkerTypesFrame ==
    ASSUME WorkerTypes, UNCHANGED <<pc, bundle, transmitting, queue, busy>> PROVE WorkerTypes'
  BY DEF WorkerTypes

\* The same for the ranks a worker may send to.
LEMMA TargetTypesFrame ==
    ASSUME TargetTypes, UNCHANGED <<next_processes, next_process, destination_rank>>
    PROVE  TargetTypes'
  BY DEF TargetTypes

\* The same for scores, results and proposals.
LEMMA ScoreTypesFrame ==
    ASSUME ScoreTypes, UNCHANGED <<score, result, global_score, proposal>> PROVE ScoreTypes'
  BY DEF ScoreTypes

\* The same for the center's own state.
LEMMA CenterTypesFrame ==
    ASSUME CenterTypes, UNCHANGED <<cpc, process_state, children, collecting>>
    PROVE  CenterTypes'
  BY DEF CenterTypes

\* The same for score updates, NEXT_PROCESS messages and their counters.
LEMMA StreamTypesFrame ==
    ASSUME StreamTypes,
           UNCHANGED <<score_updates_sent, score_updates_received, next_processes_sent,
                       next_processes_received, score_updates, next_messages>>
    PROVE  StreamTypes'
  BY DEF StreamTypes

\* The same for the messages on their way.
LEMMA WorldTypesFrame ==
    ASSUME WorldTypes, UNCHANGED world PROVE WorldTypes'
  BY DEF WorldTypes

\* The same for the tasks created and started.
LEMMA TaskTypesFrame ==
    ASSUME TaskTypes, UNCHANGED <<issued, executed>> PROVE TaskTypes'
  BY DEF TaskTypes

\* WorkerInv is about the main thread, its queue, its pool and its proposal only.
LEMMA WorkerFrame ==
    ASSUME WorkerInv, UNCHANGED <<pc, bundle, transmitting, queue, busy, proposal>>
    PROVE  WorkerInv'
  BY DEF WorkerInv

\* TargetInv is about the ranks a worker may send to.
LEMMA TargetFrame ==
    ASSUME TargetInv, UNCHANGED <<next_processes, next_messages, next_process,
                                  destination_rank, transmitting>>
    PROVE  TargetInv'
  BY DEF TargetInv

\* DetectorInv does not tell the places inside task_funneling apart.
LEMMA DetectorFrame ==
    ASSUME DetectorInv, UNCHANGED <<deficit, parent, held, world>>, SameSide
    PROVE  DetectorInv'
<1>1. \A r \in Rank : Owed(world', parent', r) = Owed(world, parent, r)
  OBVIOUS
<1>2. Acyclic(parent')
  BY DEF DetectorInv
<1>3. \A w \in Worker : pc[w] \in Idle => pc'[w] \in Idle
  BY DEF SameSide, Inside, Idle
<1> QED
  BY <1>1, <1>2, <1>3 DEF DetectorInv

\* PhaseInv does not tell the places inside task_funneling apart.
LEMMA PhaseFrame ==
    ASSUME PhaseInv, SameSide, UNCHANGED <<deficit, cpc, issued, next_messages>>
    PROVE  PhaseInv'
  BY DEF PhaseInv, SameSide, Inside, Over, Announced

\* StreamInv does not tell the places inside task_funneling apart.
LEMMA StreamFrame ==
    ASSUME StreamInv, SameSide,
           UNCHANGED <<score_updates_sent, score_updates_received, next_processes_sent,
                       next_processes_received, score_updates, next_messages>>
    PROVE  StreamInv'
  BY DEF StreamInv, SameSide, Inside

\* RouteInv is about the messages on their way and the center's counters, and about the latter
\* only once termination is announced.
LEMMA RouteKeeps ==
    ASSUME RouteInv,
           cpc \in Announced => cpc' \in Announced /\ UNCHANGED <<score_updates_sent,
                                                                  next_processes_sent>>,
           \A s, d \in Rank : \A m \in Messages(world', <<s, d>>) :
             \/ m \in Messages(world, <<s, d>>)
             \/ m.tag # "TERMINATION" /\ (m.tag = "TASK" => d # Center)
    PROVE  RouteInv'
  BY DEF RouteInv

\* TaskInv is about where tasks are kept, and about nothing else.
LEMMA TaskKeeps ==
    ASSUME TaskInv, UNCHANGED <<issued, executed>>,
           \A t : Crosses(t)' <=> Crosses(t),
           \A t : \A w \in Worker : KeptBy(t, w)' <=> KeptBy(t, w)
    PROVE  TaskInv'
  BY DEF TaskInv

\* In particular, about messages that are tasks.
LEMMA CrossesKeeps ==
    ASSUME \A s, d \in Rank : \A m : m.tag = "TASK" =>
             (m \in Messages(world', <<s, d>>) <=> m \in Messages(world, <<s, d>>))
    PROVE  \A t : Crosses(t)' <=> Crosses(t)
  BY MessageTypes DEF Crosses

\* TreeInv is about the center's tree and its record of the ranks' states.
LEMMA TreeFrame ==
    ASSUME TreeInv, UNCHANGED <<children, process_state>> PROVE TreeInv'
  BY DEF TreeInv

\* ScoreInv is about scores, and about nothing else.
LEMMA ScoreFrame ==
    ASSUME ScoreInv, UNCHANGED <<score, global_score, proposal, score_updates>>
    PROVE  ScoreInv'
  BY DEF ScoreInv

\* RouteInv and TaskInv, in a step that leaves what they are about alone.
LEMMA RouteFrame ==
    ASSUME RouteInv, UNCHANGED <<cpc, score_updates_sent, next_processes_sent, world>>
    PROVE  RouteInv'
  BY RouteKeeps

\* See RouteFrame.
LEMMA TaskFrame ==
    ASSUME TaskInv, UNCHANGED <<pc, bundle, queue, world, issued, executed>>
    PROVE  TaskInv'
<1>1. \A t : \A w \in Worker : KeptBy(t, w)' <=> KeptBy(t, w)
  BY DEF KeptBy
<1>2. \A t : Crosses(t)' <=> Crosses(t)
  BY DEF Crosses
<1> QED
  BY <1>1, <1>2, TaskKeeps
-----------------------------------------------------------------------------
(* The worker's main thread *)

\* The lists of ranks a worker may send to: a NEXT_PROCESS message overwrites the first cell,
\* a transmission shifts the list, and the first rank is read.
LEMMA Lists ==
    ASSUME NEW M, NEW list \in Seq(M)
    PROVE  /\ \A v \in M : Overwrite(list, v) \in Seq(M)
           /\ shift_left(list) \in Seq(M)
           /\ First(list) \in M \cup {None}
<1>1. Skip(list, 1) \in Seq(M)
  <2>1. CASE list = <<>>
    <3>1. Len(list) = 0
      BY <2>1
    <3> QED
      BY <3>1 DEF Skip
  <2>2. CASE list # <<>>
    <3>1. 1 \in 0 .. Len(list)
      BY <2>2
    <3> QED
      BY <3>1, SkipIn
  <2> QED
    BY <2>1, <2>2
<1>2. ASSUME NEW v \in M PROVE Overwrite(list, v) \in Seq(M)
  BY <1>1 DEF Overwrite
<1>3. shift_left(list) \in Seq(M)
  BY DEF shift_left
<1>4. First(list) \in M \cup {None}
  BY DEF First
<1> QED
  BY <1>2, <1>3, <1>4

\* Reading ns score updates and nn NEXT_PROCESS messages: what is left is as much shorter as
\* the counter is higher.
LEMMA Reading ==
    ASSUME ScoreTypes, StreamTypes, TargetTypes, TargetInv, NEW w \in Worker,
           NEW ns \in 0 .. Len(score_updates[w]), NEW nn \in 0 .. Len(next_messages[w]),
           ReceiveFromCenter(w, ns, nn)
    PROVE  /\ global_score' \in [Rank -> Scores \cup {Default}]
           /\ next_processes' \in [Worker -> Seq(Worker)]
           /\ score_updates' \in Net(Worker, Scores) /\ next_messages' \in Net(Worker, Worker)
           /\ score_updates_received' \in [Worker -> Nat]
           /\ next_processes_received' \in [Worker -> Nat]
           /\ \A r \in Rank \ {w} : global_score'[r] = global_score[r]
           /\ global_score'[w] \in Messages(score_updates, w) \cup {global_score[w]}
           /\ \A v \in Worker : /\ next_processes'[v] \in Seq(Worker \ {v})
                                /\ next_messages'[v] \in Seq(Worker \ {v})
           /\ \A v \in Worker \ {w} :
                /\ score_updates'[v] = score_updates[v] /\ next_messages'[v] = next_messages[v]
                /\ score_updates_received'[v] = score_updates_received[v]
                /\ next_processes_received'[v] = next_processes_received[v]
           /\ Len(score_updates'[w]) = Len(score_updates[w]) - ns
           /\ Len(next_messages'[w]) = Len(next_messages[w]) - nn
           /\ score_updates_received'[w] = score_updates_received[w] + ns
           /\ next_processes_received'[w] = next_processes_received[w] + nn
           /\ \A v \in Worker : Messages(score_updates', v) \subseteq Messages(score_updates, v)
<1> DEFINE s == score_updates[w]
           n == next_messages[w]
           s1 == Skip(s, ns)
           n1 == Skip(n, nn)
           l1 == IF nn = 0 THEN next_processes[w] ELSE Overwrite(next_processes[w], n[nn])
           O == Worker \ {w}
<1>1. s \in Seq(Scores) /\ n \in Seq(O) /\ w \in Rank /\ O \subseteq Worker
      /\ next_processes[w] \in Seq(O)
  BY Ranks DEF StreamTypes, Net, TargetInv
<1>2. /\ score_updates' = [score_updates EXCEPT ![w] = s1]
      /\ next_messages' = [next_messages EXCEPT ![w] = n1]
      /\ next_processes' = [next_processes EXCEPT ![w] = l1]
      /\ global_score' = [global_score EXCEPT ![w] = IF ns = 0 THEN @ ELSE s[ns]]
      /\ score_updates_received' = [score_updates_received EXCEPT ![w] = @ + ns]
      /\ next_processes_received' = [next_processes_received EXCEPT ![w] = @ + nn]
  BY DEF ReceiveFromCenter
<1>3. /\ s1 \in Seq(Scores) /\ Len(s1) = Len(s) - ns
      /\ \A i \in 1 .. Len(s) - ns : s1[i] = s[ns + i]
  BY <1>1, SkipIn, ZenonT(60)
<1>4. n1 \in Seq(O) /\ Len(n1) = Len(n) - nn
  <2>1. nn \in 0 .. Len(n)
    OBVIOUS
  <2> HIDE DEF O, n
  <2> QED
    BY <2>1, <1>1, SkipIn
<1>5. nn # 0 => n[nn] \in O
  BY <1>1
<1>6. l1 \in Seq(O)
  <2> HIDE DEF O, n
  <2> QED
    BY <1>1, <1>5, Lists
<1>7. \A M, N, q : M \subseteq N /\ q \in Seq(M) => q \in Seq(N)
  OBVIOUS
<1>8. n1 \in Seq(Worker) /\ l1 \in Seq(Worker)
  BY <1>1, <1>4, <1>6, <1>7
<1> HIDE DEF s1, n1, l1
<1>9. /\ score_updates' \in Net(Worker, Scores) /\ score_updates'[w] = s1
      /\ \A v \in Worker \ {w} : score_updates'[v] = score_updates[v]
  BY <1>2, <1>3 DEF StreamTypes, Net
<1>10. /\ next_messages' \in Net(Worker, Worker) /\ next_messages'[w] = n1
       /\ \A v \in Worker \ {w} : next_messages'[v] = next_messages[v]
  BY <1>2, <1>8 DEF StreamTypes, Net
<1>11. /\ next_processes' \in [Worker -> Seq(Worker)] /\ next_processes'[w] = l1
       /\ \A v \in Worker \ {w} : next_processes'[v] = next_processes[v]
  BY <1>2, <1>8 DEF TargetTypes
<1>12. \A v \in Worker : /\ next_processes'[v] \in Seq(Worker \ {v})
                         /\ next_messages'[v] \in Seq(Worker \ {v})
  BY <1>4, <1>6, <1>10, <1>11 DEF TargetInv
<1>13. \A v \in Worker : Messages(score_updates', v) \subseteq Messages(score_updates, v)
  <2> SUFFICES ASSUME NEW v \in Worker, NEW i \in DOMAIN score_updates'[v]
               PROVE  score_updates'[v][i] \in Messages(score_updates, v)
    BY DEF Messages
  <2>1. CASE v # w
    BY <2>1, <1>9 DEF Messages
  <2>2. CASE v = w
    <3>1. i \in 1 .. Len(s1) /\ ns + i \in DOMAIN s /\ score_updates'[v][i] = s[ns + i]
      BY <2>2, <1>1, <1>3, <1>9
    <3> QED
      BY <2>2, <3>1 DEF Messages
  <2> QED
    BY <2>1, <2>2
<1>14. ns # 0 => s[ns] \in Scores /\ s[ns] \in Messages(score_updates, w)
  BY <1>1 DEF Messages
<1>15. /\ global_score' \in [Rank -> Scores \cup {Default}]
       /\ \A r \in Rank \ {w} : global_score'[r] = global_score[r]
       /\ global_score'[w] \in Messages(score_updates, w) \cup {global_score[w]}
  BY <1>1, <1>2, <1>14 DEF ScoreTypes
<1>16. /\ score_updates_received' \in [Worker -> Nat]
       /\ next_processes_received' \in [Worker -> Nat]
       /\ score_updates_received'[w] = score_updates_received[w] + ns
       /\ next_processes_received'[w] = next_processes_received[w] + nn
       /\ \A v \in Worker \ {w} : /\ score_updates_received'[v] = score_updates_received[v]
                                  /\ next_processes_received'[v] = next_processes_received[v]
  BY <1>2 DEF StreamTypes
<1> QED
  BY <1>3, <1>4, <1>9, <1>10, <1>11, <1>12, <1>13, <1>15, <1>16

\* Reading from the center keeps the parts that are about what the center sends.
LEMMA ReadingKeeps ==
    ASSUME SafetyInv, NEW w \in Worker, NEW ns \in 0 .. Len(score_updates[w]),
           NEW nn \in 0 .. Len(next_messages[w]), ReceiveFromCenter(w, ns, nn),
           UNCHANGED <<score_updates_sent, next_processes_sent>>
    PROVE  /\ StreamTypes' /\ next_processes' \in [Worker -> Seq(Worker)]
           /\ \A v \in Worker : /\ next_processes'[v] \in Seq(Worker \ {v})
                                /\ next_messages'[v] \in Seq(Worker \ {v})
           /\ global_score' \in [Rank -> Scores \cup {Default}]
           /\ \A r \in Rank : Found(global_score'[r])
           /\ \A v \in Worker : \A s \in Messages(score_updates', v) : Found(s)
           /\ \A v \in Worker :
                /\ score_updates_sent' = score_updates_received'[v] + Len(score_updates'[v])
                /\ next_processes_sent'[v] = next_processes_received'[v] + Len(next_messages'[v])
                /\ score_updates[v] = <<>> => score_updates'[v] = <<>>
                /\ next_messages[v] = <<>> => next_messages'[v] = <<>>
<1>1. ScoreTypes /\ StreamTypes /\ TargetTypes /\ TargetInv /\ ScoreInv /\ StreamInv
  BY DEF SafetyInv, TypeOK
<1>2. StreamTypes'
  BY <1>1, Reading DEF StreamTypes
<1>3. /\ next_processes' \in [Worker -> Seq(Worker)]
      /\ \A v \in Worker : /\ next_processes'[v] \in Seq(Worker \ {v})
                           /\ next_messages'[v] \in Seq(Worker \ {v})
  BY <1>1, Reading
<1>4. /\ global_score' \in [Rank -> Scores \cup {Default}]
      /\ \A r \in Rank \ {w} : global_score'[r] = global_score[r]
      /\ global_score'[w] \in Messages(score_updates, w) \cup {global_score[w]}
      /\ \A v \in Worker : Messages(score_updates', v) \subseteq Messages(score_updates, v)
  BY <1>1, Reading
<1>5. /\ \A r \in Rank : Found(global_score'[r])
      /\ \A v \in Worker : \A s \in Messages(score_updates', v) : Found(s)
  BY <1>1, <1>4, Ranks DEF ScoreInv
<1>6. /\ \A v \in Worker \ {w} :
           /\ score_updates'[v] = score_updates[v] /\ next_messages'[v] = next_messages[v]
           /\ score_updates_received'[v] = score_updates_received[v]
           /\ next_processes_received'[v] = next_processes_received[v]
      /\ Len(score_updates'[w]) = Len(score_updates[w]) - ns
      /\ Len(next_messages'[w]) = Len(next_messages[w]) - nn
      /\ score_updates_received'[w] = score_updates_received[w] + ns
      /\ next_processes_received'[w] = next_processes_received[w] + nn
  BY <1>1, Reading
<1>7. ASSUME NEW v \in Worker
      PROVE  /\ score_updates_sent' = score_updates_received'[v] + Len(score_updates'[v])
             /\ next_processes_sent'[v] = next_processes_received'[v] + Len(next_messages'[v])
             /\ score_updates[v] = <<>> => score_updates'[v] = <<>>
             /\ next_messages[v] = <<>> => next_messages'[v] = <<>>
  <2>1. CASE v # w
    BY <1>1, <1>6, <2>1 DEF StreamInv
  <2>2. CASE v = w
    <3>1. /\ score_updates[w] \in Seq(Scores) /\ score_updates'[w] \in Seq(Scores)
          /\ next_messages[w] \in Seq(Worker) /\ next_messages'[w] \in Seq(Worker)
          /\ score_updates_received[w] \in Nat /\ next_processes_received[w] \in Nat
      BY <1>1, <1>2 DEF StreamTypes, Net
    <3>2. score_updates[w] = <<>> => score_updates'[w] = <<>>
      <4> SUFFICES ASSUME score_updates[w] = <<>> PROVE score_updates'[w] = <<>>
        OBVIOUS
      <4>1. Len(score_updates[w]) = 0 /\ Len(score_updates'[w]) \in Nat /\ ns \in Nat
        BY <3>1
      <4>2. Len(score_updates'[w]) = 0
        BY <1>6, <4>1
      <4> QED
        BY <3>1, <4>2
    <3>3. next_messages[w] = <<>> => next_messages'[w] = <<>>
      <4> SUFFICES ASSUME next_messages[w] = <<>> PROVE next_messages'[w] = <<>>
        OBVIOUS
      <4>1. Len(next_messages[w]) = 0 /\ Len(next_messages'[w]) \in Nat /\ nn \in Nat
        BY <3>1
      <4>2. Len(next_messages'[w]) = 0
        BY <1>6, <4>1
      <4> QED
        BY <3>1, <4>2
    <3>4. /\ score_updates_sent = score_updates_received[w] + Len(score_updates[w])
          /\ next_processes_sent[w] = next_processes_received[w] + Len(next_messages[w])
      BY <1>1 DEF StreamInv
    <3>5. Len(score_updates[w]) \in Nat /\ Len(next_messages[w]) \in Nat
      BY <3>1
    <3>6. /\ score_updates_received[w] \in Nat /\ next_processes_received[w] \in Nat
      BY <3>1
    <3>7. /\ score_updates_sent' = score_updates_received'[w] + Len(score_updates'[w])
          /\ next_processes_sent'[w] = next_processes_received'[w] + Len(next_messages'[w])
      BY <1>6, <3>4, <3>5, <3>6, SMTT(30)
    <3> QED
      BY <2>2, <3>2, <3>3, <3>7
  <2> QED
    BY <2>1, <2>2
<1> QED
  BY <1>2, <1>3, <1>4, <1>5, <1>7

\* The probe loop reads a score update or a NEXT_PROCESS message.
LEMMA ReceiveNoticeNext ==
    ASSUME SafetyInv, NEW w \in Worker, ReceiveNotice(w)
    PROVE  SafetyInv'
<1>1. /\ UNCHANGED <<detectorVars, mainVars, next_process, destination_rank, transmitting, queue,
                     busy, managerVars, centerVars, sentVars, world, proposal, historyVars>>
      /\ SameSide
  BY DEF ReceiveNotice, SameSide
<1>2. PICK ns \in 0 .. Len(score_updates[w]), nn \in 0 .. Len(next_messages[w]) :
        ReceiveFromCenter(w, ns, nn)
  <2>1. score_updates[w] \in Seq(Scores) /\ next_messages[w] \in Seq(Worker)
    BY DEF SafetyInv, TypeOK, StreamTypes, Net
  <2>2. CASE score_updates[w] # <<>> /\ ReceiveFromCenter(w, 1, 0)
    <3>1. 1 \in 0 .. Len(score_updates[w]) /\ 0 \in 0 .. Len(next_messages[w])
      BY <2>1, <2>2
    <3> QED
      BY <2>2, <3>1
  <2>3. CASE next_messages[w] # <<>> /\ ReceiveFromCenter(w, 0, 1)
    <3>1. 0 \in 0 .. Len(score_updates[w]) /\ 1 \in 0 .. Len(next_messages[w])
      BY <2>1, <2>3
    <3> QED
      BY <2>3, <3>1
  <2> QED
    BY <2>2, <2>3 DEF ReceiveNotice
<1>3. /\ StreamTypes' /\ next_processes' \in [Worker -> Seq(Worker)]
      /\ \A v \in Worker : /\ next_processes'[v] \in Seq(Worker \ {v})
                           /\ next_messages'[v] \in Seq(Worker \ {v})
      /\ global_score' \in [Rank -> Scores \cup {Default}]
      /\ \A r \in Rank : Found(global_score'[r])
      /\ \A v \in Worker : \A s \in Messages(score_updates', v) : Found(s)
      /\ \A v \in Worker :
           /\ score_updates_sent' = score_updates_received'[v] + Len(score_updates'[v])
           /\ next_processes_sent'[v] = next_processes_received'[v] + Len(next_messages'[v])
           /\ score_updates[v] = <<>> => score_updates'[v] = <<>>
           /\ next_messages[v] = <<>> => next_messages'[v] = <<>>
  BY <1>1, <1>2, ReadingKeeps
<1>4. ScoreTypes' /\ ScoreInv'
  BY <1>1, <1>3 DEF SafetyInv, TypeOK, ScoreTypes, ScoreInv
<1>5. StreamInv'
  BY <1>1, <1>3 DEF SafetyInv, StreamInv
<1>6. TargetTypes' /\ TargetInv'
  <2>1. TargetTypes'
    BY <1>1, <1>3 DEF SafetyInv, TypeOK, TargetTypes
  <2> QED
    BY <2>1, <1>1, <1>3 DEF SafetyInv, TargetInv
<1>7. PhaseInv'
  BY <1>1, <1>3 DEF SafetyInv, PhaseInv
<1> QED
  BY <1>1, <1>3, <1>4, <1>5, <1>6, <1>7, DetectorTypesFrame, WorkerTypesFrame, CenterTypesFrame,
     WorldTypesFrame, TaskTypesFrame, WorkerFrame, DetectorFrame, RouteFrame, TaskFrame,
     TreeFrame DEF SafetyInv, TypeOK

\* A message that is neither a task nor an acknowledgement is sent, or received, by a worker or
\* the center: DetectorInv does not see it.
LEMMA DetectorKeeps ==
    ASSUME DetectorInv, UNCHANGED <<deficit, parent, held>>,
           \A r \in Rank : Owed(world', parent, r) = Owed(world, parent, r),
           \A w \in Worker : pc[w] \in Idle /\ parent[w] = None => pc'[w] \in Idle
    PROVE  DetectorInv'
<1>1. \A r \in Rank : Owed(world', parent', r) = Owed(world, parent, r)
  OBVIOUS
<1>2. Acyclic(parent')
  BY DEF DetectorInv
<1> QED
  BY <1>1, <1>2 DEF DetectorInv

\* process_message: something is still owed, so the center is in its loop; the task that w
\* acknowledges at once, or defers, is counted on.
LEMMA ReceiveTaskNext ==
    ASSUME SafetyInv, NEW w \in Worker, NEW s \in Rank, ReceiveTask(w, s)
    PROVE  SafetyInv'
<1> DEFINE h == Head(world[<<s, w>>])
           t == h.task
           ack == AckMsg(t)
           running == Msg("RUNNING_STATE")
           rest == Drop(world, <<s, w>>)
           net == IF parent[w] # None THEN Post(rest, <<w, s>>, ack) ELSE rest
<1>1. /\ TypeOK /\ WorkerInv /\ TargetInv /\ DetectorInv /\ PhaseInv /\ RouteInv /\ StreamInv
      /\ TaskInv /\ TreeInv /\ ScoreInv /\ world \in World /\ parent \in Parents
  BY DEF SafetyInv, TypeOK, WorldTypes, DetectorTypes, World, Parents
<1>2. /\ UNCHANGED <<deficit, bundle, channelVars, managerVars, global_score, centerVars,
                     countVars, score_updates, next_messages, proposal, issued, best>>
      /\ pc[w] = "probe" /\ pc' = [pc EXCEPT ![w] = "pop"] /\ busy' = [busy EXCEPT ![w] = TRUE]
      /\ world[<<s, w>>] # <<>> /\ h.tag = "TASK" /\ executed' = executed \cup {t}
      /\ world' = Post(net, <<w, Center>>, running)
  BY DEF ReceiveTask, Arrived
<1>3. IF parent[w] # None THEN UNCHANGED <<parent, held>>
      ELSE parent' = [parent EXCEPT ![w] = s] /\ held' = [held EXCEPT ![w] = t]
  BY DEF ReceiveTask
<1>4. w \in Rank /\ Center \in Rank /\ w # Center
  BY Ranks
<1>5. h \in Messages(world, <<s, w>>) /\ t \in Task /\ h = TaskMsg(t)
  BY <1>1, <1>2, <1>4, WorldDrop, MessageTypes
<1>6. cpc = "loop" /\ deficit[Center] # 0
  BY <1>2, <1>4, <1>5, StillOwed
<1>7. t \in 1 .. issued
  BY <1>1, <1>4, <1>5 DEF TaskInv, Crosses, Task
<1>8. /\ ack \in WorldMsg /\ ack.tag = "TASK_RECEIVED"
      /\ running \in WorldMsg /\ running.tag = "RUNNING_STATE"
  BY <1>5, MessageTypes
<1> HIDE DEF h, t, ack, running
<1>9. rest \in World /\ net \in World /\ world' \in World
  BY <1>1, <1>2, <1>4, <1>8, WorldPost, WorldDrop
<1>10. /\ \A p, q \in Rank : \A m \in Messages(world', <<p, q>>) :
            m \in Messages(world, <<p, q>>) \/ m \in {ack, running}
       /\ \A p, q \in Rank : \A m \in Messages(world, <<p, q>>) :
            m \in Messages(world', <<p, q>>) \/ m = h
  <2>1. /\ \A p, q \in Rank : \A m \in Messages(rest, <<p, q>>) : m \in Messages(world, <<p, q>>)
        /\ \A p, q \in Rank : \A m \in Messages(world, <<p, q>>) :
             m \in Messages(rest, <<p, q>>) \/ m = h
    BY <1>1, <1>2, <1>4, WorldDrop DEF h
  <2> HIDE DEF rest
  <2>2. /\ \A p, q \in Rank : \A m \in Messages(net, <<p, q>>) :
             m \in Messages(rest, <<p, q>>) \/ m = ack
        /\ \A p, q \in Rank : \A m \in Messages(rest, <<p, q>>) : m \in Messages(net, <<p, q>>)
    BY <1>4, <1>8, <1>9, WorldPost, ZenonT(60)
  <2> HIDE DEF net
  <2>3. /\ \A p, q \in Rank : \A m \in Messages(world', <<p, q>>) :
             m \in Messages(net, <<p, q>>) \/ m = running
        /\ \A p, q \in Rank : \A m \in Messages(net, <<p, q>>) : m \in Messages(world', <<p, q>>)
    <3>1. world' = Post(net, <<w, Center>>, running)
      BY <1>2
    <3> HIDE DEF net
    <3>2. \A p, q \in Rank : \A x : x \in Messages(Post(net, <<w, Center>>, running), <<p, q>>) <=>
            x \in Messages(net, <<p, q>>) \/ (p = w /\ q = Center /\ x = running)
      BY <1>4, <1>8, <1>9, WorldPost
    <3> QED
      BY <3>1, <3>2
  <2> QED
    BY <2>1, <2>2, <2>3
<1>11. \A r \in Rank : /\ Owed(world, parent, r) = Owed(rest, parent, r) + IF r = s THEN 1 ELSE 0
                       /\ Owed(world', parent', r) = Owed(net, parent', r)
                       /\ Owed(world, parent, r) \in Nat /\ Owed(rest, parent, r) \in Nat
                       /\ Owed(net, parent', r) \in Nat
  <2>1. ASSUME NEW r \in Rank
        PROVE  Owed(world, parent, r) = Owed(rest, parent, r) + IF r = s THEN 1 ELSE 0
    BY <1>1, <1>2, <1>4, OwedDrop DEF h
  <2>2. /\ \A r \in Rank : Owed(world, parent, r) \in Nat /\ Owed(rest, parent, r) \in Nat
        /\ \A r \in Rank : Owed(net, parent', r) \in Nat
    BY <1>1, <1>9, OwedNat
  <2>3. ASSUME NEW r \in Rank PROVE Owed(world', parent', r) = Owed(net, parent', r)
    <3> HIDE DEF net
    <3>1. Owed(Post(net, <<w, Center>>, running), parent', r) = Owed(net, parent', r) + 0
      BY <1>4, <1>8, <1>9, OwedPost
    <3> QED
      BY <3>1, <2>2, <1>2
  <2> QED
    BY <2>1, <2>2, <2>3
<1>12. /\ parent' \in Parents /\ parent'[Center] = None /\ Acyclic(parent')
       /\ \A r \in Rank : Owed(net, parent', r) = Owed(rest, parent, r) + IF r = s THEN 1 ELSE 0
       /\ parent'[w] # None /\ \A v \in Worker : v # w => parent'[v] = parent[v]
  <2>1. CASE parent[w] # None
    <3>1. parent' = parent /\ net = Post(rest, <<w, s>>, ack)
      BY <2>1, <1>3
    <3>2. \A r \in Rank : Owed(net, parent, r) = Owed(rest, parent, r) + IF r = s THEN 1 ELSE 0
      BY <3>1, <1>4, <1>8, <1>9, OwedPost
    <3> HIDE DEF net
    <3> QED
      BY <2>1, <3>1, <3>2, <1>1 DEF DetectorInv
  <2>2. CASE parent[w] = None
    <3>1. parent' = [parent EXCEPT ![w] = s] /\ net = rest
      BY <2>2, <1>3
    <3>2. deficit[w] = 0 /\ Owed(world, parent, w) = 0
      BY <2>2, <1>1, <1>4 DEF DetectorInv
    <3>3. s # w /\ \A v \in Worker : parent[v] # w
      <4>1. s # w
        BY <3>2, <1>1, <1>2, <1>4, <1>5, OwedNat
      <4> QED
        BY <4>1, <3>2, <1>1, <1>4, OwedNat
    <3>4. Acyclic(parent')
      BY <2>2, <3>1, <3>3, <1>1, AcyclicEngage DEF DetectorInv
    <3>5. \A r \in Rank : Owed(rest, parent', r) = Owed(rest, parent, r) + IF r = s THEN 1 ELSE 0
      <4> SUFFICES ASSUME NEW r \in Rank
                   PROVE  Owed(rest, parent', r) = Owed(rest, parent, r) + IF r = s THEN 1 ELSE 0
        OBVIOUS
      <4>1. /\ r = s => Owed(rest, parent', r) = Owed(rest, parent, r) + 1
            /\ r # s => Owed(rest, parent', r) = Owed(rest, parent, r)
        <5> HIDE DEF rest
        <5>1. r # parent[w]
          BY <2>2, Ranks
        <5>2. /\ r = s => Owed(rest, [parent EXCEPT ![w] = s], r) = Owed(rest, parent, r) + 1
              /\ r # s => Owed(rest, [parent EXCEPT ![w] = s], r) = Owed(rest, parent, r)
          BY <5>1, <2>2, <1>1, <1>9, OwedEngage
        <5> QED
          BY <5>2, <3>1
      <4> QED
        BY <4>1, <1>11
    <3>6. /\ parent' \in Parents /\ parent'[Center] = None /\ parent'[w] = s
          /\ \A v \in Worker : v # w => parent'[v] = parent[v]
      BY <3>1, <1>1, <1>4, Ranks DEF DetectorInv, Parents
    <3>7. s # None
      BY Ranks
    <3> QED
      BY <3>1, <3>4, <3>5, <3>6, <3>7
  <2> QED
    BY <2>1, <2>2
<1> HIDE DEF net, rest
<1>13. pc'[w] = "pop" /\ busy'[w] /\ \A v \in Worker : v # w => pc'[v] = pc[v] /\ busy'[v] = busy[v]
  BY <1>1, <1>2 DEF TypeOK, WorkerTypes
<1>14. DetectorTypes' /\ WorkerTypes' /\ TaskTypes' /\ WorldTypes'
  <2>1. held' \in [Worker -> Task \cup {0}]
    BY <1>1, <1>3, <1>5 DEF TypeOK, DetectorTypes
  <2>2. DetectorTypes'
    BY <2>1, <1>1, <1>2, <1>12 DEF TypeOK, DetectorTypes, Parents
  <2>3. WorkerTypes'
    BY <1>1, <1>2 DEF TypeOK, WorkerTypes, MainPC
  <2>4. TaskTypes'
    BY <1>1, <1>2, <1>7 DEF TypeOK, TaskTypes
  <2> QED
    BY <2>2, <2>3, <2>4, <1>9 DEF WorldTypes, World
<1>15. WorkerInv'
  BY <1>1, <1>2, <1>13 DEF WorkerInv, Idle
<1>16. DetectorInv'
  <2>1. \A r \in Rank : deficit'[r] = Owed(world', parent', r)
    BY <1>1, <1>2, <1>11, <1>12 DEF DetectorInv
  <2>2. \A v \in Worker : parent'[v] # None => held'[v] \in Task
    <3>1. held'[w] \in Task /\ \A v \in Worker : v # w => held'[v] = held[v]
      BY <1>1, <1>3, <1>5 DEF TypeOK, DetectorTypes, DetectorInv
    <3> QED
      BY <3>1, <1>1, <1>12 DEF DetectorInv
  <2>3. \A v \in Worker : parent'[v] = None => deficit'[v] = 0 /\ pc'[v] \in Idle
    BY <1>1, <1>2, <1>12, <1>13 DEF DetectorInv
  <2> QED
    BY <2>1, <2>2, <2>3, <1>12 DEF DetectorInv
<1>17. PhaseInv'
  BY <1>1, <1>2, <1>6, <1>13 DEF PhaseInv, Over, Announced
<1>18. StreamInv'
  BY <1>1, <1>2, <1>13 DEF StreamInv
<1>19. RouteInv'
  BY <1>1, <1>2, <1>8, <1>10, RouteKeeps
<1>20. TaskInv'
  <2>1. \A u : \A v \in Worker : KeptBy(u, v)' <=> KeptBy(u, v)
    BY <1>2, <1>13 DEF KeptBy
  <2>2. \A u : Crosses(u)' => Crosses(u)
    BY <1>8, <1>10, MessageTypes DEF Crosses
  <2>3. \A u : Crosses(u) => Crosses(u)' \/ u = t
    BY <1>5, <1>10, MessageTypes DEF Crosses
  <2> QED
    BY <2>1, <2>2, <2>3, <1>1, <1>2 DEF TaskInv
<1> QED
  BY <1>1, <1>2, <1>14, <1>15, <1>16, <1>17, <1>18, <1>19, <1>20, TargetTypesFrame,
     ScoreTypesFrame, CenterTypesFrame, StreamTypesFrame, TargetFrame, TreeFrame, ScoreFrame
     DEF SafetyInv, TypeOK

\* release_parent_if_passive turns a deferred acknowledgement into one on its way, or does
\* nothing: what is owed is the same.
LEMMA Releasing ==
    ASSUME DetectorTypes, DetectorInv, NEW w \in Worker, NEW net \in World, NEW d,
           release_parent_if_passive(w, net, d)
    PROVE  /\ world' \in World /\ parent' \in Parents /\ held' \in [Worker -> Task \cup {0}]
           /\ parent'[Center] = None /\ Acyclic(parent')
           /\ \A r \in Rank : Owed(world', parent', r) = Owed(net, parent, r)
           /\ \A p, q \in Rank : \A x :
                x \in Messages(net, <<p, q>>) => x \in Messages(world', <<p, q>>)
           /\ \A p, q \in Rank : \A x :
                x \in Messages(world', <<p, q>>) =>
                  x \in Messages(net, <<p, q>>) \/ x.tag = "TASK_RECEIVED"
           /\ \A v \in Worker : v # w => parent'[v] = parent[v] /\ held'[v] = held[v]
           /\ parent'[w] = None => d = 0 \/ parent[w] = None
           /\ parent'[w] # None => parent'[w] = parent[w] /\ held'[w] = held[w]
<1>1. parent \in Parents /\ held \in [Worker -> Task \cup {0}]
  BY DEF DetectorTypes, Parents
<1>2. CASE ~(d = 0 /\ parent[w] # None)
  <2>1. world' = net /\ parent' = parent /\ held' = held
    BY <1>2 DEF release_parent_if_passive
  <2> QED
    BY <1>1, <1>2, <2>1 DEF DetectorInv
<1>3. CASE d = 0 /\ parent[w] # None
  <2> DEFINE m == AckMsg(held[w])
             p == parent[w]
  <2>1. m \in WorldMsg /\ m.tag = "TASK_RECEIVED" /\ p \in Rank /\ w \in Rank
    <3>1. held[w] \in Task
      BY <1>3 DEF DetectorInv
    <3> QED
      BY <3>1, <1>1, <1>3, MessageTypes, Ranks DEF Parents
  <2>2. /\ world' = Post(net, <<w, p>>, m)
        /\ parent' = [parent EXCEPT ![w] = None] /\ held' = [held EXCEPT ![w] = 0]
    BY <1>3 DEF release_parent_if_passive
  <2> HIDE DEF m, p
  <2>3. /\ world' \in World
        /\ \A a, b \in Rank : \A x :
             x \in Messages(net, <<a, b>>) => x \in Messages(world', <<a, b>>)
        /\ \A a, b \in Rank : \A x :
             x \in Messages(world', <<a, b>>) =>
               x \in Messages(net, <<a, b>>) \/ x.tag = "TASK_RECEIVED"
    <3>1. /\ Post(net, <<w, p>>, m) \in World
          /\ \A a, b \in Rank : \A x : x \in Messages(Post(net, <<w, p>>, m), <<a, b>>) <=>
               x \in Messages(net, <<a, b>>) \/ (a = w /\ b = p /\ x = m)
      BY <2>1, WorldPost
    <3> QED
      BY <3>1, <2>1, <2>2
  <2> USE DEF p
  <2>4. Acyclic(parent')
    BY <1>1, <2>2, AcyclicRelease DEF DetectorInv
  <2>5. ASSUME NEW r \in Rank PROVE Owed(world', parent', r) = Owed(net, parent, r)
    <3>1. /\ r = p => Owed(net, parent, r) = Owed(net, [parent EXCEPT ![w] = None], r) + 1
          /\ r # p => Owed(net, [parent EXCEPT ![w] = None], r) = Owed(net, parent, r)
      <4>1. r # None
        BY Ranks
      <4> QED
        BY <4>1, <1>1, OwedEngage
    <3>2. Owed(world', parent', r) = Owed(net, parent', r) + IF r = p THEN 1 ELSE 0
      BY <2>1, <2>2, OwedPost
    <3>3. Owed(net, parent', r) \in Nat /\ Owed(net, parent, r) \in Nat
      BY OwedNat
    <3> QED
      BY <2>2, <3>1, <3>2, <3>3
  <2>6. /\ parent' \in Parents /\ held' \in [Worker -> Task \cup {0}]
        /\ parent'[Center] = None /\ parent'[w] = None
        /\ \A v \in Worker : v # w => parent'[v] = parent[v] /\ held'[v] = held[v]
    BY <1>1, <2>2, Ranks DEF Parents, DetectorInv
  <2> QED
    BY <1>3, <2>3, <2>4, <2>5, <2>6
<1> QED
  BY <1>2, <1>3

\* process_task_received_ack does not throw: an acknowledgement on its way is counted in the
\* deficit of its receiver.
LEMMA ReceiveAckNext ==
    ASSUME SafetyInv, NEW w \in Worker, NEW s \in Rank, ReceiveAck(w, s)
    PROVE  SafetyInv'
<1> DEFINE h == Head(world[<<s, w>>])
           rest == Drop(world, <<s, w>>)
<1>1. /\ TypeOK /\ WorkerInv /\ TargetInv /\ DetectorInv /\ PhaseInv /\ RouteInv /\ StreamInv
      /\ TaskInv /\ TreeInv /\ ScoreInv /\ DetectorTypes /\ world \in World /\ w \in Rank
  BY Ranks DEF SafetyInv, TypeOK, WorldTypes, World
<1>2. pc[w] = "probe" /\ world[<<s, w>>] # <<>> /\ h.tag = "TASK_RECEIVED"
  BY DEF ReceiveAck, Arrived
<1>3. h \in Messages(world, <<s, w>>)
  BY <1>1, <1>2, WorldDrop
<1>4. cpc = "loop" /\ deficit[Center] # 0
  BY <1>1, <1>2, <1>3, StillOwed
<1>5. deficit[w] \in Nat /\ deficit[w] # 0 /\ deficit[w] = Owed(world, parent, w)
  <2>1. deficit[w] = Owed(world, parent, w)
    BY <1>1 DEF DetectorInv
  <2> QED
    BY <2>1, <1>1, <1>2, <1>3, OwedNat
<1>6. /\ deficit' = [deficit EXCEPT ![w] = @ - 1]
      /\ release_parent_if_passive(w, rest, deficit[w] - 1)
      /\ UNCHANGED <<mainVars, channelVars, busy, managerVars, global_score, centerVars,
                     countVars, score_updates, next_messages, proposal, historyVars>>
  BY <1>5 DEF ReceiveAck
<1>7. /\ rest \in World
      /\ \A p, q \in Rank : \A x :
           /\ x \in Messages(rest, <<p, q>>) => x \in Messages(world, <<p, q>>)
           /\ x \in Messages(world, <<p, q>>) => x \in Messages(rest, <<p, q>>) \/ x = h
  BY <1>1, <1>2, WorldDrop
<1>8. \A r \in Rank : Owed(world, parent, r) = Owed(rest, parent, r) + IF r = w THEN 1 ELSE 0
  BY <1>1, <1>2, OwedDrop
<1> HIDE DEF rest, h
<1>9. /\ world' \in World /\ parent' \in Parents /\ held' \in [Worker -> Task \cup {0}]
      /\ parent'[Center] = None /\ Acyclic(parent')
      /\ \A r \in Rank : Owed(world', parent', r) = Owed(rest, parent, r)
      /\ \A p, q \in Rank : \A x :
           x \in Messages(rest, <<p, q>>) => x \in Messages(world', <<p, q>>)
      /\ \A p, q \in Rank : \A x :
           x \in Messages(world', <<p, q>>) =>
             x \in Messages(rest, <<p, q>>) \/ x.tag = "TASK_RECEIVED"
      /\ \A v \in Worker : v # w => parent'[v] = parent[v] /\ held'[v] = held[v]
      /\ parent'[w] = None => deficit[w] - 1 = 0 \/ parent[w] = None
      /\ parent'[w] # None => parent'[w] = parent[w] /\ held'[w] = held[w]
  BY <1>1, <1>6, <1>7, Releasing
<1>10. /\ deficit' \in [Rank -> Nat] /\ deficit'[w] = deficit[w] - 1
       /\ \A r \in Rank : r # w => deficit'[r] = deficit[r]
  BY <1>1, <1>5, <1>6 DEF DetectorTypes
<1>11. DetectorTypes' /\ WorldTypes'
  BY <1>9, <1>10 DEF DetectorTypes, WorldTypes, World, Parents
<1>12. DetectorInv'
  <2>1. \A r \in Rank : deficit'[r] = Owed(world', parent', r)
    <3> SUFFICES ASSUME NEW r \in Rank PROVE deficit'[r] = Owed(world', parent', r)
      OBVIOUS
    <3>1. Owed(world, parent, r) = deficit[r] /\ Owed(rest, parent, r) \in Nat
      BY <1>1, <1>7, OwedNat DEF DetectorInv
    <3> QED
      BY <3>1, <1>8, <1>9, <1>10
  <2>2. \A v \in Worker : parent'[v] # None => held'[v] \in Task
    BY <1>1, <1>9 DEF DetectorInv
  <2>3. \A v \in Worker : parent'[v] = None => deficit'[v] = 0 /\ pc'[v] \in Idle
    <3>1. parent[w] # None
      BY <1>1, <1>5 DEF DetectorInv
    <3>2. \A v \in Worker : v \in Rank /\ pc'[v] = pc[v]
      BY <1>6, Ranks
    <3> QED
      BY <3>1, <3>2, <1>1, <1>2, <1>9, <1>10 DEF DetectorInv, Idle
  <2> QED
    BY <2>1, <2>2, <2>3, <1>9 DEF DetectorInv
<1>13. PhaseInv'
  BY <1>1, <1>4, <1>6 DEF PhaseInv, Over, Announced
<1>14. RouteInv'
  BY <1>1, <1>6, <1>7, <1>9, RouteKeeps
<1>15. TaskInv'
  <2>1. \A p, q \in Rank : \A m : m.tag = "TASK" =>
          (m \in Messages(world', <<p, q>>) <=> m \in Messages(world, <<p, q>>))
    BY <1>2, <1>7, <1>9
  <2>2. \A u : Crosses(u)' <=> Crosses(u)
    BY <2>1, CrossesKeeps
  <2>3. \A u : \A v \in Worker : KeptBy(u, v)' <=> KeptBy(u, v)
    BY <1>6 DEF KeptBy
  <2> QED
    BY <2>2, <2>3, <1>1, <1>6, TaskKeeps
<1>16. SameSide
  BY <1>6 DEF SameSide
<1> QED
  BY <1>1, <1>6, <1>11, <1>12, <1>13, <1>14, <1>15, <1>16, WorkerTypesFrame, TargetTypesFrame,
     ScoreTypesFrame, CenterTypesFrame, StreamTypesFrame, TaskTypesFrame, WorkerFrame,
     TargetFrame, StreamFrame, TreeFrame, ScoreFrame DEF SafetyInv, TypeOK

\* The end of task_funneling does not throw: the queue is empty, and nothing is in it.
LEMMA LeaveFunnelNext ==
    ASSUME SafetyInv, NEW w \in Worker, LeaveFunnel(w)
    PROVE  SafetyInv'
<1> DEFINE m == Msg("AVAILABLE_STATE")
           net == Post(world, <<w, Center>>, m)
<1>1. /\ TypeOK /\ WorkerInv /\ TargetInv /\ DetectorInv /\ PhaseInv /\ RouteInv /\ StreamInv
      /\ TaskInv /\ TreeInv /\ ScoreInv /\ DetectorTypes /\ world \in World
      /\ w \in Rank /\ Center \in Rank
  BY Ranks DEF SafetyInv, TypeOK, WorldTypes, World
<1>2. /\ pc[w] \in {"leave", "finalpropose"} /\ proposal[w] = Nothing /\ queue[w] = <<>>
      /\ ~transmitting[w] /\ ~busy[w] /\ bundle[w] = 0 /\ parent[w] # None
  <2>1. pc[w] \in {"leave", "finalpropose"} /\ (pc[w] = "leave" \/ proposal[w] = Nothing)
    BY DEF LeaveFunnel
  <2> QED
    BY <2>1, <1>1 DEF WorkerInv, DetectorInv, Idle
<1>3. /\ pc' = [pc EXCEPT ![w] = "probe"] /\ release_parent_if_passive(w, net, deficit[w])
      /\ UNCHANGED <<deficit, bundle, channelVars, busy, managerVars, global_score, centerVars,
                     countVars, score_updates, next_messages, proposal, historyVars>>
  BY <1>2 DEF LeaveFunnel, Leave
<1>4. m \in WorldMsg /\ m.tag = "AVAILABLE_STATE"
  BY MessageTypes
<1> HIDE DEF m
<1>5. /\ net \in World
      /\ \A p, q \in Rank : \A x : x \in Messages(net, <<p, q>>) <=>
           x \in Messages(world, <<p, q>>) \/ (p = w /\ q = Center /\ x = m)
  BY <1>1, <1>4, WorldPost
<1>6. \A r \in Rank : Owed(net, parent, r) = Owed(world, parent, r)
  <2> SUFFICES ASSUME NEW r \in Rank PROVE Owed(net, parent, r) = Owed(world, parent, r)
    OBVIOUS
  <2>1. Owed(net, parent, r) = Owed(world, parent, r) + 0
    BY <1>1, <1>4, OwedPost
  <2>2. Owed(world, parent, r) \in Nat
    BY <1>1, OwedNat
  <2> QED
    BY <2>1, <2>2
<1> HIDE DEF net
<1>7. /\ world' \in World /\ parent' \in Parents /\ held' \in [Worker -> Task \cup {0}]
      /\ parent'[Center] = None /\ Acyclic(parent')
      /\ \A r \in Rank : Owed(world', parent', r) = Owed(net, parent, r)
      /\ \A p, q \in Rank : \A x : x \in Messages(net, <<p, q>>) => x \in Messages(world', <<p, q>>)
      /\ \A p, q \in Rank : \A x :
           x \in Messages(world', <<p, q>>) =>
             x \in Messages(net, <<p, q>>) \/ x.tag = "TASK_RECEIVED"
      /\ \A v \in Worker : v # w => parent'[v] = parent[v] /\ held'[v] = held[v]
      /\ parent'[w] = None => deficit[w] = 0 \/ parent[w] = None
      /\ parent'[w] # None => parent'[w] = parent[w] /\ held'[w] = held[w]
  BY <1>1, <1>3, <1>5, Releasing
<1>8. pc'[w] = "probe" /\ \A v \in Worker : v # w => pc'[v] = pc[v]
  BY <1>1, <1>3 DEF TypeOK, WorkerTypes
<1>9. DetectorTypes' /\ WorldTypes' /\ WorkerTypes'
  <2>1. DetectorTypes' /\ WorldTypes'
    BY <1>1, <1>3, <1>7 DEF DetectorTypes, WorldTypes, World, Parents
  <2> QED
    BY <2>1, <1>1, <1>3 DEF TypeOK, WorkerTypes, MainPC
<1>10. WorkerInv'
  BY <1>1, <1>2, <1>3, <1>8 DEF WorkerInv, Idle
<1>11. DetectorInv'
  <2>1. \A r \in Rank : deficit'[r] = Owed(world', parent', r)
    BY <1>1, <1>3, <1>6, <1>7 DEF DetectorInv
  <2>2. \A v \in Worker : parent'[v] # None => held'[v] \in Task
    BY <1>1, <1>7 DEF DetectorInv
  <2>3. \A v \in Worker : parent'[v] = None => deficit'[v] = 0 /\ pc'[v] \in Idle
    BY <1>1, <1>2, <1>3, <1>7, <1>8 DEF DetectorInv, Idle
  <2> QED
    BY <2>1, <2>2, <2>3, <1>7 DEF DetectorInv
<1>12. PhaseInv'
  BY <1>1, <1>2, <1>3, <1>8 DEF PhaseInv, Over, Announced
<1>13. StreamInv'
  BY <1>1, <1>3, <1>8 DEF StreamInv
<1>14. RouteInv'
  BY <1>1, <1>3, <1>4, <1>5, <1>7, RouteKeeps
<1>15. TaskInv'
  <2>1. \A p, q \in Rank : \A x : x.tag = "TASK" =>
          (x \in Messages(world', <<p, q>>) <=> x \in Messages(world, <<p, q>>))
    BY <1>4, <1>5, <1>7
  <2>2. \A u : Crosses(u)' <=> Crosses(u)
    BY <2>1, CrossesKeeps
  <2>3. \A u : \A v \in Worker : KeptBy(u, v)' <=> KeptBy(u, v)
    BY <1>2, <1>3, <1>8 DEF KeptBy
  <2> QED
    BY <2>2, <2>3, <1>1, <1>3, TaskKeeps
<1> QED
  BY <1>1, <1>3, <1>9, <1>10, <1>11, <1>12, <1>13, <1>14, <1>15, TargetTypesFrame,
     ScoreTypesFrame, CenterTypesFrame, StreamTypesFrame, TaskTypesFrame, TargetFrame,
     TreeFrame, ScoreFrame DEF SafetyInv, TypeOK

\* A pop at one of its three places in task_funneling.
LEMMA PopNext ==
    ASSUME SafetyInv, NEW w \in Worker, NEW x, PopBundle(w, x),
           \/ pc[w] = "pop" /\ x = "poll"
           \/ pc[w] = "check" /\ x = "isdone"
           \/ pc[w] = "isdone" /\ x = "final" /\ ~busy[w]
    PROVE  SafetyInv'
<1>1. /\ TypeOK /\ WorkerInv /\ TargetInv /\ DetectorInv /\ PhaseInv /\ RouteInv /\ StreamInv
      /\ TaskInv /\ TreeInv /\ ScoreInv /\ proposal[w] = Nothing
  BY DEF SafetyInv, WorkerInv
<1>2. UNCHANGED <<detectorVars, next_processes, next_process, destination_rank, transmitting,
                  busy, managerVars, global_score, centerVars, countVars, netVars, historyVars>>
  BY DEF PopBundle
<1>3. pc[w] \in Inside /\ x \in Inside \ {"send", "sending"}
      /\ pc[w] \notin {"send", "sending", "final", "finalpropose", "leave"}
  BY DEF Inside
<1>4. ASSUME queue[w] # <<>>
      PROVE  /\ SameSide /\ WorkerTypes' /\ WorkerInv'
             /\ \A u : \A v \in Worker : KeptBy(u, v)' <=> KeptBy(u, v)
  <2>1. /\ bundle' = [bundle EXCEPT ![w] = Head(queue[w])] /\ queue' = [queue EXCEPT ![w] = Tail(@)]
        /\ pc' = [pc EXCEPT ![w] = "send"]
    BY <1>4 DEF PopBundle
  <2>2. /\ pc'[w] = "send" /\ bundle'[w] = Head(queue[w]) /\ queue'[w] = Tail(queue[w])
        /\ \A v \in Worker : v # w => /\ pc'[v] = pc[v] /\ bundle'[v] = bundle[v]
                                      /\ queue'[v] = queue[v]
    BY <1>1, <2>1 DEF TypeOK, WorkerTypes
  <2>3. queue[w] \in Seq(Task) /\ Len(queue[w]) = 1 /\ transmitting[w]
    BY <1>1, <1>4 DEF TypeOK, WorkerTypes, WorkerInv
  <2>4. Head(queue[w]) \in Task /\ Tail(queue[w]) = <<>>
    <3> DEFINE q == queue[w]
    <3>1. q \in Seq(Task) /\ Len(q) = 1 /\ q # <<>>
      BY <1>4, <2>3
    <3> HIDE DEF q
    <3>2. Head(q) \in Task
      BY <3>1
    <3>3. Tail(q) \in Seq(Task) /\ Len(Tail(q)) = 0
      BY <3>1
    <3>4. \A s \in Seq(Task) : Len(s) = 0 => s = <<>>
      OBVIOUS
    <3>5. Tail(q) = <<>>
      BY <3>3, <3>4
    <3> QED
      BY <3>2, <3>5 DEF q
  <2>5. WorkerTypes'
    <3>1. queue' \in [Worker -> Seq(Task)]
      <4>1. \A v \in Worker : queue'[v] \in Seq(Task)
        <5>1. queue \in [Worker -> Seq(Task)] /\ <<>> \in Seq(Task)
          BY <1>1 DEF TypeOK, WorkerTypes
        <5> QED
          BY <5>1, <2>2, <2>4
      <4> QED
        BY <4>1, <1>1, <2>1 DEF TypeOK, WorkerTypes
    <3> QED
      BY <1>1, <1>2, <2>1, <2>4, <3>1 DEF TypeOK, WorkerTypes, MainPC
  <2>6. WorkerInv'
    <3>1. /\ pc'[w] = "send" /\ bundle'[w] \in Task /\ queue'[w] = <<>> /\ transmitting'[w]
          /\ proposal'[w] = Nothing
      BY <1>1, <1>2, <2>2, <2>3, <2>4 DEF WorkerInv
    <3>2. ASSUME NEW v \in Worker, v # w
          PROVE  /\ pc'[v] = pc[v] /\ bundle'[v] = bundle[v] /\ queue'[v] = queue[v]
                 /\ busy'[v] = busy[v] /\ transmitting'[v] = transmitting[v]
                 /\ proposal'[v] = proposal[v]
      BY <1>2, <2>2, <3>2
    <3> QED
      BY <1>1, <3>1, <3>2 DEF WorkerInv, Idle
  <2>7. \A u : \A v \in Worker : KeptBy(u, v)' <=> KeptBy(u, v)
    BY <1>3, <1>4, <2>2, <2>4 DEF KeptBy
  <2>8. SameSide
    BY <1>3, <2>2 DEF SameSide, Inside
  <2> QED
    BY <2>5, <2>6, <2>7, <2>8
<1>5. ASSUME queue[w] = <<>>
      PROVE  /\ SameSide /\ WorkerTypes' /\ WorkerInv'
             /\ \A u : \A v \in Worker : KeptBy(u, v)' <=> KeptBy(u, v)
  <2>1. /\ pc' = [pc EXCEPT ![w] = x] /\ bundle' = bundle /\ queue' = queue
    BY <1>5 DEF PopBundle
  <2>2. pc'[w] = x /\ \A v \in Worker : v # w => pc'[v] = pc[v]
    BY <1>1, <2>1 DEF TypeOK, WorkerTypes
  <2>3. WorkerTypes'
    BY <1>1, <1>2, <1>3, <2>1 DEF TypeOK, WorkerTypes, MainPC, Inside
  <2>4. WorkerInv'
    BY <1>1, <1>2, <1>3, <1>5, <2>1, <2>2 DEF WorkerInv, Idle
  <2>5. \A u : \A v \in Worker : KeptBy(u, v)' <=> KeptBy(u, v)
    BY <1>3, <2>1, <2>2 DEF KeptBy
  <2>6. SameSide
    BY <1>3, <2>2 DEF SameSide, Inside
  <2> QED
    BY <2>3, <2>4, <2>5, <2>6
<1>6. SameSide /\ WorkerTypes' /\ WorkerInv'
      /\ \A u : \A v \in Worker : KeptBy(u, v)' <=> KeptBy(u, v)
  BY <1>4, <1>5
<1>7. TaskInv'
  <2>1. \A u : Crosses(u)' <=> Crosses(u)
    BY <1>2 DEF Crosses
  <2> QED
    BY <1>1, <1>2, <1>6, <2>1, TaskKeeps
<1> QED
  BY <1>1, <1>2, <1>6, <1>7, DetectorTypesFrame, TargetTypesFrame, ScoreTypesFrame,
     CenterTypesFrame, StreamTypesFrame, WorldTypesFrame, TaskTypesFrame, TargetFrame,
     DetectorFrame, PhaseFrame, RouteFrame, StreamFrame, TreeFrame, ScoreFrame DEF SafetyInv, TypeOK

\* The main thread goes on to another place, and does nothing else but read the list.
LEMMA MoveNext ==
    ASSUME SafetyInv, NEW w \in Worker, NEW x \in {"poll", "check"}, pc[w] \in {"isdone", "propose"},
           proposal[w] = Nothing, pc' = [pc EXCEPT ![w] = x],
           NEW n \in {next_process[w], First(next_processes[w])},
           next_process' = [next_process EXCEPT ![w] = n],
           UNCHANGED <<detectorVars, bundle, next_processes, destination_rank, transmitting,
                       queue, busy, managerVars, global_score, centerVars, countVars, netVars,
                       historyVars>>
    PROVE  SafetyInv'
<1>1. /\ TypeOK /\ WorkerInv /\ TargetInv /\ DetectorInv /\ PhaseInv /\ RouteInv /\ StreamInv
      /\ TaskInv /\ TreeInv /\ ScoreInv
  BY DEF SafetyInv
<1>2. pc'[w] = x /\ \A v \in Worker : v # w => pc'[v] = pc[v]
  BY <1>1 DEF TypeOK, WorkerTypes
<1>3. SameSide
  BY <1>2 DEF SameSide, Inside
<1>4. WorkerTypes'
  BY <1>1 DEF TypeOK, WorkerTypes, MainPC
<1>5. WorkerInv'
  BY <1>1, <1>2 DEF WorkerInv, Idle
<1>6. TaskInv'
  <2>1. \A u : Crosses(u)' <=> Crosses(u)
    BY DEF Crosses
  <2>2. \A u : \A v \in Worker : KeptBy(u, v)' <=> KeptBy(u, v)
    BY <1>2 DEF KeptBy
  <2> QED
    BY <1>1, <2>1, <2>2, TaskKeeps
<1>7. TargetTypes' /\ TargetInv'
  <2>1. n \in (Worker \cup {None}) \ {w}
    <3>1. First(next_processes[w]) \in (Worker \ {w}) \cup {None}
      BY <1>1, Lists DEF TargetInv
    <3>2. next_process[w] \in (Worker \cup {None}) \ {w} /\ w # None
      BY <1>1, Ranks DEF TypeOK, TargetTypes, TargetInv
    <3> QED
      BY <3>1, <3>2
  <2>2. TargetTypes'
    BY <2>1, <1>1 DEF TypeOK, TargetTypes
  <2>3. \A v \in Worker : next_process'[v] # v
    BY <2>1, <1>1 DEF TypeOK, TargetTypes, TargetInv
  <2> QED
    BY <2>2, <2>3, <1>1 DEF TargetInv
<1> QED
  BY <1>1, <1>3, <1>4, <1>5, <1>6, <1>7, DetectorTypesFrame, ScoreTypesFrame, CenterTypesFrame,
     StreamTypesFrame, WorldTypesFrame, TaskTypesFrame, DetectorFrame, PhaseFrame, RouteFrame,
     StreamFrame, TreeFrame, ScoreFrame DEF SafetyInv, TypeOK

\* MPI_Ssend has returned.
LEMMA ProposalMatchedNext ==
    ASSUME SafetyInv, NEW w \in Worker, ProposalMatched(w)
    PROVE  SafetyInv'
  BY MoveNext DEF ProposalMatched

\* is_done, and the second pop if the pool is done.
LEMMA CheckDoneNext ==
    ASSUME SafetyInv, NEW w \in Worker, CheckDone(w)
    PROVE  SafetyInv'
<1>1. CASE busy[w]
  <2>1. proposal[w] = Nothing /\ next_process' = [next_process EXCEPT ![w] = next_process[w]]
    BY <1>1 DEF CheckDone, SafetyInv, TypeOK, TargetTypes, WorkerInv
  <2> QED
    BY <1>1, <2>1, MoveNext DEF CheckDone
<1>2. CASE ~busy[w]
  BY <1>2, PopNext DEF CheckDone
<1> QED
  BY <1>1, <1>2

\* The end of send_task's critical section does not throw.
LEMMA TaskSentNext ==
    ASSUME SafetyInv, NEW w \in Worker, TaskSent(w)
    PROVE  SafetyInv'
<1>1. /\ TypeOK /\ WorkerInv /\ TargetInv /\ DetectorInv /\ PhaseInv /\ RouteInv /\ StreamInv
      /\ TaskInv /\ TreeInv /\ ScoreInv
  BY DEF SafetyInv
<1>2. pc[w] = "sending" /\ queue[w] = <<>>
  BY <1>1 DEF TaskSent, WorkerInv
<1>3. /\ transmitting' = [transmitting EXCEPT ![w] = FALSE] /\ bundle' = [bundle EXCEPT ![w] = 0]
      /\ pc' = [pc EXCEPT ![w] = "poll"]
      /\ destination_rank' = [destination_rank EXCEPT ![w] = None]
      /\ UNCHANGED <<detectorVars, next_processes, next_process, queue, busy, managerVars,
                     global_score, centerVars, countVars, netVars, historyVars>>
  BY <1>2 DEF TaskSent
<1>4. /\ pc'[w] = "poll" /\ ~transmitting'[w] /\ bundle'[w] = 0
      /\ \A v \in Worker : v # w => /\ pc'[v] = pc[v] /\ transmitting'[v] = transmitting[v]
                                    /\ bundle'[v] = bundle[v]
  BY <1>1, <1>3 DEF TypeOK, WorkerTypes
<1>5. SameSide
  BY <1>2, <1>4 DEF SameSide, Inside
<1>6. WorkerTypes' /\ TargetTypes'
  <2>1. TargetTypes'
    BY <1>1, <1>3 DEF TypeOK, TargetTypes
  <2> QED
    BY <2>1, <1>1, <1>3 DEF TypeOK, WorkerTypes, MainPC
<1>7. WorkerInv'
  BY <1>1, <1>2, <1>3, <1>4 DEF WorkerInv, Idle
<1>8. TargetInv'
  <2>1. /\ destination_rank'[w] = None
        /\ \A v \in Worker : v # w => destination_rank'[v] = destination_rank[v]
    BY <1>1, <1>3 DEF TypeOK, TargetTypes
  <2>2. w # None
    BY Ranks
  <2>3. \A v \in Worker : transmitting'[v] => destination_rank'[v] # None
    <3> SUFFICES ASSUME NEW v \in Worker, transmitting'[v] PROVE destination_rank'[v] # None
      OBVIOUS
    <3>1. v # w
      BY <1>4
    <3>2. transmitting[v] /\ destination_rank'[v] = destination_rank[v]
      BY <3>1, <1>4, <2>1
    <3> QED
      BY <3>2, <1>1 DEF TargetInv
  <2>4. \A v \in Worker : destination_rank'[v] # v
    BY <2>1, <2>2, <1>1 DEF TargetInv
  <2> QED
    BY <2>3, <2>4, <1>1, <1>3 DEF TargetInv
<1>9. TaskInv'
  <2>1. \A u : \A v \in Worker : KeptBy(u, v)' <=> KeptBy(u, v)
    BY <1>2, <1>3, <1>4 DEF KeptBy
  <2>2. \A u : Crosses(u)' <=> Crosses(u)
    BY <1>3 DEF Crosses
  <2> QED
    BY <1>1, <1>3, <2>1, <2>2, TaskKeeps
<1> QED
  BY <1>1, <1>3, <1>5, <1>6, <1>7, <1>8, <1>9, DetectorTypesFrame, ScoreTypesFrame,
     CenterTypesFrame, StreamTypesFrame, WorldTypesFrame, TaskTypesFrame, DetectorFrame,
     PhaseFrame, RouteFrame, StreamFrame, TreeFrame, ScoreFrame DEF SafetyInv, TypeOK

\* send_task does not throw: the destination is another worker.  The task is on its way and
\* counted.
LEMMA SendTaskNext ==
    ASSUME SafetyInv, NEW w \in Worker, SendTask(w)
    PROVE  SafetyInv'
<1> DEFINE m == TaskMsg(bundle[w])
           d == destination_rank[w]
<1>1. /\ TypeOK /\ WorkerInv /\ TargetInv /\ DetectorInv /\ PhaseInv /\ RouteInv /\ StreamInv
      /\ TaskInv /\ TreeInv /\ ScoreInv /\ DetectorTypes /\ world \in World
  BY DEF SafetyInv, TypeOK, WorldTypes, World
<1>2. /\ pc[w] = "send" /\ bundle[w] \in Task /\ parent[w] # None /\ queue[w] = <<>>
      /\ transmitting[w]
  BY <1>1 DEF SendTask, WorkerInv, DetectorInv, Idle
<1>3. d \in Worker /\ d # w /\ d > 0 /\ d \in Rank /\ w \in Rank /\ d # Center
  <2>1. d \in Worker \cup {None} /\ d # None /\ d # w
    BY <1>1, <1>2 DEF TypeOK, TargetTypes, TargetInv
  <2> HIDE DEF d
  <2>2. d \in Worker /\ d \in Nat /\ d # 0
    BY <2>1, Ranks
  <2> QED
    BY <2>1, <2>2, Ranks
<1>4. /\ deficit' = [deficit EXCEPT ![w] = @ + 1] /\ world' = Post(world, <<w, d>>, m)
      /\ pc' = [pc EXCEPT ![w] = "sending"]
      /\ UNCHANGED <<parent, held, bundle, channelVars, busy, managerVars, global_score,
                     centerVars, countVars, score_updates, next_messages, proposal, historyVars>>
  <2>1. ~(d <= 0 \/ d = w)
    <3>1. d \in Nat /\ d > 0 /\ d # w
      BY <1>3, Ranks
    <3> HIDE DEF d
    <3> QED
      BY <3>1
  <2> QED
    BY <2>1 DEF SendTask
<1>5. m \in WorldMsg /\ m.tag = "TASK" /\ m.task = bundle[w]
  BY <1>2, MessageTypes
<1> HIDE DEF m, d
<1>6. /\ Post(world, <<w, d>>, m) \in World
      /\ \A p, q \in Rank : \A x : x \in Messages(Post(world, <<w, d>>, m), <<p, q>>) <=>
           x \in Messages(world, <<p, q>>) \/ (p = w /\ q = d /\ x = m)
  BY <1>1, <1>3, <1>5, WorldPost
<1>7. /\ world' \in World
      /\ \A p, q \in Rank : \A x : x \in Messages(world', <<p, q>>) <=>
           x \in Messages(world, <<p, q>>) \/ (p = w /\ q = d /\ x = m)
  BY <1>4, <1>6
<1>8. \A r \in Rank : Owed(world', parent, r) = Owed(world, parent, r) + IF r = w THEN 1 ELSE 0
  BY <1>1, <1>3, <1>4, <1>5, OwedPost
<1>9. pc'[w] = "sending" /\ \A v \in Worker : v # w => pc'[v] = pc[v]
  BY <1>1, <1>4 DEF TypeOK, WorkerTypes
<1>10. /\ deficit' \in [Rank -> Nat] /\ deficit'[w] = deficit[w] + 1
       /\ \A r \in Rank : r # w => deficit'[r] = deficit[r]
  BY <1>1, <1>3, <1>4 DEF DetectorTypes
<1>11. SameSide
  BY <1>2, <1>9 DEF SameSide, Inside
<1>12. DetectorTypes' /\ WorldTypes' /\ WorkerTypes'
  <2>1. DetectorTypes' /\ WorldTypes'
    BY <1>1, <1>4, <1>7, <1>10 DEF DetectorTypes, WorldTypes, World
  <2> QED
    BY <2>1, <1>1, <1>4 DEF TypeOK, WorkerTypes, MainPC
<1>13. WorkerInv'
  BY <1>1, <1>2, <1>4, <1>9 DEF WorkerInv, Idle
<1>14. DetectorInv'
  <2>1. \A r \in Rank : deficit'[r] = Owed(world', parent', r)
    <3> SUFFICES ASSUME NEW r \in Rank PROVE deficit'[r] = Owed(world', parent', r)
      OBVIOUS
    <3>1. Owed(world, parent, r) = deficit[r] /\ deficit[r] \in Nat
      BY <1>1 DEF DetectorInv, DetectorTypes
    <3> QED
      BY <3>1, <1>4, <1>8, <1>10
  <2>2. \A v \in Worker : v \in Rank
    BY Ranks
  <2>3. \A v \in Worker : parent'[v] = None => deficit'[v] = 0 /\ pc'[v] \in Idle
    BY <2>2, <1>1, <1>2, <1>4, <1>9, <1>10 DEF DetectorInv
  <2>4. Acyclic(parent')
    BY <1>1, <1>4 DEF DetectorInv
  <2> QED
    BY <2>1, <2>3, <2>4, <1>1, <1>4 DEF DetectorInv
<1>15. PhaseInv'
  <2>1. cpc = "loop"
    BY <1>2, StillOwed
  <2> QED
    BY <2>1, <1>1, <1>4, <1>9 DEF PhaseInv, Over, Announced
<1>16. RouteInv'
  BY <1>1, <1>3, <1>4, <1>5, <1>7, RouteKeeps
<1>17. TaskInv'
  <2>1. m = TaskMsg(bundle[w])
    BY DEF m
  <2>2. \A u : Crosses(u)' <=> Crosses(u) \/ u = bundle[w]
    <3>1. ASSUME NEW u, Crosses(u)' PROVE Crosses(u) \/ u = bundle[w]
      <4>1. PICK p, q \in Rank : TaskMsg(u) \in Messages(world', <<p, q>>)
        BY <3>1 DEF Crosses
      <4>2. TaskMsg(u) \in Messages(world, <<p, q>>) \/ TaskMsg(u) = TaskMsg(bundle[w])
        BY <4>1, <2>1, <1>7
      <4> QED
        BY <4>2, MessageTypes DEF Crosses
    <3>2. ASSUME NEW u, Crosses(u) PROVE Crosses(u)'
      BY <3>2, <1>7 DEF Crosses
    <3>3. ASSUME NEW u, u = bundle[w] PROVE Crosses(u)'
      <4>1. TaskMsg(bundle[w]) \in Messages(world', <<w, d>>)
        BY <2>1, <1>3, <1>7
      <4> QED
        BY <3>3, <4>1, <1>3 DEF Crosses
    <3> QED
      BY <3>1, <3>2, <3>3
  <2>3. \A u : \A v \in Worker : KeptBy(u, v)' => KeptBy(u, v)
    BY <1>2, <1>4, <1>9 DEF KeptBy
  <2>4. \A u : \A v \in Worker : KeptBy(u, v) => KeptBy(u, v)' \/ u = bundle[w]
    BY <1>2, <1>4, <1>9 DEF KeptBy
  <2>5. KeptBy(bundle[w], w)
    BY <1>2 DEF KeptBy
  <2> QED
    BY <2>2, <2>3, <2>4, <2>5, <1>1, <1>4 DEF TaskInv
<1> QED
  BY <1>1, <1>4, <1>11, <1>12, <1>13, <1>14, <1>15, <1>16, <1>17, TargetTypesFrame,
     ScoreTypesFrame, CenterTypesFrame, StreamTypesFrame, TaskTypesFrame, TargetFrame,
     StreamFrame, TreeFrame, ScoreFrame DEF SafetyInv, TypeOK

\* A score that beats another one is not the default score.
LEMMA Better ==
    ASSUME NEW s \in Int, NEW g \in Int, should_update(g, s), Found(g)
    PROVE  s # Default /\ Found(s)
  BY ScoresAssumption DEF should_update, Found

\* update_score: a proposal is a score some task found, and the thread that makes it waits.
LEMMA Updating ==
    ASSUME SafetyInv, NEW w \in Worker, NEW g \in Scores \cup {Default}, Found(g), NEW next, NEW waiting,
           proposal[w] = Nothing, update_score(w, g, next, waiting)
    PROVE  /\ score' \in [Worker -> Scores \cup {Default}] /\ \A v \in Worker : Found(score'[v])
           /\ result' \in [Worker -> Scores \cup {Nothing}]
           /\ proposal' \in [Worker -> Scores \cup {Nothing}]
           /\ \A v \in Worker : proposal'[v] # Nothing => Found(proposal'[v])
           /\ \A v \in Worker : v # w => proposal'[v] = proposal[v] /\ pc'[v] = pc[v]
           /\ \E x \in {next, waiting} : pc' = [pc EXCEPT ![w] = x]
           /\ proposal'[w] # Nothing => pc'[w] = waiting
<1>1. TypeOK /\ ScoreInv /\ ScoreTypes /\ pc \in [Worker -> MainPC]
  BY DEF SafetyInv, TypeOK, WorkerTypes
<1>2. score[w] \in Scores \cup {Default} /\ Found(score[w]) /\ score[w] \in Int /\ g \in Int
  BY <1>1, ScoresAssumption DEF ScoreTypes, ScoreInv
<1>3. \/ /\ score' = [score EXCEPT ![w] = g] /\ result' = [result EXCEPT ![w] = Nothing]
         /\ pc' = [pc EXCEPT ![w] = next] /\ proposal' = proposal
      \/ /\ should_update(g, score[w]) /\ proposal' = [proposal EXCEPT ![w] = score[w]]
         /\ pc' = [pc EXCEPT ![w] = waiting] /\ score' = score /\ result' = result
      \/ /\ pc' = [pc EXCEPT ![w] = next] /\ UNCHANGED <<score, result, proposal>>
  BY DEF update_score
<1>4. /\ score' \in [Worker -> Scores \cup {Default}] /\ \A v \in Worker : Found(score'[v])
      /\ result' \in [Worker -> Scores \cup {Nothing}]
  BY <1>1, <1>3 DEF ScoreTypes, ScoreInv
<1>5. /\ proposal' \in [Worker -> Scores \cup {Nothing}]
      /\ \A v \in Worker : proposal'[v] # Nothing => Found(proposal'[v])
      /\ \A v \in Worker : v # w => proposal'[v] = proposal[v]
      /\ proposal'[w] # Nothing => pc'[w] = waiting
  <2>1. CASE proposal' = proposal
    BY <1>1, <2>1 DEF ScoreTypes, ScoreInv
  <2>2. CASE /\ should_update(g, score[w]) /\ proposal' = [proposal EXCEPT ![w] = score[w]]
             /\ pc' = [pc EXCEPT ![w] = waiting]
    <3>1. score[w] \in Scores /\ Found(score[w])
      BY <1>2, <2>2, Better
    <3> QED
      BY <1>1, <2>2, <3>1 DEF ScoreTypes, ScoreInv
  <2> QED
    BY <1>3, <2>1, <2>2
<1>6. \E x \in {next, waiting} : pc' = [pc EXCEPT ![w] = x]
  BY <1>3
<1>7. \A v \in Worker : v # w => pc'[v] = pc[v]
  BY <1>1, <1>6
<1> QED
  BY <1>4, <1>5, <1>6, <1>7

\* The section that protects MPI calls.
LEMMA PollCenterNext ==
    ASSUME SafetyInv, NEW w \in Worker, PollCenter(w)
    PROVE  SafetyInv'
<1>1. /\ TypeOK /\ WorkerInv /\ TargetInv /\ DetectorInv /\ PhaseInv /\ RouteInv /\ StreamInv
      /\ TaskInv /\ TreeInv /\ ScoreInv
  BY DEF SafetyInv
<1>2. /\ pc[w] = "poll" /\ update_score(w, global_score'[w], "check", "propose")
      /\ UNCHANGED <<detectorVars, bundle, destination_rank, transmitting, queue, busy, centerVars,
                     sentVars, world, historyVars>>
      /\ \E n \in {next_process[w], First(next_processes'[w])} :
           next_process' = [next_process EXCEPT ![w] = n]
  BY DEF PollCenter
<1>3. PICK ns \in 0 .. Len(score_updates[w]), nn \in 0 .. Len(next_messages[w]) :
        ReceiveFromCenter(w, ns, nn)
  <2>1. PICK ns \in maybe_receive(score_updates[w]), nn \in maybe_receive(next_messages[w]) :
          ReceiveFromCenter(w, ns, nn)
    BY DEF PollCenter
  <2>2. score_updates[w] \in Seq(Scores) /\ next_messages[w] \in Seq(Worker)
    BY <1>1 DEF TypeOK, StreamTypes, Net
  <2>3. ns \in 0 .. Len(score_updates[w])
    BY <2>2 DEF maybe_receive
  <2>4. nn \in 0 .. Len(next_messages[w])
    BY <2>2 DEF maybe_receive
  <2> QED
    BY <2>1, <2>3, <2>4
<1>4. /\ StreamTypes' /\ next_processes' \in [Worker -> Seq(Worker)]
      /\ \A v \in Worker : /\ next_processes'[v] \in Seq(Worker \ {v})
                           /\ next_messages'[v] \in Seq(Worker \ {v})
      /\ global_score' \in [Rank -> Scores \cup {Default}]
      /\ \A r \in Rank : Found(global_score'[r])
      /\ \A v \in Worker : \A s \in Messages(score_updates', v) : Found(s)
      /\ \A v \in Worker :
           /\ score_updates_sent' = score_updates_received'[v] + Len(score_updates'[v])
           /\ next_processes_sent'[v] = next_processes_received'[v] + Len(next_messages'[v])
           /\ score_updates[v] = <<>> => score_updates'[v] = <<>>
           /\ next_messages[v] = <<>> => next_messages'[v] = <<>>
  BY <1>2, <1>3, ReadingKeeps
<1>5. /\ score' \in [Worker -> Scores \cup {Default}] /\ \A v \in Worker : Found(score'[v])
      /\ result' \in [Worker -> Scores \cup {Nothing}]
      /\ proposal' \in [Worker -> Scores \cup {Nothing}]
      /\ \A v \in Worker : proposal'[v] # Nothing => Found(proposal'[v])
      /\ \A v \in Worker : v # w => proposal'[v] = proposal[v] /\ pc'[v] = pc[v]
      /\ \E x \in {"check", "propose"} : pc' = [pc EXCEPT ![w] = x]
      /\ proposal'[w] # Nothing => pc'[w] = "propose"
  <2>1. proposal[w] = Nothing
    BY <1>1, <1>2 DEF WorkerInv
  <2> DEFINE g == global_score'[w]
  <2>2. g \in Scores \cup {Default} /\ Found(g)
    BY <1>4, Ranks
  <2>3. update_score(w, g, "check", "propose")
    BY <1>2
  <2> HIDE DEF g
  <2> QED
    BY <2>1, <2>2, <2>3, Updating
<1>6. pc'[w] \in {"check", "propose"} /\ pc' \in [Worker -> MainPC]
  BY <1>1, <1>5 DEF TypeOK, WorkerTypes, MainPC
<1>7. SameSide
  BY <1>2, <1>5, <1>6 DEF SameSide, Inside
<1>8. ScoreTypes' /\ ScoreInv'
  BY <1>4, <1>5 DEF ScoreTypes, ScoreInv
<1>9. WorkerTypes' /\ WorkerInv'
  <2>1. WorkerTypes'
    BY <1>1, <1>2, <1>6 DEF TypeOK, WorkerTypes
  <2> QED
    BY <2>1, <1>1, <1>2, <1>5, <1>6 DEF WorkerInv, Idle
<1>10. StreamInv'
  BY <1>1, <1>4, <1>7 DEF StreamInv, SameSide, Inside
<1>11. TargetTypes' /\ TargetInv'
  <2>1. PICK n \in {next_process[w], First(next_processes'[w])} :
          next_process' = [next_process EXCEPT ![w] = n]
    BY <1>2
  <2>2. n \in (Worker \cup {None}) \ {w}
    <3>1. First(next_processes'[w]) \in (Worker \ {w}) \cup {None}
      BY <1>4, Lists
    <3>2. next_process[w] \in (Worker \cup {None}) \ {w} /\ w # None
      BY <1>1, Ranks DEF TypeOK, TargetTypes, TargetInv
    <3> QED
      BY <3>1, <3>2
  <2>3. TargetTypes'
    BY <2>1, <2>2, <1>1, <1>2, <1>4 DEF TypeOK, TargetTypes
  <2>4. \A v \in Worker : next_process'[v] # v
    BY <2>1, <2>2, <1>1 DEF TypeOK, TargetTypes, TargetInv
  <2> QED
    BY <2>3, <2>4, <1>1, <1>2, <1>4 DEF TargetInv
<1>12. PhaseInv'
  BY <1>1, <1>2, <1>4, <1>7 DEF PhaseInv, SameSide, Inside
<1>13. TaskInv'
  <2>1. \A u : Crosses(u)' <=> Crosses(u)
    BY <1>2 DEF Crosses
  <2>2. \A u : \A v \in Worker : KeptBy(u, v)' <=> KeptBy(u, v)
    BY <1>2, <1>5, <1>6 DEF KeptBy
  <2> QED
    BY <1>1, <1>2, <2>1, <2>2, TaskKeeps
<1> QED
  BY <1>1, <1>2, <1>4, <1>7, <1>8, <1>9, <1>10, <1>11, <1>12, <1>13, DetectorTypesFrame,
     CenterTypesFrame, WorldTypesFrame, TaskTypesFrame, DetectorFrame, RouteFrame, TreeFrame
     DEF SafetyInv, TypeOK

\* The final score update.
LEMMA FinalUpdateNext ==
    ASSUME SafetyInv, NEW w \in Worker, FinalUpdate(w)
    PROVE  SafetyInv'
<1>1. /\ TypeOK /\ WorkerInv /\ TargetInv /\ DetectorInv /\ PhaseInv /\ RouteInv /\ StreamInv
      /\ TaskInv /\ TreeInv /\ ScoreInv
  BY DEF SafetyInv
<1>2. /\ pc[w] = "final" /\ update_score(w, global_score[w], "leave", "finalpropose")
      /\ UNCHANGED <<detectorVars, bundle, channelVars, busy, global_score, centerVars, countVars,
                     world, score_updates, next_messages, historyVars>>
  BY DEF FinalUpdate
<1>3. /\ score' \in [Worker -> Scores \cup {Default}] /\ \A v \in Worker : Found(score'[v])
      /\ result' \in [Worker -> Scores \cup {Nothing}]
      /\ proposal' \in [Worker -> Scores \cup {Nothing}]
      /\ \A v \in Worker : proposal'[v] # Nothing => Found(proposal'[v])
      /\ \A v \in Worker : v # w => proposal'[v] = proposal[v] /\ pc'[v] = pc[v]
      /\ \E x \in {"leave", "finalpropose"} : pc' = [pc EXCEPT ![w] = x]
      /\ proposal'[w] # Nothing => pc'[w] = "finalpropose"
  <2>1. proposal[w] = Nothing
    BY <1>1, <1>2 DEF WorkerInv
  <2>2. global_score[w] \in Scores \cup {Default} /\ Found(global_score[w])
    BY <1>1, Ranks DEF TypeOK, ScoreTypes, ScoreInv
  <2> QED
    BY <2>1, <2>2, <1>2, Updating
<1>4. pc'[w] \in {"leave", "finalpropose"} /\ pc' \in [Worker -> MainPC]
  BY <1>1, <1>3 DEF TypeOK, WorkerTypes, MainPC
<1>5. SameSide
  BY <1>2, <1>3, <1>4 DEF SameSide, Inside
<1>6. ScoreTypes' /\ ScoreInv'
  BY <1>1, <1>2, <1>3 DEF TypeOK, ScoreTypes, ScoreInv
<1>7. WorkerTypes' /\ WorkerInv'
  <2>1. WorkerTypes'
    BY <1>1, <1>2, <1>4 DEF TypeOK, WorkerTypes
  <2> QED
    BY <2>1, <1>1, <1>2, <1>3, <1>4 DEF WorkerInv, Idle
<1>8. TaskInv'
  <2>1. \A u : Crosses(u)' <=> Crosses(u)
    BY <1>2 DEF Crosses
  <2>2. \A u : \A v \in Worker : KeptBy(u, v)' <=> KeptBy(u, v)
    BY <1>2, <1>3, <1>4 DEF KeptBy
  <2> QED
    BY <1>1, <1>2, <2>1, <2>2, TaskKeeps
<1> QED
  BY <1>1, <1>2, <1>5, <1>6, <1>7, <1>8, DetectorTypesFrame, TargetTypesFrame, CenterTypesFrame,
     StreamTypesFrame, WorldTypesFrame, TaskTypesFrame, TargetFrame, DetectorFrame, PhaseFrame,
     RouteFrame, StreamFrame, TreeFrame DEF SafetyInv, TypeOK

\* process_termination finds the worker passive, and exactly as many messages to drain as
\* are on their way: it does not throw.
LEMMA ReceiveTerminationNext ==
    ASSUME SafetyInv, NEW w \in Worker, ReceiveTermination(w)
    PROVE  SafetyInv'
<1> DEFINE h == Head(world[<<Center, w>>])
           ns == Len(score_updates[w])
           nn == Len(next_messages[w])
<1>1. /\ TypeOK /\ WorkerInv /\ TargetInv /\ DetectorInv /\ PhaseInv /\ RouteInv /\ StreamInv
      /\ TaskInv /\ TreeInv /\ ScoreInv /\ DetectorTypes /\ world \in World
      /\ w \in Rank /\ Center \in Rank
  BY Ranks DEF SafetyInv, TypeOK, WorldTypes, World
<1>2. pc[w] = "probe" /\ world[<<Center, w>>] # <<>> /\ h.tag = "TERMINATION"
  BY DEF ReceiveTermination, Arrived
<1>3. /\ h \in Messages(world, <<Center, w>>) /\ cpc \in Announced
      /\ h.counts = <<score_updates_sent, next_processes_sent[w]>>
  BY <1>1, <1>2, WorldDrop DEF RouteInv
<1>4. parent[w] = None /\ deficit[w] = 0
  BY <1>1, <1>3, Quiet DEF PhaseInv, Over, Announced
<1>5. queue[w] = <<>> /\ ~transmitting[w]
  BY <1>1, <1>2 DEF WorkerInv, Idle
<1>6. /\ ns \in Nat /\ nn \in Nat /\ score_updates_received[w] \in Nat
      /\ next_processes_received[w] \in Nat
  <2>1. score_updates[w] \in Seq(Scores) /\ next_messages[w] \in Seq(Worker)
    BY <1>1 DEF TypeOK, StreamTypes, Net
  <2>2. ns \in Nat
    BY <2>1
  <2>3. nn \in Nat
    BY <2>1
  <2> QED
    BY <1>1, <2>2, <2>3 DEF TypeOK, StreamTypes
<1>7. /\ score_updates_sent = score_updates_received[w] + ns
      /\ next_processes_sent[w] = next_processes_received[w] + nn
  BY <1>1 DEF StreamInv
<1> HIDE DEF ns, nn
<1>8. /\ pending(h.counts[1], score_updates_received[w]) = ns
      /\ pending(h.counts[2], next_processes_received[w]) = nn
  BY <1>3, <1>6, <1>7 DEF pending
<1>9. /\ ReceiveFromCenter(w, ns, nn) /\ world' = Drop(world, <<Center, w>>)
      /\ pc' = [pc EXCEPT ![w] = "barrier"]
      /\ UNCHANGED <<detectorVars, bundle, next_process, destination_rank, transmitting, queue,
                     busy, managerVars, centerVars, sentVars, proposal, historyVars>>
  <2>1. ~(ns < 0) /\ ~(nn < 0)
    BY <1>6
  <2> QED
    BY <2>1, <1>4, <1>5, <1>8 DEF ReceiveTermination
<1>10. ns \in 0 .. Len(score_updates[w]) /\ nn \in 0 .. Len(next_messages[w])
  BY <1>6 DEF ns, nn
<1>11. /\ StreamTypes' /\ next_processes' \in [Worker -> Seq(Worker)]
       /\ \A v \in Worker : /\ next_processes'[v] \in Seq(Worker \ {v})
                            /\ next_messages'[v] \in Seq(Worker \ {v})
       /\ global_score' \in [Rank -> Scores \cup {Default}]
       /\ \A r \in Rank : Found(global_score'[r])
       /\ \A v \in Worker : \A s \in Messages(score_updates', v) : Found(s)
       /\ \A v \in Worker :
            /\ score_updates_sent' = score_updates_received'[v] + Len(score_updates'[v])
            /\ next_processes_sent'[v] = next_processes_received'[v] + Len(next_messages'[v])
            /\ score_updates[v] = <<>> => score_updates'[v] = <<>>
            /\ next_messages[v] = <<>> => next_messages'[v] = <<>>
  BY <1>9, <1>10, ReadingKeeps
<1>12. score_updates'[w] = <<>> /\ next_messages'[w] = <<>>
  <2>1. /\ Len(score_updates'[w]) = Len(score_updates[w]) - ns
        /\ Len(next_messages'[w]) = Len(next_messages[w]) - nn
    BY <1>1, <1>9, <1>10, Reading DEF TypeOK
  <2>2. Len(score_updates'[w]) = 0 /\ Len(next_messages'[w]) = 0
    BY <1>6, <2>1 DEF ns, nn
  <2>3. score_updates'[w] \in Seq(Scores) /\ next_messages'[w] \in Seq(Worker)
    BY <1>11 DEF StreamTypes, Net
  <2>4. score_updates'[w] = <<>>
    BY <2>2, <2>3
  <2>5. next_messages'[w] = <<>>
    BY <2>2, <2>3
  <2> QED
    BY <2>4, <2>5
<1>13. /\ world' \in World
       /\ \A p, q \in Rank : \A x :
            /\ x \in Messages(world', <<p, q>>) => x \in Messages(world, <<p, q>>)
            /\ x \in Messages(world, <<p, q>>) => x \in Messages(world', <<p, q>>) \/ x = h
  BY <1>1, <1>2, <1>9, WorldDrop
<1>14. \A r \in Rank : Owed(world', parent, r) = Owed(world, parent, r)
  <2> SUFFICES ASSUME NEW r \in Rank PROVE Owed(world', parent, r) = Owed(world, parent, r)
    OBVIOUS
  <2>1. Owed(world, parent, r) = Owed(world', parent, r) + 0
    BY <1>1, <1>2, <1>9, OwedDrop
  <2>2. Owed(world', parent, r) \in Nat
    BY <1>13, OwedNat
  <2> QED
    BY <2>1, <2>2
<1> HIDE DEF h
<1>15. pc'[w] = "barrier" /\ \A v \in Worker : v # w => pc'[v] = pc[v]
  BY <1>1, <1>9 DEF TypeOK, WorkerTypes
<1>16. WorkerTypes' /\ WorldTypes' /\ ScoreTypes' /\ ScoreInv'
  <2>1. WorkerTypes'
    BY <1>1, <1>9 DEF TypeOK, WorkerTypes, MainPC
  <2> QED
    BY <2>1, <1>1, <1>9, <1>11, <1>13 DEF TypeOK, WorldTypes, World, ScoreTypes, ScoreInv
<1>17. WorkerInv'
  BY <1>1, <1>2, <1>9, <1>15 DEF WorkerInv, Idle
<1>18. DetectorInv'
  <2>1. \A v \in Worker : pc[v] \in Idle => pc'[v] \in Idle
    BY <1>15 DEF Idle
  <2> QED
    BY <1>1, <1>9, <1>14, <2>1, DetectorKeeps
<1>19. cpc = "barrier"
  BY <1>1, <1>2, <1>3 DEF PhaseInv, Announced
<1>20. PhaseInv'
  BY <1>1, <1>9, <1>15, <1>19 DEF PhaseInv, Over, Announced
<1>21. StreamInv'
  BY <1>1, <1>11, <1>12, <1>15 DEF StreamInv
<1>22. TaskInv'
  <2>1. \A p, q \in Rank : \A x : x.tag = "TASK" =>
          (x \in Messages(world', <<p, q>>) <=> x \in Messages(world, <<p, q>>))
    BY <1>2, <1>13 DEF h
  <2>2. \A u : Crosses(u)' <=> Crosses(u)
    BY <2>1, CrossesKeeps
  <2>3. \A u : \A v \in Worker : KeptBy(u, v)' <=> KeptBy(u, v)
    BY <1>2, <1>9, <1>15 DEF KeptBy
  <2> QED
    BY <2>2, <2>3, <1>1, <1>9, TaskKeeps
<1>23. RouteInv'
  BY <1>1, <1>9, <1>13, RouteKeeps
<1>24. TargetTypes' /\ TargetInv'
  <2>1. TargetTypes'
    BY <1>1, <1>9, <1>11 DEF TypeOK, TargetTypes
  <2> QED
    BY <2>1, <1>1, <1>9, <1>11 DEF TargetInv
<1> QED
  BY <1>1, <1>9, <1>11, <1>16, <1>17, <1>18, <1>20, <1>21, <1>22, <1>23, <1>24,
     DetectorTypesFrame, CenterTypesFrame, TaskTypesFrame, TreeFrame DEF SafetyInv, TypeOK

\* send_final_solution_to_center.
LEMMA SendSolutionNext ==
    ASSUME SafetyInv, NEW w \in Worker, SendSolution(w)
    PROVE  SafetyInv'
<1> DEFINE m == IF result[w] = Nothing THEN Msg("NO_RESULT")
                ELSE [tag |-> "HAS_RESULT", score |-> score[w], packet |-> result[w]]
<1>1. /\ TypeOK /\ WorkerInv /\ TargetInv /\ DetectorInv /\ PhaseInv /\ RouteInv /\ StreamInv
      /\ TaskInv /\ TreeInv /\ ScoreInv /\ DetectorTypes /\ world \in World
      /\ w \in Rank /\ Center \in Rank
  BY Ranks DEF SafetyInv, TypeOK, WorldTypes, World
<1>2. /\ pc[w] = "result" /\ world' = Post(world, <<w, Center>>, m)
      /\ pc' = [pc EXCEPT ![w] = "done"]
      /\ UNCHANGED <<detectorVars, bundle, channelVars, busy, managerVars, global_score,
                     centerVars, countVars, score_updates, next_messages, proposal, historyVars>>
  BY DEF SendSolution
<1>3. m \in WorldMsg /\ m.tag \in {"NO_RESULT", "HAS_RESULT"}
  <2>1. CASE result[w] = Nothing
    BY <2>1, MessageTypes
  <2>2. CASE result[w] # Nothing
    <3>1. result[w] \in Scores /\ score[w] \in Scores \cup {Default}
      BY <1>1, <2>2 DEF TypeOK, ScoreTypes
    <3> QED
      BY <2>2, <3>1 DEF WorldMsg
  <2> QED
    BY <2>1, <2>2
<1> HIDE DEF m
<1>4. /\ Post(world, <<w, Center>>, m) \in World
      /\ \A p, q \in Rank : \A x : x \in Messages(Post(world, <<w, Center>>, m), <<p, q>>) <=>
           x \in Messages(world, <<p, q>>) \/ (p = w /\ q = Center /\ x = m)
  BY <1>1, <1>3, WorldPost
<1>5. /\ world' \in World
      /\ \A p, q \in Rank : \A x : x \in Messages(world', <<p, q>>) <=>
           x \in Messages(world, <<p, q>>) \/ (p = w /\ q = Center /\ x = m)
  BY <1>2, <1>4
<1>6. \A r \in Rank : Owed(world', parent, r) = Owed(world, parent, r)
  <2> SUFFICES ASSUME NEW r \in Rank PROVE Owed(world', parent, r) = Owed(world, parent, r)
    OBVIOUS
  <2>1. m.tag # "TASK" /\ m.tag # "TASK_RECEIVED"
    BY <1>3
  <2>2. Owed(Post(world, <<w, Center>>, m), parent, r) = Owed(world, parent, r) + 0
    BY <2>1, <1>1, <1>3, OwedPost
  <2>3. Owed(world, parent, r) \in Nat
    BY <1>1, OwedNat
  <2> QED
    BY <2>2, <2>3, <1>2
<1>7. pc'[w] = "done" /\ \A v \in Worker : v # w => pc'[v] = pc[v]
  BY <1>1, <1>2 DEF TypeOK, WorkerTypes
<1>8. cpc \in Announced
  BY <1>1, <1>2 DEF PhaseInv
<1>9. WorkerTypes' /\ WorldTypes'
  <2>1. WorkerTypes'
    BY <1>1, <1>2 DEF TypeOK, WorkerTypes, MainPC
  <2> QED
    BY <2>1, <1>5 DEF WorldTypes, World
<1>10. WorkerInv'
  BY <1>1, <1>2, <1>7 DEF WorkerInv, Idle
<1>11. DetectorInv'
  <2>1. \A v \in Worker : pc[v] \in Idle => pc'[v] \in Idle
    BY <1>7 DEF Idle
  <2> QED
    BY <1>1, <1>2, <1>6, <2>1, DetectorKeeps
<1>12. PhaseInv'
  BY <1>1, <1>2, <1>7, <1>8 DEF PhaseInv, Over, Announced
<1>13. StreamInv'
  BY <1>1, <1>2, <1>7 DEF StreamInv
<1>14. TaskInv'
  <2>1. \A p, q \in Rank : \A x : x.tag = "TASK" =>
          (x \in Messages(world', <<p, q>>) <=> x \in Messages(world, <<p, q>>))
    BY <1>3, <1>5
  <2>2. \A u : Crosses(u)' <=> Crosses(u)
    BY <2>1, CrossesKeeps
  <2>3. \A u : \A v \in Worker : KeptBy(u, v)' <=> KeptBy(u, v)
    BY <1>2, <1>7 DEF KeptBy
  <2> QED
    BY <2>2, <2>3, <1>1, <1>2, TaskKeeps
<1>15. RouteInv'
  BY <1>1, <1>2, <1>3, <1>5, RouteKeeps
<1> QED
  BY <1>1, <1>2, <1>9, <1>10, <1>11, <1>12, <1>13, <1>14, <1>15, DetectorTypesFrame,
     TargetTypesFrame, ScoreTypesFrame, CenterTypesFrame, StreamTypesFrame, TaskTypesFrame,
     TargetFrame, TreeFrame, ScoreFrame DEF SafetyInv, TypeOK

-----------------------------------------------------------------------------
(* The worker's pool threads *)

\* A pool thread only works while its main thread is inside task_funneling, and then the
\* center is in its loop.
LEMMA PoolWorks ==
    ASSUME SafetyInv, NEW w \in Worker, busy[w]
    PROVE  /\ pc[w] \in Inside \ {"final", "finalpropose", "leave"} /\ parent[w] # None
           /\ cpc = "loop"
<1>1. pc[w] \notin Idle \cup {"final", "finalpropose", "leave", "threw"} /\ pc[w] \in MainPC
  BY DEF SafetyInv, TypeOK, WorkerTypes, WorkerInv
<1>2. parent[w] # None
  BY <1>1 DEF SafetyInv, DetectorInv
<1> QED
  BY <1>1, <1>2, StillOwed DEF Idle, MainPC, Inside

\* force_push does not throw, and only a rank that the center still waits for creates tasks.
LEMMA PushNext ==
    ASSUME SafetyInv, NEW w \in Worker, Push(w)
    PROVE  SafetyInv'
<1>1. /\ TypeOK /\ WorkerInv /\ TargetInv /\ DetectorInv /\ PhaseInv /\ RouteInv /\ StreamInv
      /\ TaskInv /\ TreeInv /\ ScoreInv
  BY DEF SafetyInv
<1>2. /\ busy[w] /\ ~transmitting[w] /\ issued < MaxTasks /\ next_process[w] > 0
      /\ transmitting' = [transmitting EXCEPT ![w] = TRUE]
      /\ destination_rank' = [destination_rank EXCEPT ![w] = next_process[w]]
      /\ next_processes' = [next_processes EXCEPT ![w] = shift_left(@)]
      /\ UNCHANGED <<detectorVars, bundle, next_process, busy, managerVars, global_score,
                     centerVars, countVars, netVars, executed, best>>
  BY DEF Push
<1>3. queue[w] = <<>> /\ pc[w] \notin {"send", "sending"}
  BY <1>1, <1>2 DEF WorkerInv
<1>4. queue' = [queue EXCEPT ![w] = Append(@, issued + 1)] /\ issued' = issued + 1 /\ pc' = pc
  BY <1>3 DEF Push
<1>5. pc[w] \in Inside \ {"final", "finalpropose", "leave"} /\ cpc = "loop"
  BY <1>2, PoolWorks
<1>6. issued \in Nat /\ issued + 1 \in Task /\ issued' \in 0 .. MaxTasks
  BY <1>1, <1>2, <1>4, MaxTasksAssumption DEF TypeOK, TaskTypes, Task
<1> DEFINE t == issued + 1
<1>7. t \in Task /\ issued' = t
  BY <1>4, <1>6
<1> HIDE DEF t
<1>8. /\ queue'[w] = <<t>> /\ \A v \in Worker : v # w => queue'[v] = queue[v]
      /\ queue' \in [Worker -> Seq(Task)]
  <2>1. queue \in [Worker -> Seq(Task)]
    BY <1>1 DEF TypeOK, WorkerTypes
  <2>2. Append(queue[w], t) = <<t>> /\ <<t>> \in Seq(Task)
    BY <1>3, <1>7
  <2> QED
    BY <2>1, <2>2, <1>4 DEF t
<1>9. queue'[w] # <<>> /\ Len(queue'[w]) = 1 /\ Head(queue'[w]) = t
  BY <1>8
<1>10. transmitting'[w] /\ \A v \in Worker : v # w => transmitting'[v] = transmitting[v]
  BY <1>1, <1>2 DEF TypeOK, WorkerTypes
<1>11. WorkerTypes' /\ TaskTypes'
  <2>1. WorkerTypes'
    BY <1>1, <1>2, <1>4, <1>8 DEF TypeOK, WorkerTypes
  <2>2. TaskTypes'
    BY <1>1, <1>2, <1>4, <1>6 DEF TypeOK, TaskTypes
  <2> QED
    BY <2>1, <2>2
<1>12. WorkerInv'
  <2>1. ASSUME NEW v \in Worker, v # w
        PROVE  /\ pc'[v] = pc[v] /\ busy'[v] = busy[v] /\ queue'[v] = queue[v]
               /\ transmitting'[v] = transmitting[v] /\ bundle'[v] = bundle[v]
               /\ proposal'[v] = proposal[v]
    BY <2>1, <1>2, <1>4, <1>8, <1>10
  <2>2. pc'[w] \notin Idle \cup {"final", "finalpropose", "leave", "send", "sending", "threw"}
    BY <1>3, <1>4, <1>5 DEF Inside, Idle
  <2>3. bundle'[w] = 0 /\ (proposal'[w] # Nothing => pc'[w] \in {"propose", "finalpropose"})
    BY <1>1, <1>2, <1>3, <1>4 DEF WorkerInv
  <2> QED
    BY <1>1, <1>9, <1>10, <2>1, <2>2, <2>3 DEF WorkerInv
<1>13. TargetTypes' /\ TargetInv'
  <2> DEFINE n == next_process[w]
  <2>1. n \in Worker \ {w}
    <3>1. n \in Worker \cup {None} /\ n # w /\ n > 0
      BY <1>1, <1>2 DEF TypeOK, TargetTypes, TargetInv
    <3>2. None \in Int /\ ~(None > 0)
      BY DEF None
    <3> HIDE DEF n
    <3> QED
      BY <3>1, <3>2
  <2>2. destination_rank' = [destination_rank EXCEPT ![w] = n]
    BY <1>2
  <2>3. /\ shift_left(next_processes[w]) \in Seq(Worker \ {w})
        /\ shift_left(next_processes[w]) \in Seq(Worker)
    BY <1>1, Lists DEF TypeOK, TargetTypes, TargetInv
  <2> HIDE DEF n
  <2>4. TargetTypes'
    BY <2>1, <2>2, <2>3, <1>1, <1>2 DEF TypeOK, TargetTypes
  <2>5. /\ destination_rank'[w] = n
        /\ \A v \in Worker : v # w => destination_rank'[v] = destination_rank[v]
    BY <2>2, <1>1 DEF TypeOK, TargetTypes
  <2>6. \A v \in Worker : next_processes'[v] \in Seq(Worker \ {v})
    BY <2>3, <1>1, <1>2 DEF TypeOK, TargetTypes, TargetInv
  <2>7. \A v \in Worker : destination_rank'[v] # v
    BY <2>1, <2>5, <1>1 DEF TargetInv
  <2>8. \A v \in Worker : transmitting'[v] => destination_rank'[v] # None
    <3> SUFFICES ASSUME NEW v \in Worker, transmitting'[v] PROVE destination_rank'[v] # None
      OBVIOUS
    <3>1. CASE v = w
      BY <3>1, <2>1, <2>5, Ranks
    <3>2. CASE v # w
      <4>1. transmitting[v] /\ destination_rank'[v] = destination_rank[v]
        BY <3>2, <1>10, <2>5
      <4> QED
        BY <4>1, <1>1 DEF TargetInv
    <3> QED
      BY <3>1, <3>2
  <2> QED
    BY <2>4, <2>6, <2>7, <2>8, <1>1, <1>2 DEF TargetInv
<1>14. PhaseInv'
  BY <1>1, <1>2, <1>4, <1>5 DEF PhaseInv, Over, Announced
<1>15. TaskInv'
  <2>1. \A u : Crosses(u)' <=> Crosses(u)
    BY <1>2 DEF Crosses
  <2>2. \A u : ~KeptBy(u, w) /\ (KeptBy(u, w)' <=> u = t)
    BY <1>3, <1>4, <1>9 DEF KeptBy
  <2>3. \A u : \A v \in Worker : v # w => (KeptBy(u, v)' <=> KeptBy(u, v))
    BY <1>2, <1>4, <1>8 DEF KeptBy
  <2>4. \A u \in 1 .. issued' : u \in 1 .. issued \/ u = t
    BY <1>4, <1>6 DEF t
  <2>5. \A u \in Task : u <= issued \/ u = t => u <= issued'
    BY <1>4, <1>6 DEF t, Task
  <2>6. \A u \in 1 .. issued' : u \in executed' \/ Crosses(u)' \/ \E v \in Worker : KeptBy(u, v)'
    BY <1>1, <1>2, <2>1, <2>2, <2>3, <2>4 DEF TaskInv
  <2>7. \A u \in Task : Crosses(u)' \/ (\E v \in Worker : KeptBy(u, v)') => u <= issued'
    <3>1. ASSUME NEW u \in Task, u # t, Crosses(u)' \/ \E v \in Worker : KeptBy(u, v)'
          PROVE  u <= issued
      <4>1. Crosses(u) \/ \E v \in Worker : KeptBy(u, v)
        BY <3>1, <2>1, <2>2, <2>3
      <4> QED
        BY <4>1, <1>1 DEF TaskInv
    <3> QED
      BY <3>1, <2>5
  <2> QED
    BY <2>6, <2>7 DEF TaskInv
<1>16. SameSide
  BY <1>4 DEF SameSide
<1> QED
  BY <1>1, <1>2, <1>11, <1>12, <1>13, <1>14, <1>15, <1>16, DetectorTypesFrame, ScoreTypesFrame,
     CenterTypesFrame, StreamTypesFrame, WorldTypesFrame, DetectorFrame, RouteFrame, StreamFrame,
     TreeFrame, ScoreFrame DEF SafetyInv, TypeOK

\* try_update_result changes scores only.
LEMMA FindResultNext ==
    ASSUME SafetyInv, NEW w \in Worker, NEW s \in Scores, FindResult(w, s)
    PROVE  SafetyInv'
<1>1. /\ TypeOK /\ WorkerInv /\ TargetInv /\ DetectorInv /\ PhaseInv /\ RouteInv /\ StreamInv
      /\ TaskInv /\ TreeInv /\ ScoreInv
  BY DEF SafetyInv
<1>2. /\ should_update(score[w], s) /\ score' = [score EXCEPT ![w] = s]
      /\ result' = [result EXCEPT ![w] = s]
      /\ UNCHANGED <<detectorVars, mainVars, channelVars, busy, global_score, centerVars,
                     countVars, netVars, issued, executed>>
  BY DEF FindResult
<1>3. Found(s)
  <2>1. score[w] \in Int /\ s \in Int /\ Found(score[w])
    BY <1>1, ScoresAssumption DEF TypeOK, ScoreTypes, ScoreInv
  <2> QED
    BY <1>2, <2>1, Better
<1>4. ScoreTypes' /\ ScoreInv'
  BY <1>1, <1>2, <1>3 DEF TypeOK, ScoreTypes, ScoreInv
<1>5. SameSide
  BY <1>2 DEF SameSide
<1> QED
  BY <1>1, <1>2, <1>4, <1>5, DetectorTypesFrame, WorkerTypesFrame, TargetTypesFrame,
     CenterTypesFrame, StreamTypesFrame, WorldTypesFrame, TaskTypesFrame, WorkerFrame,
     TargetFrame, DetectorFrame, PhaseFrame, RouteFrame, StreamFrame, TaskFrame, TreeFrame
     DEF SafetyInv, TypeOK

\* The pool runs out of tasks.
LEMMA PoolDoneNext ==
    ASSUME SafetyInv, NEW w \in Worker, PoolDone(w)
    PROVE  SafetyInv'
<1>1. /\ TypeOK /\ WorkerInv /\ TargetInv /\ DetectorInv /\ PhaseInv /\ RouteInv /\ StreamInv
      /\ TaskInv /\ TreeInv /\ ScoreInv
  BY DEF SafetyInv
<1>2. /\ busy' = [busy EXCEPT ![w] = FALSE]
      /\ UNCHANGED <<detectorVars, mainVars, channelVars, managerVars, global_score, centerVars,
                     countVars, netVars, historyVars>>
  BY DEF PoolDone
<1>3. WorkerTypes' /\ SameSide
  BY <1>1, <1>2 DEF TypeOK, WorkerTypes, SameSide
<1>4. WorkerInv'
  BY <1>1, <1>2 DEF WorkerInv, TypeOK, WorkerTypes
<1> QED
  BY <1>1, <1>2, <1>3, <1>4, DetectorTypesFrame, TargetTypesFrame, ScoreTypesFrame,
     CenterTypesFrame, StreamTypesFrame, WorldTypesFrame, TaskTypesFrame, TargetFrame,
     DetectorFrame, PhaseFrame, RouteFrame, StreamFrame, TaskFrame, TreeFrame, ScoreFrame
     DEF SafetyInv, TypeOK

-----------------------------------------------------------------------------
(* The center *)

\* The lists of children of all ranks.
Trees == [Worker -> Seq(Worker)]

\* A rank is assigned if it is in a list of children.
LEMMA AssignedDef ==
    ASSUME NEW tree, NEW r
    PROVE  is_assigned(tree, r) <=> \E p \in Worker : \E i \in DOMAIN tree[p] : tree[p][i] = r
<1>1. ASSUME NEW p \in Worker, NEW i \in DOMAIN tree[p], tree[p][i] = r
      PROVE  <<p, i>> \in Places(tree, r)
  <2>1. <<p, i>> \in {p} \X DOMAIN tree[p] /\ <<p, i>>[1] = p /\ <<p, i>>[2] = i
    OBVIOUS
  <2> QED
    BY <2>1, <1>1 DEF Places
<1>2. ASSUME NEW x \in Places(tree, r)
      PROVE  x[1] \in Worker /\ x[2] \in DOMAIN tree[x[1]] /\ tree[x[1]][x[2]] = r
  BY <1>2 DEF Places
<1> QED
  BY <1>1, <1>2 DEF is_assigned

\* A list without its i-th element.
LEMMA RemoveAtIn ==
    ASSUME NEW M, NEW s \in Seq(M), NEW i \in DOMAIN s
    PROVE  /\ RemoveAt(s, i) \in Seq(M) /\ DOMAIN RemoveAt(s, i) = 1 .. Len(s) - 1
           /\ \A j \in 1 .. Len(s) - 1 : RemoveAt(s, i)[j] = s[IF j < i THEN j ELSE j + 1]
<1> DEFINE a == SubSeq(s, 1, i - 1)
           b == SubSeq(s, i + 1, Len(s))
<1>1. Len(s) \in Nat /\ i \in 1 .. Len(s)
  OBVIOUS
<1>2. a \in Seq(M) /\ Len(a) = i - 1 /\ \A j \in 1 .. i - 1 : a[j] = s[j]
  BY <1>1
<1>3. b \in Seq(M) /\ Len(b) = Len(s) - i /\ \A j \in 1 .. Len(s) - i : b[j] = s[i + j]
  BY <1>1
<1> HIDE DEF a, b
<1>4. /\ a \o b \in Seq(M) /\ Len(a \o b) = Len(a) + Len(b)
      /\ \A j \in 1 .. Len(a) + Len(b) : (a \o b)[j] = IF j <= Len(a) THEN a[j] ELSE b[j - Len(a)]
  BY <1>2, <1>3, ConcatProperties
<1> DEFINE c == a \o b
<1>5. /\ c \in Seq(M) /\ Len(c) = Len(a) + Len(b)
      /\ \A j \in 1 .. Len(a) + Len(b) : c[j] = IF j <= Len(a) THEN a[j] ELSE b[j - Len(a)]
  BY <1>4
<1> HIDE DEF c
<1>6. DOMAIN c = 1 .. Len(s) - 1
  BY <1>1, <1>2, <1>3, <1>5
<1>7. ASSUME NEW j \in 1 .. Len(s) - 1 PROVE c[j] = s[IF j < i THEN j ELSE j + 1]
  <2>1. CASE j < i
    BY <2>1, <1>1, <1>2, <1>3, <1>5, SMTT(30)
  <2>2. CASE ~(j < i)
    <3>1. c[j] = b[j - (i - 1)] /\ j - (i - 1) \in 1 .. Len(s) - i
      <4>1. Len(a) + Len(b) = Len(s) - 1 /\ ~(j <= Len(a)) /\ j - (i - 1) \in 1 .. Len(s) - i
        <5> DEFINE n == Len(s)
        <5>1. /\ n \in Nat /\ i \in 1 .. n /\ j \in 1 .. n - 1 /\ ~(j < i)
              /\ Len(a) = i - 1 /\ Len(b) = n - i
          BY <2>2, <1>1, <1>2, <1>3
        <5> HIDE DEF n
        <5>2. \A x, y, u, v \in Int : u = x - 1 /\ v = y - x => u + v = y - 1
          OBVIOUS
        <5>3. Len(a) + Len(b) = n - 1
          BY <5>1, <5>2
        <5>4. ~(j <= Len(a))
          BY <5>1
        <5>5. j - (i - 1) \in 1 .. n - i
          BY <5>1
        <5> QED
          BY <5>3, <5>4, <5>5 DEF n
      <4>2. c[j] = b[j - Len(a)]
        BY <4>1, <1>5
      <4> QED
        BY <4>1, <4>2, <1>2
    <3>2. i + (j - (i - 1)) = j + 1
      BY <1>1
    <3> QED
      BY <2>2, <3>1, <3>2, <1>3
  <2> QED
    BY <2>1, <2>2
<1> QED
  BY <1>5, <1>6, <1>7 DEF RemoveAt, a, b, c

\* tree_node::release takes a rank out of the tree, and no other.
LEMMA ReleaseTree ==
    ASSUME NEW tree \in Trees, Distinct(tree), NEW r
    PROVE  /\ release(tree, r) \in Trees /\ Distinct(release(tree, r))
           /\ \A v : is_assigned(release(tree, r), v) <=> v # r /\ is_assigned(tree, v)
<1>1. CASE ~is_assigned(tree, r)
  BY <1>1 DEF release
<1>2. CASE is_assigned(tree, r)
  <2> DEFINE x == CHOOSE y \in Places(tree, r) : TRUE
             p == x[1]
             k == x[2]
             new == [tree EXCEPT ![p] = RemoveAt(@, k)]
  <2>1. x \in Places(tree, r) /\ release(tree, r) = new
    BY <1>2 DEF is_assigned, release
  <2> HIDE DEF x
  <2>2. p \in Worker /\ k \in DOMAIN tree[p] /\ tree[p][k] = r
    BY <2>1 DEF Places
  <2> HIDE DEF p, k
  <2>3. tree[p] \in Seq(Worker) /\ Len(tree[p]) \in Nat /\ DOMAIN tree[p] = 1 .. Len(tree[p])
        /\ k \in 1 .. Len(tree[p])
    BY <2>2 DEF Trees
  <2>4. /\ RemoveAt(tree[p], k) \in Seq(Worker)
        /\ DOMAIN RemoveAt(tree[p], k) = 1 .. Len(tree[p]) - 1
        /\ \A j \in 1 .. Len(tree[p]) - 1 :
             RemoveAt(tree[p], k)[j] = tree[p][IF j < k THEN j ELSE j + 1]
    BY <2>2, <2>3, RemoveAtIn
  <2>5. /\ new \in Trees /\ new[p] = RemoveAt(tree[p], k)
        /\ \A q \in Worker : q # p => new[q] = tree[q]
    BY <2>2, <2>4 DEF Trees
  <2> HIDE DEF new
  <2> DEFINE at(q, j) == IF q = p /\ ~(j < k) THEN j + 1 ELSE j
  <2>6. ASSUME NEW q \in Worker, NEW j \in DOMAIN new[q]
        PROVE  /\ at(q, j) \in DOMAIN tree[q] /\ new[q][j] = tree[q][at(q, j)]
               /\ ~(q = p /\ at(q, j) = k)
    <3>1. CASE q # p
      BY <3>1, <2>5
    <3>2. CASE q = p
      <4>1. j \in 1 .. Len(tree[p]) - 1 /\ new[q][j] = tree[p][IF j < k THEN j ELSE j + 1]
        BY <3>2, <2>4, <2>5
      <4> QED
        BY <3>2, <4>1, <2>3
    <3> QED
      BY <3>1, <3>2
  <2>7. ASSUME NEW q \in Worker, NEW i \in DOMAIN tree[q], ~(q = p /\ i = k)
        PROVE  \E j \in DOMAIN new[q] : new[q][j] = tree[q][i]
    <3>1. CASE q # p
      BY <3>1, <2>5
    <3>2. CASE q = p
      <4>1. i \in 1 .. Len(tree[p]) /\ i # k
        BY <2>7, <3>2, <2>3
      <4>2. CASE i < k
        <5>1. i \in 1 .. Len(tree[p]) - 1
          BY <4>1, <4>2, <2>3
        <5>2. i \in DOMAIN new[q] /\ new[q][i] = tree[q][i]
          BY <3>2, <4>2, <5>1, <2>4, <2>5
        <5> QED
          BY <5>2
      <4>3. CASE ~(i < k)
        <5>1. i - 1 \in 1 .. Len(tree[p]) - 1 /\ ~(i - 1 < k) /\ (i - 1) + 1 = i
          BY <4>1, <4>3, <2>3
        <5>2. i - 1 \in DOMAIN new[q] /\ new[q][i - 1] = tree[q][i]
          BY <3>2, <5>1, <2>4, <2>5
        <5> QED
          BY <5>2
      <4> QED
        BY <4>2, <4>3
    <3> QED
      BY <3>1, <3>2
  <2>8. Distinct(new)
    <3> SUFFICES ASSUME NEW a \in Worker, NEW b \in Worker, NEW i \in DOMAIN new[a],
                        NEW j \in DOMAIN new[b], new[a][i] = new[b][j]
                 PROVE  a = b /\ i = j
      BY DEF Distinct
    <3>1. a = b /\ at(a, i) = at(b, j)
      <4>1. /\ at(a, i) \in DOMAIN tree[a] /\ at(b, j) \in DOMAIN tree[b]
            /\ tree[a][at(a, i)] = tree[b][at(b, j)]
        BY <2>6
      <4> HIDE DEF at
      <4> QED
        BY <4>1 DEF Distinct
    <3>2. CASE a # p
      BY <3>1, <3>2
    <3>3. CASE a = p
      <4>1. i \in 1 .. Len(tree[p]) - 1 /\ j \in 1 .. Len(tree[p]) - 1
        BY <3>1, <3>3, <2>4, <2>5
      <4>2. i \in Int /\ j \in Int
        BY <4>1, <2>3
      <4> QED
        BY <3>1, <3>3, <4>2, <2>3
    <3> QED
      BY <3>2, <3>3
  <2>9. ASSUME NEW v PROVE is_assigned(new, v) <=> v # r /\ is_assigned(tree, v)
    <3>1. ASSUME is_assigned(new, v) PROVE v # r /\ is_assigned(tree, v)
      <4>1. PICK q \in Worker : \E j \in DOMAIN new[q] : new[q][j] = v
        BY <3>1, AssignedDef
      <4>2. PICK i \in DOMAIN tree[q] : tree[q][i] = v /\ ~(q = p /\ i = k)
        BY <4>1, <2>6
      <4>3. v # r
        BY <4>2, <2>2 DEF Distinct
      <4> QED
        BY <4>2, <4>3, AssignedDef
    <3>2. ASSUME v # r, is_assigned(tree, v) PROVE is_assigned(new, v)
      <4>1. PICK q \in Worker : \E i \in DOMAIN tree[q] : tree[q][i] = v
        BY <3>2, AssignedDef
      <4>2. PICK i \in DOMAIN tree[q] : tree[q][i] = v
        BY <4>1
      <4>3. ~(q = p /\ i = k)
        BY <3>2, <4>2, <2>2
      <4>4. \E j \in DOMAIN new[q] : new[q][j] = v
        BY <4>2, <4>3, <2>7
      <4> QED
        BY <4>4, AssignedDef
    <3> QED
      BY <3>1, <3>2
  <2> QED
    BY <2>1, <2>5, <2>8, <2>9
<1> QED
  BY <1>1, <1>2

\* tree_node::add_next of a rank that has no parent puts it into the tree, and no other.
LEMMA AddNext ==
    ASSUME NEW tree \in Trees, Distinct(tree), NEW w \in Worker, NEW v \in Worker,
           ~is_assigned(tree, v)
    PROVE  LET new == [tree EXCEPT ![w] = Append(@, v)] IN
           /\ new \in Trees /\ Distinct(new)
           /\ \A u : is_assigned(new, u) <=> u = v \/ is_assigned(tree, u)
<1> DEFINE new == [tree EXCEPT ![w] = Append(@, v)]
           n == Len(tree[w])
<1>1. tree[w] \in Seq(Worker) /\ n \in Nat /\ DOMAIN tree[w] = 1 .. n
  BY DEF Trees
<1>2. /\ Append(tree[w], v) \in Seq(Worker) /\ DOMAIN Append(tree[w], v) = 1 .. n + 1
      /\ Append(tree[w], v)[n + 1] = v
      /\ \A j \in 1 .. n : Append(tree[w], v)[j] = tree[w][j]
  BY <1>1
<1>3. /\ new \in Trees /\ new[w] = Append(tree[w], v)
      /\ \A q \in Worker : q # w => new[q] = tree[q]
  BY <1>2 DEF Trees
<1> HIDE DEF new, n
<1>4. /\ DOMAIN new[w] = DOMAIN tree[w] \cup {n + 1} /\ n + 1 \notin DOMAIN tree[w]
      /\ new[w][n + 1] = v /\ \A j \in DOMAIN tree[w] : new[w][j] = tree[w][j]
  BY <1>1, <1>2, <1>3
<1>5. \A q \in Worker : \A j \in DOMAIN tree[q] : tree[q][j] # v
  BY AssignedDef
<1>6. ASSUME NEW q \in Worker, NEW j
      PROVE  /\ j \in DOMAIN new[q] <=> j \in DOMAIN tree[q] \/ (q = w /\ j = n + 1)
             /\ j \in DOMAIN tree[q] => new[q][j] = tree[q][j] /\ new[q][j] # v
             /\ q = w /\ j = n + 1 => new[q][j] = v
  <2>1. CASE q # w
    BY <2>1, <1>3, <1>5
  <2>2. CASE q = w
    BY <2>2, <1>4, <1>5
  <2> QED
    BY <2>1, <2>2
<1>7. Distinct(new)
  <2> SUFFICES ASSUME NEW a \in Worker, NEW b \in Worker, NEW i \in DOMAIN new[a],
                      NEW j \in DOMAIN new[b], new[a][i] = new[b][j]
               PROVE  a = b /\ i = j
    BY DEF Distinct
  <2>1. CASE new[a][i] = v
    <3>1. a = w /\ i = n + 1
      BY <2>1, <1>6
    <3>2. b = w /\ j = n + 1
      BY <2>1, <1>6, ZenonT(60)
    <3> QED
      BY <3>1, <3>2
  <2>2. CASE new[a][i] # v
    <3>1. i \in DOMAIN tree[a] /\ j \in DOMAIN tree[b] /\ tree[a][i] = tree[b][j]
      BY <2>2, <1>6
    <3> QED
      BY <3>1 DEF Distinct
  <2> QED
    BY <2>1, <2>2
<1>8. ASSUME NEW u PROVE is_assigned(new, u) <=> u = v \/ is_assigned(tree, u)
  <2>1. is_assigned(new, u) <=> \E p \in Worker : \E i \in DOMAIN new[p] : new[p][i] = u
    BY AssignedDef
  <2>2. is_assigned(tree, u) <=> \E p \in Worker : \E i \in DOMAIN tree[p] : tree[p][i] = u
    BY AssignedDef
  <2> QED
    BY <2>1, <2>2, <1>6
<1> QED
  BY <1>3, <1>7, <1>8 DEF new

\* get_available ends at an available rank.
LEMMA LeastIn ==
    ASSUME NEW S \in SUBSET Nat, S # {}
    PROVE  Least(S) \in S
<1> DEFINE R == {p \in Nat \X Nat : p[1] < p[2]}
<1>0. IsWellFoundedOn(R, Nat)
  BY NatLessThanWellFounded, Zenon DEF OpToRel
<1> HIDE DEF R
<1>1. PICK x \in S : \A y \in S : ~(<<y, x>> \in R)
  BY <1>0, WFMin
<1>2. \A y \in S : x <= y
  <2> SUFFICES ASSUME NEW y \in S PROVE x <= y
    OBVIOUS
  <2>1. <<y, x>> \in Nat \X Nat /\ <<y, x>> \notin R
    BY <1>1
  <2> QED
    BY <2>1 DEF R
<1> QED
  BY <1>2 DEF Least

\* A message of a channel to the center is read that is neither a task nor an acknowledgement.
LEMMA CenterReads ==
    ASSUME SafetyInv, NEW w \in Worker, world[<<w, Center>>] # <<>>,
           world' = Drop(world, <<w, Center>>),
           Head(world[<<w, Center>>]).tag \notin {"TASK", "TASK_RECEIVED"},
           UNCHANGED <<deficit, parent, held, pc, bundle, queue, issued, executed>>,
           cpc \in Announced => cpc' \in Announced,
           cpc \in Announced => UNCHANGED <<score_updates_sent, next_processes_sent>>
    PROVE  WorldTypes' /\ DetectorInv' /\ RouteInv' /\ TaskInv'
<1> DEFINE h == Head(world[<<w, Center>>])
<1>1. world \in World /\ DetectorInv /\ RouteInv /\ TaskInv /\ w \in Rank /\ Center \in Rank
  BY Ranks DEF SafetyInv, TypeOK, WorldTypes, World
<1>2. /\ world' \in World
      /\ \A p, q \in Rank : \A x :
           /\ x \in Messages(world', <<p, q>>) => x \in Messages(world, <<p, q>>)
           /\ x \in Messages(world, <<p, q>>) => x \in Messages(world', <<p, q>>) \/ x = h
  BY <1>1, WorldDrop
<1>3. \A r \in Rank : Owed(world', parent, r) = Owed(world, parent, r)
  <2> SUFFICES ASSUME NEW r \in Rank PROVE Owed(world', parent, r) = Owed(world, parent, r)
    OBVIOUS
  <2>1. Owed(world, parent, r) = Owed(world', parent, r) + 0
    BY <1>1, OwedDrop
  <2>2. Owed(world', parent, r) \in Nat
    BY <1>2, OwedNat
  <2> QED
    BY <2>1, <2>2
<1>4. WorldTypes'
  BY <1>2 DEF WorldTypes, World
<1>5. DetectorInv'
  BY <1>1, <1>3, DetectorKeeps
<1>6. RouteInv'
  BY <1>1, <1>2, RouteKeeps
<1>7. TaskInv'
  <2>1. \A p, q \in Rank : \A x : x.tag = "TASK" =>
          (x \in Messages(world', <<p, q>>) <=> x \in Messages(world, <<p, q>>))
    BY <1>2
  <2>2. \A u : Crosses(u)' <=> Crosses(u)
    BY <2>1, CrossesKeeps
  <2>3. \A u : \A v \in Worker : KeptBy(u, v)' <=> KeptBy(u, v)
    BY DEF KeptBy
  <2> QED
    BY <2>2, <2>3, <1>1, TaskKeeps
<1> QED
  BY <1>4, <1>5, <1>6, <1>7

\* The ranks' states and the tree after the first part of a handler.
States == [Worker -> {"AVAILABLE", "ASSIGNED", "RUNNING"}]
Agree(tree, state) ==
    tree \in Trees /\ state \in States /\ Distinct(tree)
      /\ \A v \in Worker : state[v] = "ASSIGNED" <=> is_assigned(tree, v)

\* release and the new state of the rank that sent the message.
LEMMA Released ==
    ASSUME SafetyInv, NEW w \in Worker, NEW x \in {"AVAILABLE", "RUNNING"}
    PROVE  Agree(release(children, w), [process_state EXCEPT ![w] = x])
<1>1. children \in Trees /\ Distinct(children) /\ process_state \in States
      /\ \A v \in Worker : process_state[v] = "ASSIGNED" <=> is_assigned(children, v)
  BY DEF SafetyInv, TypeOK, CenterTypes, TreeInv, Trees, States
<1>2. /\ release(children, w) \in Trees /\ Distinct(release(children, w))
      /\ \A v : is_assigned(release(children, w), v) <=> v # w /\ is_assigned(children, v)
  BY <1>1, ReleaseTree
<1> DEFINE state == [process_state EXCEPT ![w] = x]
<1>3. state \in States /\ \A v \in Worker : state[v] = IF v = w THEN x ELSE process_state[v]
  BY <1>1 DEF States
<1> HIDE DEF state
<1>4. Agree(release(children, w), state)
  BY <1>1, <1>2, <1>3 DEF Agree
<1> QED
  BY <1>4 DEF state

\* The rest of process_running and process_available: add_next does not throw, since the rank
\* that is given away is AVAILABLE and thus in no list.
LEMMA StateRead ==
    ASSUME SafetyInv, cpc = "loop", NEW s \in Worker, NEW w \in Worker, NEW v \in Worker,
           NEW tree, NEW state, Agree(tree, state),
           \/ v # w /\ state[v] = "AVAILABLE" /\ Assign(w, v, tree, state)
           \/ AssignNobody(tree, state),
           \E tag \in {"RUNNING_STATE", "AVAILABLE_STATE"} : Arrived(s, Center, tag),
           world' = Drop(world, <<s, Center>>),
           UNCHANGED <<detectorVars, mainVars, channelVars, busy, managerVars, global_score,
                       collecting, best_results, score_updates_sent, receivedVars,
                       score_updates, proposal, historyVars>>
    PROVE  SafetyInv'
<1>1. /\ TypeOK /\ WorkerInv /\ TargetInv /\ DetectorInv /\ PhaseInv /\ RouteInv /\ StreamInv
      /\ TaskInv /\ TreeInv /\ ScoreInv
      /\ next_messages \in Net(Worker, Worker) /\ next_processes_sent \in [Worker -> Nat]
      /\ next_processes_received \in [Worker -> Nat]
  BY DEF SafetyInv, TypeOK, StreamTypes
<1>2. /\ cpc' = "loop" /\ Agree(children', process_state')
      /\ \/ UNCHANGED <<next_processes_sent, next_messages>>
         \/ /\ v # w /\ next_messages' = Post(next_messages, w, v)
            /\ next_processes_sent' = [next_processes_sent EXCEPT ![w] = @ + 1]
  <2>1. CASE AssignNobody(tree, state)
    BY <2>1 DEF AssignNobody
  <2>2. CASE v # w /\ state[v] = "AVAILABLE" /\ Assign(w, v, tree, state)
    <3>1. ~is_assigned(tree, v) /\ tree \in Trees /\ Distinct(tree) /\ state \in States
      BY <2>2 DEF Agree
    <3>2. /\ next_messages' = Post(next_messages, w, v) /\ cpc' = cpc
          /\ next_processes_sent' = [next_processes_sent EXCEPT ![w] = @ + 1]
          /\ children' = [tree EXCEPT ![w] = Append(@, v)]
          /\ process_state' = [state EXCEPT ![v] = "ASSIGNED"]
      BY <2>2, <3>1 DEF Assign
    <3>3. /\ children' \in Trees /\ Distinct(children')
          /\ \A u : is_assigned(children', u) <=> u = v \/ is_assigned(tree, u)
      BY <3>1, <3>2, AddNext
    <3>4. /\ process_state' \in States
          /\ \A u \in Worker : process_state'[u] = IF u = v THEN "ASSIGNED" ELSE state[u]
      BY <3>1, <3>2 DEF States
    <3>5. \A u \in Worker : state[u] = "ASSIGNED" <=> is_assigned(tree, u)
      BY DEF Agree
    <3>6. Agree(children', process_state')
      BY <3>3, <3>4, <3>5 DEF Agree
    <3> QED
      BY <2>2, <3>2, <3>6
  <2> QED
    BY <2>1, <2>2
<1>3. TreeInv' /\ CenterTypes'
  BY <1>1, <1>2 DEF TypeOK, TreeInv, CenterTypes, CenterPC, Agree, Trees, States
<1>4. /\ next_messages' \in Net(Worker, Worker) /\ next_processes_sent' \in [Worker -> Nat]
      /\ \A u \in Worker :
           /\ next_messages'[u] \in Seq(Worker \ {u})
           /\ next_processes_sent'[u] = next_processes_received'[u] + Len(next_messages'[u])
  <2>1. CASE UNCHANGED <<next_processes_sent, next_messages>>
    BY <1>1, <2>1 DEF TargetInv, StreamInv
  <2>2. CASE /\ v # w /\ next_messages' = Post(next_messages, w, v)
             /\ next_processes_sent' = [next_processes_sent EXCEPT ![w] = @ + 1]
    <3>1. /\ next_messages' \in Net(Worker, Worker)
          /\ next_messages'[w] = Append(next_messages[w], v)
          /\ \A u \in Worker : u # w => next_messages'[u] = next_messages[u]
      <4>1. Post(next_messages, w, v) \in Net(Worker, Worker)
        BY <1>1, PostIn
      <4> QED
        BY <4>1, <2>2, <1>1 DEF Post, Net
    <3>2. /\ next_processes_sent' \in [Worker -> Nat]
          /\ next_processes_sent'[w] = next_processes_sent[w] + 1
          /\ \A u \in Worker : u # w => next_processes_sent'[u] = next_processes_sent[u]
      BY <2>2, <1>1
    <3> DEFINE O == Worker \ {w}
               n == next_messages[w]
    <3>3. n \in Seq(O) /\ v \in O
      BY <1>1, <2>2 DEF TargetInv
    <3>4. Append(n, v) \in Seq(O) /\ Len(Append(n, v)) = Len(n) + 1 /\ Len(n) \in Nat
      <4> HIDE DEF O, n
      <4> QED
        BY <3>3
    <3>5. /\ next_processes_sent[w] = next_processes_received[w] + Len(n)
          /\ next_processes_received[w] \in Nat
      BY <1>1 DEF StreamInv
    <3>6. next_processes_sent[w] + 1 = next_processes_received[w] + Len(Append(n, v))
      <4>1. \A a, b, c, d \in Int : a = b + c /\ d = c + 1 => a + 1 = b + d
        OBVIOUS
      <4> HIDE DEF n
      <4>2. /\ Len(Append(n, v)) = Len(n) + 1 /\ Len(n) \in Int
            /\ next_processes_sent[w] = next_processes_received[w] + Len(n)
            /\ next_processes_received[w] \in Int
        BY <3>4, <3>5
      <4>3. Len(Append(n, v)) \in Int /\ next_processes_sent[w] \in Int
        BY <4>2
      <4> QED
        BY <4>1, <4>2, <4>3
    <3>7. next_messages'[w] \in Seq(Worker \ {w})
      BY <3>1, <3>4
    <3>8. next_processes_sent'[w] = next_processes_received'[w] + Len(next_messages'[w])
      BY <3>1, <3>2, <3>6
    <3>9. ASSUME NEW u \in Worker, u # w
          PROVE  /\ next_messages'[u] \in Seq(Worker \ {u})
                 /\ next_processes_sent'[u] = next_processes_received'[u] + Len(next_messages'[u])
      BY <3>1, <3>2, <3>9, <1>1 DEF TargetInv, StreamInv
    <3> QED
      BY <3>1, <3>2, <3>7, <3>8, <3>9
  <2> QED
    BY <1>2, <2>1, <2>2
<1>5. StreamTypes' /\ TargetInv'
  BY <1>1, <1>4 DEF TypeOK, StreamTypes, TargetInv
<1>6. \A u \in Worker : pc[u] \notin {"barrier", "result", "done"}
  BY <1>1 DEF PhaseInv, Announced
<1>7. StreamInv' /\ PhaseInv'
  <2>1. StreamInv'
    BY <1>1, <1>4, <1>6 DEF StreamInv
  <2> QED
    BY <2>1, <1>1, <1>2, <1>6 DEF PhaseInv, Over, Announced
<1>8. WorldTypes' /\ DetectorInv' /\ RouteInv' /\ TaskInv'
  <2>1. /\ world[<<s, Center>>] # <<>>
        /\ Head(world[<<s, Center>>]).tag \notin {"TASK", "TASK_RECEIVED"}
    BY DEF Arrived
  <2>2. cpc \notin Announced
    BY DEF Announced
  <2> QED
    BY <2>1, <2>2, CenterReads
<1> QED
  BY <1>1, <1>3, <1>5, <1>7, <1>8, DetectorTypesFrame, WorkerTypesFrame, TargetTypesFrame,
     ScoreTypesFrame, TaskTypesFrame, WorkerFrame, ScoreFrame DEF SafetyInv, TypeOK

\* process_running.
LEMMA ProcessRunningNext ==
    ASSUME SafetyInv, NEW w \in Worker, ProcessRunning(w)
    PROVE  SafetyInv'
<1> DEFINE state == [process_state EXCEPT ![w] = "RUNNING"]
           tree == release(children, w)
           available == {v \in Worker : state[v] = "AVAILABLE"}
<1>1. /\ cpc = "loop" /\ Arrived(w, Center, "RUNNING_STATE") /\ world' = Drop(world, <<w, Center>>)
      /\ UNCHANGED <<detectorVars, mainVars, channelVars, busy, managerVars, global_score,
                     collecting, best_results, score_updates_sent, receivedVars, score_updates,
                     proposal, historyVars>>
      /\ \/ available # {} /\ Assign(w, Least(available), tree, state)
         \/ AssignNobody(tree, state)
  BY DEF ProcessRunning
<1>2. Agree(tree, state) /\ state[w] = "RUNNING"
  <2>1. Agree(tree, state)
    BY Released
  <2> QED
    BY <2>1 DEF SafetyInv, TypeOK, CenterTypes
<1>3. CASE available # {} /\ Assign(w, Least(available), tree, state)
  <2>1. available \in SUBSET Nat
    BY Ranks
  <2>2. Least(available) \in available
    <3> HIDE DEF available
    <3> QED
      BY <1>3, <2>1, LeastIn
  <2>3. PICK v : v = Least(available)
    OBVIOUS
  <2>4. v \in Worker /\ state[v] = "AVAILABLE" /\ v # w /\ Assign(w, v, tree, state)
    BY <1>2, <1>3, <2>2, <2>3
  <2> HIDE DEF state, tree, available
  <2> QED
    BY <1>1, <1>2, <2>4, StateRead
<1>4. CASE AssignNobody(tree, state)
  <2>1. Agree(tree, state)
    BY <1>2
  <2> HIDE DEF state, tree, available
  <2> QED
    BY <1>1, <1>4, <2>1, StateRead
<1> QED
  BY <1>1, <1>3, <1>4

\* process_available.
LEMMA ProcessAvailableNext ==
    ASSUME SafetyInv, NEW w \in Worker, ProcessAvailable(w)
    PROVE  SafetyInv'
<1> DEFINE state == [process_state EXCEPT ![w] = "AVAILABLE"]
           tree == release(children, w)
<1>1. /\ cpc = "loop" /\ Arrived(w, Center, "AVAILABLE_STATE")
      /\ world' = Drop(world, <<w, Center>>)
      /\ UNCHANGED <<detectorVars, mainVars, channelVars, busy, managerVars, global_score,
                     collecting, best_results, score_updates_sent, receivedVars, score_updates,
                     proposal, historyVars>>
      /\ \/ \E v \in Worker : state[v] = "RUNNING" /\ Assign(v, w, tree, state)
         \/ AssignNobody(tree, state)
  BY DEF ProcessAvailable
<1>2. Agree(tree, state) /\ state[w] = "AVAILABLE"
  <2>1. Agree(tree, state)
    BY Released
  <2> QED
    BY <2>1 DEF SafetyInv, TypeOK, CenterTypes
<1> HIDE DEF state, tree
<1>3. ASSUME NEW v \in Worker, state[v] = "RUNNING", Assign(v, w, tree, state) PROVE SafetyInv'
  <2>1. v # w
    BY <1>2, <1>3
  <2> QED
    BY <1>1, <1>2, <1>3, <2>1, StateRead
<1>4. CASE AssignNobody(tree, state)
  BY <1>1, <1>2, <1>4, StateRead
<1> QED
  BY <1>1, <1>3, <1>4

\* A loop over the workers makes every channel one longer.
LEMMA PostAllEach ==
    ASSUME NEW M, NEW D, NEW net \in Net(D, M), NEW m \in M, NEW c \in D
    PROVE  Len(PostAll(net, m)[c]) = Len(net[c]) + 1 /\ Len(net[c]) \in Nat
<1>1. net[c] \in Seq(M) /\ PostAll(net, m)[c] = Append(net[c], m)
  BY DEF Net, PostAll
<1> QED
  BY <1>1

\* consume_score_flag and maybe_broadcast_global_score.
LEMMA ReceiveProposalNext ==
    ASSUME SafetyInv, NEW w \in Worker, ReceiveProposal(w)
    PROVE  SafetyInv'
<1> DEFINE s == proposal[w]
<1>1. /\ TypeOK /\ WorkerInv /\ TargetInv /\ DetectorInv /\ PhaseInv /\ RouteInv /\ StreamInv
      /\ TaskInv /\ TreeInv /\ ScoreInv /\ score_updates \in Net(Worker, Scores)
  BY DEF SafetyInv, TypeOK, StreamTypes
<1>2. /\ cpc = "loop" /\ s # Nothing /\ proposal' = [proposal EXCEPT ![w] = Nothing]
      /\ UNCHANGED <<detectorVars, mainVars, channelVars, busy, managerVars, centerVars,
                     next_processes_sent, receivedVars, world, next_messages, historyVars>>
  BY DEF ReceiveProposal
<1>3. s \in Scores /\ Found(s)
  BY <1>1, <1>2 DEF TypeOK, ScoreTypes, ScoreInv
<1> HIDE DEF s
<1>4. \/ /\ global_score' = [global_score EXCEPT ![Center] = s]
         /\ score_updates' = PostAll(score_updates, s)
         /\ score_updates_sent' = score_updates_sent + 1
      \/ UNCHANGED <<global_score, score_updates, score_updates_sent>>
  BY DEF ReceiveProposal, s
<1>5. SameSide
  BY <1>2 DEF SameSide
<1>6. /\ proposal' \in [Worker -> Scores \cup {Nothing}] /\ proposal'[w] = Nothing
      /\ \A v \in Worker : v # w => proposal'[v] = proposal[v]
  BY <1>1, <1>2 DEF TypeOK, ScoreTypes
<1>7. /\ global_score' \in [Rank -> Scores \cup {Default}]
      /\ \A r \in Rank : Found(global_score'[r])
  BY <1>1, <1>3, <1>4, Ranks DEF TypeOK, ScoreTypes, ScoreInv
<1>8. /\ score_updates' \in Net(Worker, Scores) /\ score_updates_sent' \in Nat
      /\ \A v \in Worker : \A x \in Messages(score_updates', v) : Found(x)
  <2>1. CASE UNCHANGED <<global_score, score_updates, score_updates_sent>>
    BY <1>1, <2>1 DEF TypeOK, StreamTypes, ScoreInv
  <2>2. CASE /\ score_updates' = PostAll(score_updates, s)
             /\ score_updates_sent' = score_updates_sent + 1
    <3>1. /\ score_updates' \in Net(Worker, Scores)
          /\ \A v \in Worker : \A x : x \in Messages(score_updates', v) <=>
                                        x \in Messages(score_updates, v) \/ x = s
      BY <1>1, <1>3, <2>2, PostAllIn
    <3>2. score_updates_sent' \in Nat
      BY <1>1, <2>2 DEF TypeOK, StreamTypes
    <3> QED
      BY <1>1, <1>3, <3>1, <3>2 DEF ScoreInv
  <2> QED
    BY <1>4, <2>1, <2>2
<1>9. ScoreTypes' /\ ScoreInv' /\ StreamTypes'
  <2>1. ScoreTypes' /\ ScoreInv'
    BY <1>1, <1>2, <1>6, <1>7, <1>8 DEF TypeOK, ScoreTypes, ScoreInv
  <2>2. StreamTypes'
    BY <1>1, <1>2, <1>8 DEF TypeOK, StreamTypes
  <2> QED
    BY <2>1, <2>2
<1>10. StreamInv'
  <2>1. \A v \in Worker : pc[v] \notin {"barrier", "result", "done"}
    BY <1>1, <1>2 DEF PhaseInv, Announced
  <2>2. CASE UNCHANGED <<global_score, score_updates, score_updates_sent>>
    BY <1>1, <1>2, <2>1, <2>2 DEF StreamInv
  <2>3. CASE /\ score_updates' = PostAll(score_updates, s)
             /\ score_updates_sent' = score_updates_sent + 1
    <3>1. ASSUME NEW v \in Worker
          PROVE  score_updates_sent' = score_updates_received'[v] + Len(score_updates'[v])
      <4>1. Len(score_updates'[v]) = Len(score_updates[v]) + 1 /\ Len(score_updates[v]) \in Nat
        BY <1>1, <1>3, <2>3, PostAllEach
      <4>2. /\ score_updates_sent = score_updates_received[v] + Len(score_updates[v])
            /\ score_updates_received[v] \in Nat
        BY <1>1 DEF StreamInv, TypeOK, StreamTypes
      <4> QED
        BY <1>2, <2>3, <4>1, <4>2
    <3> QED
      BY <1>1, <1>2, <2>1, <3>1 DEF StreamInv
  <2> QED
    BY <1>4, <2>2, <2>3
<1>11. WorkerInv'
  BY <1>1, <1>2, <1>6 DEF WorkerInv
<1>12. RouteInv'
  BY <1>1, <1>2, RouteKeeps DEF Announced
<1> QED
  BY <1>1, <1>2, <1>5, <1>9, <1>10, <1>11, <1>12, DetectorTypesFrame, WorkerTypesFrame,
     TargetTypesFrame, CenterTypesFrame, WorldTypesFrame, TaskTypesFrame, TargetFrame,
     DetectorFrame, PhaseFrame, TaskFrame, TreeFrame DEF SafetyInv, TypeOK

\* process_task_received_ack at the center does not throw, and it leaves its loop only when
\* nothing is owed to it.
LEMMA CenterReceiveAckNext ==
    ASSUME SafetyInv, NEW w \in Worker, CenterReceiveAck(w)
    PROVE  SafetyInv'
<1> DEFINE h == Head(world[<<w, Center>>])
<1>1. /\ TypeOK /\ WorkerInv /\ TargetInv /\ DetectorInv /\ PhaseInv /\ RouteInv /\ StreamInv
      /\ TaskInv /\ TreeInv /\ ScoreInv /\ DetectorTypes /\ world \in World
      /\ w \in Rank /\ Center \in Rank
  BY Ranks DEF SafetyInv, TypeOK, WorldTypes, World
<1>2. cpc = "loop" /\ world[<<w, Center>>] # <<>> /\ h.tag = "TASK_RECEIVED"
  BY DEF CenterReceiveAck, Arrived
<1>3. h \in Messages(world, <<w, Center>>)
  BY <1>1, <1>2, WorldDrop
<1>4. deficit[Center] \in Nat /\ deficit[Center] # 0
  <2>1. deficit[Center] = Owed(world, parent, Center)
    BY <1>1 DEF DetectorInv
  <2> QED
    BY <2>1, <1>1, <1>2, <1>3, OwedNat
<1>5. /\ deficit' = [deficit EXCEPT ![Center] = @ - 1] /\ world' = Drop(world, <<w, Center>>)
      /\ cpc' = IF deficit[Center] = 1 THEN "notify" ELSE "loop"
      /\ UNCHANGED <<parent, held, mainVars, channelVars, busy, managerVars, global_score,
                     process_state, children, collecting, best_results, countVars,
                     score_updates, next_messages, proposal, historyVars>>
  BY <1>4 DEF CenterReceiveAck
<1>6. /\ world' \in World
      /\ \A p, q \in Rank : \A x :
           /\ x \in Messages(world', <<p, q>>) => x \in Messages(world, <<p, q>>)
           /\ x \in Messages(world, <<p, q>>) => x \in Messages(world', <<p, q>>) \/ x = h
  BY <1>1, <1>2, <1>5, WorldDrop
<1>7. \A r \in Rank :
        Owed(world, parent, r) = Owed(world', parent, r) + IF r = Center THEN 1 ELSE 0
  BY <1>1, <1>2, <1>5, OwedDrop
<1> HIDE DEF h
<1>8. /\ deficit' \in [Rank -> Nat] /\ deficit'[Center] = deficit[Center] - 1
      /\ \A r \in Rank : r # Center => deficit'[r] = deficit[r]
  BY <1>1, <1>4, <1>5 DEF DetectorTypes
<1>9. DetectorTypes' /\ WorldTypes' /\ CenterTypes'
  <2>1. DetectorTypes' /\ WorldTypes'
    BY <1>1, <1>5, <1>6, <1>8 DEF DetectorTypes, WorldTypes, World
  <2> QED
    BY <2>1, <1>1, <1>5 DEF TypeOK, CenterTypes, CenterPC
<1>10. DetectorInv'
  <2>1. \A r \in Rank : deficit'[r] = Owed(world', parent', r)
    <3> SUFFICES ASSUME NEW r \in Rank PROVE deficit'[r] = Owed(world', parent', r)
      OBVIOUS
    <3>1. Owed(world, parent, r) = deficit[r] /\ Owed(world', parent, r) \in Nat
      BY <1>1, <1>6, OwedNat DEF DetectorInv
    <3> QED
      BY <3>1, <1>5, <1>7, <1>8
  <2>2. \A v \in Worker : v \in Rank /\ v # Center
    BY Ranks
  <2>3. \A v \in Worker : parent'[v] = None => deficit'[v] = 0 /\ pc'[v] \in Idle
    BY <2>2, <1>1, <1>5, <1>8 DEF DetectorInv
  <2>4. Acyclic(parent')
    BY <1>1, <1>5 DEF DetectorInv
  <2> QED
    BY <2>1, <2>3, <2>4, <1>1, <1>5 DEF DetectorInv
<1>11. PhaseInv'
  <2>1. cpc' = "notify" => deficit'[Center] = 0
    BY <1>4, <1>5, <1>8
  <2>2. cpc' \in {"notify", "loop"} /\ \A v \in Worker : pc'[v] \notin {"barrier", "result", "done"}
    BY <1>1, <1>2, <1>5 DEF PhaseInv, Announced
  <2> QED
    BY <2>1, <2>2 DEF PhaseInv, Over, Announced
<1>12. RouteInv'
  BY <1>1, <1>2, <1>6, RouteKeeps DEF Announced
<1>13. TaskInv'
  <2>1. \A p, q \in Rank : \A x : x.tag = "TASK" =>
          (x \in Messages(world', <<p, q>>) <=> x \in Messages(world, <<p, q>>))
    BY <1>2, <1>6 DEF h
  <2>2. \A u : Crosses(u)' <=> Crosses(u)
    BY <2>1, CrossesKeeps
  <2>3. \A u : \A v \in Worker : KeptBy(u, v)' <=> KeptBy(u, v)
    BY <1>5 DEF KeptBy
  <2> QED
    BY <2>2, <2>3, <1>1, <1>5, TaskKeeps
<1>14. SameSide
  BY <1>5 DEF SameSide
<1> QED
  BY <1>1, <1>5, <1>9, <1>10, <1>11, <1>12, <1>13, <1>14, WorkerTypesFrame, TargetTypesFrame,
     ScoreTypesFrame, StreamTypesFrame, TaskTypesFrame, WorkerFrame, TargetFrame, StreamFrame,
     TreeFrame, ScoreFrame DEF SafetyInv, TypeOK

\* notify_termination: every worker is told how many messages were sent to it.
LEMMA NotifyTerminationNext ==
    ASSUME SafetyInv, NotifyTermination
    PROVE  SafetyInv'
<1> DEFINE C == {Center} \X Worker
           f == [c \in C |-> [tag |-> "TERMINATION",
                              counts |-> <<score_updates_sent, next_processes_sent[c[2]]>>]]
<1>1. /\ TypeOK /\ WorkerInv /\ TargetInv /\ DetectorInv /\ PhaseInv /\ RouteInv /\ StreamInv
      /\ TaskInv /\ TreeInv /\ ScoreInv /\ world \in World /\ C \in SUBSET (Rank \X Rank)
  BY Ranks DEF SafetyInv, TypeOK, WorldTypes, World
<1>2. /\ cpc = "notify" /\ cpc' = "barrier" /\ world' = PostEach(world, f)
      /\ UNCHANGED <<detectorVars, mainVars, channelVars, busy, managerVars, global_score,
                     process_state, children, collecting, best_results, countVars,
                     score_updates, next_messages, proposal, historyVars>>
  BY DEF NotifyTermination
<1>3. ASSUME NEW c \in C
      PROVE  /\ f[c] \in WorldMsg /\ f[c].tag = "TERMINATION"
             /\ f[c].counts = <<score_updates_sent, next_processes_sent[c[2]]>>
  <2>1. c[2] \in Worker
    OBVIOUS
  <2>2. <<score_updates_sent, next_processes_sent[c[2]]>> \in Nat \X Nat
    BY <2>1, <1>1 DEF TypeOK, StreamTypes
  <2> QED
    BY <2>2 DEF WorldMsg
<1>4. f \in [C -> WorldMsg]
  BY <1>3
<1>5. \A p, q \in Rank : /\ <<p, q>> \in Rank \X Rank /\ <<p, q>>[2] = q
                         /\ <<p, q>> \in C <=> p = Center /\ q \in Worker
  OBVIOUS
<1> HIDE DEF f, C
<1>6. /\ world' \in World
      /\ \A c \in Rank \X Rank : \A x :
           x \in Messages(world', c) <=> x \in Messages(world, c) \/ (c \in C /\ x = f[c])
  BY <1>1, <1>2, <1>4, PostEachIn DEF World
<1>7. \A p, q \in Rank : \A x : x \in Messages(world', <<p, q>>) =>
        \/ x \in Messages(world, <<p, q>>)
        \/ /\ p = Center /\ q \in Worker /\ x.tag = "TERMINATION"
           /\ x.counts = <<score_updates_sent, next_processes_sent[q]>>
  BY <1>3, <1>5, <1>6
<1>8. \A p, q \in Rank : \A x : x \in Messages(world, <<p, q>>) => x \in Messages(world', <<p, q>>)
  BY <1>5, <1>6
<1>9. \A r \in Rank : Owed(world', parent, r) = Owed(world, parent, r)
  <2> SUFFICES ASSUME NEW r \in Rank PROVE Owed(world', parent, r) = Owed(world, parent, r)
    OBVIOUS
  <2> DEFINE A == {r} \X Rank
             B == Rank \X {r}
  <2>1. A \in SUBSET (Rank \X Rank) /\ B \in SUBSET (Rank \X Rank)
    OBVIOUS
  <2> HIDE DEF A, B
  <2>2. \A c \in C : f[c].tag # "TASK" /\ f[c].tag # "TASK_RECEIVED"
    BY <1>3
  <2>3. world \in Net(Rank \X Rank, WorldMsg) /\ DOMAIN f = C
    BY <1>1, <1>4 DEF World
  <2>4. ASSUME NEW R \in SUBSET (Rank \X Rank), NEW tag, \A c \in C : f[c].tag # tag
        PROVE  Count(PostEach(world, f), R, tag) = Count(world, R, tag)
    BY <2>3, <2>4, CountPostEach
  <2>5. /\ Count(PostEach(world, f), A, "TASK") = Count(world, A, "TASK")
        /\ Count(PostEach(world, f), B, "TASK_RECEIVED") = Count(world, B, "TASK_RECEIVED")
    BY <2>1, <2>2, <2>4
  <2> QED
    BY <2>5, <1>2 DEF Owed, A, B
<1>10. SameSide /\ CenterTypes' /\ WorldTypes'
  BY <1>1, <1>2, <1>6 DEF SameSide, TypeOK, CenterTypes, CenterPC, WorldTypes, World
<1>11. DetectorInv'
  BY <1>1, <1>2, <1>9, DetectorKeeps
<1>12. PhaseInv'
  BY <1>1, <1>2 DEF PhaseInv, Over, Announced
<1>13. RouteInv'
  <2> SUFFICES ASSUME NEW s \in Rank, NEW d \in Rank, NEW m \in Messages(world', <<s, d>>)
               PROVE  /\ m.tag = "TASK" => d # Center
                      /\ m.tag = "TERMINATION" =>
                           /\ s = Center /\ d # Center /\ cpc' \in Announced
                           /\ m.counts = <<score_updates_sent', next_processes_sent'[d]>>
    BY DEF RouteInv
  <2>1. CASE m \in Messages(world, <<s, d>>)
    BY <2>1, <1>1, <1>2 DEF RouteInv, Announced
  <2>2. CASE m \notin Messages(world, <<s, d>>)
    <3>1. /\ s = Center /\ d \in Worker /\ m.tag = "TERMINATION"
          /\ m.counts = <<score_updates_sent, next_processes_sent[d]>>
      BY <2>2, <1>7
    <3> QED
      BY <3>1, <1>2, Ranks DEF Announced
  <2> QED
    BY <2>1, <2>2
<1>14. TaskInv'
  <2>1. \A p, q \in Rank : \A x : x.tag = "TASK" =>
          (x \in Messages(world', <<p, q>>) <=> x \in Messages(world, <<p, q>>))
    BY <1>7, <1>8
  <2>2. \A u : Crosses(u)' <=> Crosses(u)
    BY <2>1, CrossesKeeps
  <2>3. \A u : \A v \in Worker : KeptBy(u, v)' <=> KeptBy(u, v)
    BY <1>2 DEF KeptBy
  <2> QED
    BY <2>2, <2>3, <1>1, <1>2, TaskKeeps
<1> QED
  BY <1>1, <1>2, <1>10, <1>11, <1>12, <1>13, <1>14, DetectorTypesFrame, WorkerTypesFrame,
     TargetTypesFrame, ScoreTypesFrame, StreamTypesFrame, TaskTypesFrame, WorkerFrame,
     TargetFrame, StreamFrame, TreeFrame, ScoreFrame DEF SafetyInv, TypeOK

\* All ranks pass MPI_Barrier at once.
LEMMA BarrierNext ==
    ASSUME SafetyInv, Barrier
    PROVE  SafetyInv'
<1>1. /\ TypeOK /\ WorkerInv /\ TargetInv /\ DetectorInv /\ PhaseInv /\ RouteInv /\ StreamInv
      /\ TaskInv /\ TreeInv /\ ScoreInv
  BY DEF SafetyInv
<1>2. /\ cpc = "barrier" /\ cpc' = "collect" /\ pc' = [w \in Worker |-> "result"]
      /\ \A w \in Worker : pc[w] = "barrier" /\ pc'[w] = "result"
      /\ UNCHANGED <<detectorVars, bundle, channelVars, busy, managerVars, global_score,
                     process_state, children, collecting, best_results, countVars, netVars,
                     historyVars>>
  BY DEF Barrier
<1>3. CenterTypes' /\ WorkerTypes'
  <2>1. CenterTypes'
    BY <1>1, <1>2 DEF TypeOK, CenterTypes, CenterPC
  <2> QED
    BY <2>1, <1>1, <1>2 DEF TypeOK, WorkerTypes, MainPC
<1>4. WorkerInv'
  BY <1>1, <1>2 DEF WorkerInv, Idle
<1>5. DetectorInv'
  <2>1. \A r \in Rank : Owed(world', parent, r) = Owed(world, parent, r)
    BY <1>2
  <2>2. \A v \in Worker : pc'[v] \in Idle
    BY <1>2 DEF Idle
  <2> QED
    BY <2>1, <2>2, <1>1, <1>2, DetectorKeeps
<1>6. PhaseInv'
  BY <1>1, <1>2 DEF PhaseInv, Over, Announced
<1>7. StreamInv'
  BY <1>1, <1>2 DEF StreamInv
<1>8. TaskInv'
  <2>1. \A u : Crosses(u)' <=> Crosses(u)
    BY <1>2 DEF Crosses
  <2>2. \A u : \A v \in Worker : KeptBy(u, v)' <=> KeptBy(u, v)
    BY <1>2 DEF KeptBy
  <2> QED
    BY <2>1, <2>2, <1>1, <1>2, TaskKeeps
<1>9. RouteInv'
  BY <1>1, <1>2, RouteKeeps DEF Announced
<1> QED
  BY <1>1, <1>2, <1>3, <1>4, <1>5, <1>6, <1>7, <1>8, <1>9, DetectorTypesFrame, TargetTypesFrame,
     ScoreTypesFrame, StreamTypesFrame, WorldTypesFrame, TaskTypesFrame, TargetFrame, TreeFrame,
     ScoreFrame DEF SafetyInv, TypeOK

\* receive_solution meets results and state messages only: every task and every
\* acknowledgement has been received by then, and TERMINATION goes to workers only.
LEMMA ReceiveSolutionNext ==
    ASSUME SafetyInv, ReceiveSolution
    PROVE  SafetyInv'
<1>1. /\ TypeOK /\ WorkerInv /\ TargetInv /\ DetectorInv /\ PhaseInv /\ RouteInv /\ StreamInv
      /\ TaskInv /\ TreeInv /\ ScoreInv /\ world \in World
  BY DEF SafetyInv, TypeOK, WorldTypes, World
<1>2. PICK w \in Worker : w = collecting
  BY <1>1 DEF TypeOK, CenterTypes
<1> DEFINE h == Head(world[<<w, Center>>])
           isResult == h.tag \in {"HAS_RESULT", "NO_RESULT"}
<1>3. /\ cpc = "collect" /\ world[<<w, Center>>] # <<>> /\ world' = Drop(world, <<w, Center>>)
      /\ collecting' = IF isResult /\ w # WorldSize - 1 THEN w + 1 ELSE w
      /\ h.tag \in {"HAS_RESULT", "NO_RESULT", "RUNNING_STATE", "AVAILABLE_STATE"} =>
           cpc' \in {"collect", "done"}
      /\ UNCHANGED <<detectorVars, mainVars, channelVars, busy, managerVars, global_score,
                     process_state, children, countVars, score_updates, next_messages,
                     proposal, historyVars>>
  BY <1>2 DEF ReceiveSolution
<1>4. h \in WorldMsg /\ h \in Messages(world, <<w, Center>>) /\ w \in Rank /\ Center \in Rank
  BY <1>1, <1>3, Ranks, WorldDrop
<1>5. h.tag \in {"HAS_RESULT", "NO_RESULT", "RUNNING_STATE", "AVAILABLE_STATE"}
  <2>1. h.tag # "TASK_RECEIVED" /\ h.tag # "TASK"
    BY <1>1, <1>3, <1>4, Quiet DEF PhaseInv, Over
  <2>2. h.tag # "TERMINATION"
    BY <1>1, <1>4 DEF RouteInv
  <2> QED
    BY <1>4, <2>1, <2>2, MessageTypes
<1>6. cpc' \in {"collect", "done"} /\ collecting' \in Worker
  <2>1. w # WorldSize - 1 => w + 1 \in Worker
    BY WorldSizeAssumption DEF Worker
  <2> QED
    BY <1>3, <1>5, <2>1
<1>7. WorldTypes' /\ DetectorInv' /\ RouteInv' /\ TaskInv'
  <2>1. h.tag \notin {"TASK", "TASK_RECEIVED"}
    BY <1>5
  <2> QED
    BY <2>1, <1>3, <1>6, CenterReads DEF Announced
<1> HIDE DEF h
<1>8. SameSide /\ CenterTypes'
  BY <1>1, <1>3, <1>6 DEF SameSide, TypeOK, CenterTypes, CenterPC
<1>9. PhaseInv'
  BY <1>1, <1>3, <1>6 DEF PhaseInv, Over, Announced
<1> QED
  BY <1>1, <1>3, <1>7, <1>8, <1>9, DetectorTypesFrame, WorkerTypesFrame, TargetTypesFrame,
     ScoreTypesFrame, StreamTypesFrame, TaskTypesFrame, WorkerFrame, TargetFrame, StreamFrame,
     TreeFrame, ScoreFrame DEF SafetyInv, TypeOK

\* build_topology and send_seed: the children of the initial tree are ASSIGNED, and the center
\* owes for the seed.
LEMMA StartNext ==
    ASSUME SafetyInv, Start
    PROVE  SafetyInv'
<1> DEFINE m == TaskMsg(Seed)
<1>1. /\ TypeOK /\ WorkerInv /\ TargetInv /\ DetectorInv /\ PhaseInv /\ RouteInv /\ StreamInv
      /\ TaskInv /\ TreeInv /\ ScoreInv /\ DetectorTypes /\ world \in World
      /\ Center \in Rank /\ 1 \in Rank /\ 1 \in Worker /\ 1 # Center
  BY Ranks DEF SafetyInv, TypeOK, WorldTypes, World
<1>2. /\ cpc = "start" /\ children' = Topology /\ next_processes' = Topology
      /\ next_processes_sent' = [w \in Worker |-> IF Topology[w] = <<>> THEN 0 ELSE 1]
      /\ next_processes_received' = next_processes_sent'
      /\ process_state' = [w \in Worker |->
           CASE w = 1 -> "RUNNING"
             [] w # 1 /\ is_assigned(Topology, w) -> "ASSIGNED"
             [] OTHER -> "AVAILABLE"]
      /\ deficit' = [deficit EXCEPT ![Center] = @ + 1]
      /\ world' = Post(world, <<Center, 1>>, m) /\ issued' = 1 /\ cpc' = "loop"
      /\ UNCHANGED <<parent, held, mainVars, next_process, destination_rank, transmitting, queue,
                     busy, managerVars, global_score, collecting, best_results,
                     score_updates_sent, score_updates_received, score_updates, next_messages,
                     proposal, executed, best>>
  BY DEF Start, send_seed
<1>3. m \in WorldMsg /\ m.tag = "TASK" /\ issued = 0 /\ deficit[Center] = 0
  BY <1>1, <1>2, Ranks, MessageTypes DEF PhaseInv
<1> HIDE DEF m
<1>4. /\ Post(world, <<Center, 1>>, m) \in World
      /\ \A p, q \in Rank : \A x : x \in Messages(Post(world, <<Center, 1>>, m), <<p, q>>) <=>
           x \in Messages(world, <<p, q>>) \/ (p = Center /\ q = 1 /\ x = m)
  <2>1. \A r \in Rank : /\ Post(world, <<Center, r>>, m) \in World
                        /\ \A p, q \in Rank : \A x :
                             x \in Messages(Post(world, <<Center, r>>, m), <<p, q>>) <=>
                               \/ x \in Messages(world, <<p, q>>)
                               \/ (p = Center /\ q = r /\ x = m)
    BY <1>1, <1>3, WorldPost
  <2> QED
    BY <2>1, <1>1
<1>5. /\ world' \in World
      /\ \A p, q \in Rank : \A x : x \in Messages(world', <<p, q>>) <=>
           x \in Messages(world, <<p, q>>) \/ (p = Center /\ q = 1 /\ x = m)
  BY <1>2, <1>4
<1>6. \A r \in Rank : Owed(world', parent, r) = Owed(world, parent, r) + IF r = Center THEN 1 ELSE 0
  BY <1>1, <1>2, <1>3, OwedPost
<1>7. /\ deficit' \in [Rank -> Nat] /\ deficit'[Center] = deficit[Center] + 1
      /\ \A r \in Rank : r # Center => deficit'[r] = deficit[r]
  BY <1>1, <1>2 DEF DetectorTypes
<1>8. DetectorTypes' /\ WorldTypes' /\ TargetTypes'
  <2>1. DetectorTypes' /\ WorldTypes'
    BY <1>1, <1>2, <1>5, <1>7 DEF DetectorTypes, WorldTypes, World
  <2> QED
    BY <2>1, <1>1, <1>2, TopologyAssumption DEF TypeOK, TargetTypes
<1>9. TaskTypes'
  <2>1. executed \subseteq {}
    BY <1>1, <1>3 DEF TypeOK, TaskTypes
  <2> QED
    BY <2>1, <1>2, MaxTasksAssumption DEF TaskTypes
<1>10. /\ process_state' \in [Worker -> {"AVAILABLE", "ASSIGNED", "RUNNING"}]
       /\ \A v \in Worker : process_state'[v] = "ASSIGNED" <=> v # 1 /\ is_assigned(Topology, v)
  <2>1. ASSUME NEW v \in Worker
        PROVE  /\ process_state'[v] \in {"AVAILABLE", "ASSIGNED", "RUNNING"}
               /\ process_state'[v] = "ASSIGNED" <=> v # 1 /\ is_assigned(Topology, v)
    <3> DEFINE a == is_assigned(Topology, v)
    <3>1. process_state'[v] = CASE v = 1 -> "RUNNING"
                                [] v # 1 /\ a -> "ASSIGNED"
                                [] OTHER -> "AVAILABLE"
      BY <1>2
    <3> HIDE DEF a
    <3>2. CASE v = 1
      BY <3>1, <3>2
    <3>3. CASE v # 1 /\ a
      BY <3>1, <3>3 DEF a
    <3>4. CASE v # 1 /\ ~a
      BY <3>1, <3>4 DEF a
    <3> QED
      BY <3>2, <3>3, <3>4
  <2> QED
    BY <2>1, <1>2
<1>11. TreeInv' /\ CenterTypes'
  <2>1. Topology \in [Worker -> Seq(Worker)] /\ Distinct(Topology) /\ ~is_assigned(Topology, 1)
    BY TopologyAssumption, AssignedDef DEF Distinct
  <2>2. CenterTypes'
    BY <2>1, <1>1, <1>2, <1>10 DEF TypeOK, CenterTypes, CenterPC
  <2>3. \A v \in Worker : process_state'[v] = "ASSIGNED" <=> is_assigned(children', v)
    BY <2>1, <1>2, <1>10
  <2> QED
    BY <2>1, <2>2, <2>3, <1>2 DEF TreeInv
<1>12. StreamTypes' /\ StreamInv'
  <2>1. /\ next_processes_sent' \in [Worker -> Nat]
        /\ next_processes_received' \in [Worker -> Nat]
    BY <1>2
  <2>2. StreamTypes'
    BY <2>1, <1>1, <1>2 DEF TypeOK, StreamTypes
  <2>3. \A w \in Worker : next_messages[w] = <<>> /\ pc[w] \notin {"barrier", "result", "done"}
    BY <1>1, <1>2 DEF PhaseInv, Announced
  <2>4. \A w \in Worker :
          next_processes_sent'[w] = next_processes_received'[w] + Len(next_messages'[w])
    <3> SUFFICES ASSUME NEW w \in Worker
                 PROVE  next_processes_sent'[w] =
                          next_processes_received'[w] + Len(next_messages'[w])
      OBVIOUS
    <3>1. Len(next_messages'[w]) = 0
      BY <2>3, <1>2
    <3>2. next_processes_sent'[w] = next_processes_received'[w] /\ next_processes_sent'[w] \in Nat
      BY <2>1, <1>2
    <3> QED
      BY <3>1, <3>2
  <2> QED
    BY <2>2, <2>3, <2>4, <1>1, <1>2 DEF StreamInv
<1>13. TargetInv'
  <2>1. ASSUME NEW w \in Worker PROVE Topology[w] \in Seq(Worker \ {w})
    <3> DEFINE s == Topology[w]
    <3>1. s \in Seq(Worker) /\ \A i \in DOMAIN s : s[i] # w
      BY TopologyAssumption
    <3> HIDE DEF s
    <3>2. \A i \in 1 .. Len(s) : s[i] \in Worker \ {w}
      BY <3>1
    <3>3. s \in Seq(Worker \ {w})
      BY <3>1, <3>2
    <3> QED
      BY <3>3 DEF s
  <2> QED
    BY <2>1, <1>1, <1>2 DEF TargetInv
<1>14. DetectorInv'
  <2>1. \A r \in Rank : deficit'[r] = Owed(world', parent', r)
    <3> SUFFICES ASSUME NEW r \in Rank PROVE deficit'[r] = Owed(world', parent', r)
      OBVIOUS
    <3>1. Owed(world, parent, r) = deficit[r] /\ deficit[r] \in Nat
      BY <1>1 DEF DetectorInv, DetectorTypes
    <3> QED
      BY <3>1, <1>2, <1>6, <1>7
  <2>2. \A v \in Worker : v \in Rank /\ v # Center
    BY Ranks
  <2>3. \A v \in Worker : parent'[v] = None => deficit'[v] = 0 /\ pc'[v] \in Idle
    BY <2>2, <1>1, <1>2, <1>7 DEF DetectorInv
  <2>4. Acyclic(parent')
    BY <1>1, <1>2 DEF DetectorInv
  <2> QED
    BY <2>1, <2>3, <2>4, <1>1, <1>2 DEF DetectorInv
<1>15. PhaseInv'
  BY <1>1, <1>2 DEF PhaseInv, Over, Announced
<1>16. RouteInv'
  BY <1>1, <1>2, <1>3, <1>5, RouteKeeps DEF Announced
<1>17. TaskInv'
  <2>1. \A u \in Task : u <= issued => FALSE
    BY <1>3 DEF Task
  <2>2. \A u \in Task : ~Crosses(u) /\ \A v \in Worker : ~KeptBy(u, v)
    BY <2>1, <1>1 DEF TaskInv
  <2>3. \A u \in Task : \A v \in Worker : ~KeptBy(u, v)'
    BY <2>2, <1>2 DEF KeptBy
  <2>4. Crosses(Seed)'
    <3>1. m \in Messages(world', <<Center, 1>>)
      BY <1>1, <1>5
    <3> QED
      BY <3>1, <1>1 DEF Crosses, m
  <2>5. \A u \in Task : Crosses(u)' => u = Seed
    <3> SUFFICES ASSUME NEW u \in Task, NEW p \in Rank, NEW q \in Rank,
                        TaskMsg(u) \in Messages(world', <<p, q>>)
                 PROVE  u = Seed
      BY DEF Crosses
    <3>1. TaskMsg(u) \notin Messages(world, <<p, q>>)
      BY <2>2 DEF Crosses
    <3>2. TaskMsg(u) = TaskMsg(Seed)
      BY <3>1, <1>5 DEF m
    <3> QED
      BY <3>2, MessageTypes
  <2>6. \A u \in 1 .. issued' : u = Seed
    BY <1>2 DEF Seed
  <2>7. Seed <= issued'
    BY <1>2 DEF Seed
  <2> QED
    BY <2>3, <2>4, <2>5, <2>6, <2>7 DEF TaskInv
<1> QED
  BY <1>1, <1>2, <1>8, <1>9, <1>11, <1>12, <1>13, <1>14, <1>15, <1>16, <1>17, WorkerTypesFrame,
     ScoreTypesFrame, WorkerFrame, ScoreFrame DEF SafetyInv, TypeOK
-----------------------------------------------------------------------------
(* The best result *)

\* Scores are ordered by how good they are.
LEMMA Order ==
    ASSUME NEW a \in Int, NEW b \in Int, NEW c \in Int
    PROVE  /\ NoBetter(a, a)
           /\ NoBetter(a, b) /\ NoBetter(b, c) => NoBetter(a, c)
           /\ NoBetter(a, b) /\ NoBetter(b, a) => a = b
           /\ should_update(a, b) => NoBetter(a, b) /\ a # b
           /\ should_update(a, b) /\ NoBetter(b, c) => should_update(a, c)
           /\ NoBetter(a, b) /\ should_update(b, c) => should_update(a, c)
           /\ NoBetter(a, b) \/ should_update(b, a)
  BY DEF NoBetter, should_update

\* The scores there are.
LEMMA ScoreValues ==
    ASSUME SafetyInv
    PROVE  /\ Scores \cup {Default} \subseteq Int /\ Nothing \notin Scores \cup {Default}
           /\ \A r \in Rank : global_score[r] \in Scores \cup {Default} /\ Found(global_score[r])
           /\ \A w \in Worker : /\ score[w] \in Scores \cup {Default} /\ Found(score[w])
                                /\ result[w] \in Scores \cup {Nothing}
                                /\ proposal[w] \in Scores \cup {Nothing}
           /\ \A w \in Worker : \A s \in Messages(score_updates, w) : s \in Scores
           /\ \A w \in Worker : w \in Rank /\ Center \in Rank
<1>1. \A w \in Worker : \A s \in Messages(score_updates, w) : s \in Scores
  BY MessagesType DEF SafetyInv, TypeOK, StreamTypes
<1> QED
  BY <1>1, Ranks, ScoresAssumption, NothingAssumption DEF SafetyInv, TypeOK, ScoreTypes, ScoreInv

\* No result is sent to the center in a step.
SendsNoResult(net, new) == \A w \in Worker : \A m \in Messages(new, <<w, Center>>) :
    m \in Messages(net, <<w, Center>>) \/ m.tag \notin {"NO_RESULT", "HAS_RESULT"}
NoResultSent == SendsNoResult(world, world')

\* A worker that is done keeps what it has.
DoneKeeps == \A w \in Worker : pc[w] = "done" =>
    pc'[w] = "done" /\ score'[w] = score[w] /\ result'[w] = result[w]

\* SolutionInv is about the results sent by the workers that are done.
LEMMA SolutionKeeps ==
    ASSUME SolutionInv, UNCHANGED <<best_results, collecting>>, cpc' = "done" => cpc = "done",
           DoneKeeps, NoResultSent
    PROVE  SolutionInv'
<1> SUFFICES ASSUME NEW w \in Worker
             PROVE  /\ \A m \in Messages(world', <<w, Center>>) :
                         /\ m.tag = "NO_RESULT" => pc'[w] = "done" /\ result'[w] = Nothing
                         /\ m.tag = "HAS_RESULT" =>
                              /\ pc'[w] = "done" /\ result'[w] # Nothing
                              /\ m.score = score'[w] /\ m.packet = result'[w]
                    /\ best_results'[w] # EmptyResult =>
                         pc'[w] = "done" /\ result'[w] # Nothing /\ best_results'[w] = Kept(w)'
                    /\ w < collecting' \/ cpc' = "done" =>
                         pc'[w] = "done" /\ (result'[w] # Nothing => best_results'[w] = Kept(w)')
  BY DEF SolutionInv
<1>1. /\ \A m \in Messages(world, <<w, Center>>) :
           /\ m.tag = "NO_RESULT" => pc[w] = "done" /\ result[w] = Nothing
           /\ m.tag = "HAS_RESULT" =>
                /\ pc[w] = "done" /\ result[w] # Nothing
                /\ m.score = score[w] /\ m.packet = result[w]
      /\ best_results[w] # EmptyResult =>
           pc[w] = "done" /\ result[w] # Nothing /\ best_results[w] = Kept(w)
      /\ w < collecting \/ cpc = "done" =>
           pc[w] = "done" /\ (result[w] # Nothing => best_results[w] = Kept(w))
  BY DEF SolutionInv
<1>2. pc[w] = "done" => /\ pc'[w] = "done" /\ score'[w] = score[w] /\ result'[w] = result[w]
                        /\ Kept(w)' = Kept(w)
  BY DEF DoneKeeps, Kept
<1>3. \A m \in Messages(world', <<w, Center>>) :
         m \in Messages(world, <<w, Center>>) \/ m.tag \notin {"NO_RESULT", "HAS_RESULT"}
  BY DEF NoResultSent, SendsNoResult
<1>4. ASSUME NEW m \in Messages(world', <<w, Center>>)
      PROVE  /\ m.tag = "NO_RESULT" => pc'[w] = "done" /\ result'[w] = Nothing
             /\ m.tag = "HAS_RESULT" =>
                  /\ pc'[w] = "done" /\ result'[w] # Nothing
                  /\ m.score = score'[w] /\ m.packet = result'[w]
  BY <1>1, <1>2, <1>3
<1>5. best_results'[w] # EmptyResult =>
        pc'[w] = "done" /\ result'[w] # Nothing /\ best_results'[w] = Kept(w)'
  BY <1>1, <1>2
<1>6. w < collecting' \/ cpc' = "done" =>
        pc'[w] = "done" /\ (result'[w] # Nothing => best_results'[w] = Kept(w)')
  BY <1>1, <1>2
<1> QED
  BY <1>4, <1>5, <1>6

\* Whoever has made its last score update stays with it, and leaves task_funneling with no
\* proposal waiting.
StaysSettled == \A w \in Worker : pc'[w] \in Settled =>
    /\ pc[w] \in Settled
    /\ pc'[w] = pc[w] \/ pc[w] # "finalpropose" \/ proposal[w] = Nothing

\* SettledInv is about scores and the places that are after the last score update.
LEMMA SettledKeeps ==
    ASSUME SafetyInv, SettledInv, UNCHANGED <<score, proposal>>, global_score'[Center] = global_score[Center],
           StaysSettled
    PROVE  SettledInv'
<1> SUFFICES ASSUME NEW w \in Worker, pc'[w] \in Settled
             PROVE  \/ NoBetter(score'[w], global_score'[Center])
                    \/ pc'[w] = "finalpropose" /\ proposal'[w] = score'[w]
  BY DEF SettledInv
<1>1. \/ NoBetter(score[w], global_score[Center])
      \/ pc[w] = "finalpropose" /\ proposal[w] = score[w]
  BY DEF SettledInv, StaysSettled
<1>2. proposal[w] = score[w] => proposal[w] # Nothing
  BY ScoreValues
<1> QED
  BY <1>1, <1>2 DEF StaysSettled

\* Steps that have nothing to do with scores and results.
Silent ==
    /\ UNCHANGED <<score, result, global_score, proposal, score_updates, best, best_results, collecting>>
    /\ cpc' = "done" => cpc = "done"
    /\ \A w \in Worker : pc[w] = "done" => pc'[w] = "done"
    /\ StaysSettled /\ NoResultSent

\* They keep where the best result is.
LEMMA SilentKeeps ==
    ASSUME SafetyInv, BestInv, Silent PROVE BestInv'
<1>1. BoundInv'
  BY DEF BestInv, Silent, BoundInv
<1>2. HolderInv'
  BY DEF BestInv, Silent, HolderInv
<1>3. SettledInv'
  BY SettledKeeps DEF BestInv, Silent
<1>4. SolutionInv'
  <2>1. DoneKeeps
    BY DEF Silent, DoneKeeps
  <2> QED
    BY <2>1, SolutionKeeps DEF BestInv, Silent
<1> QED
  BY <1>1, <1>2, <1>3, <1>4 DEF BestInv

\* Receiving a message sends no result, and neither does sending another message.
LEMMA NoResults ==
    ASSUME NEW net \in World
    PROVE  /\ SendsNoResult(net, net)
           /\ \A s, d \in Rank : net[<<s, d>>] # <<>> => SendsNoResult(net, Drop(net, <<s, d>>))
           /\ \A s, d \in Rank : \A m \in WorldMsg : m.tag \notin {"NO_RESULT", "HAS_RESULT"} =>
                SendsNoResult(net, Post(net, <<s, d>>, m))
<1>1. \A w \in Worker : w \in Rank /\ Center \in Rank
  BY Ranks
<1>2. ASSUME NEW s \in Rank, NEW d \in Rank, net[<<s, d>>] # <<>>
      PROVE  SendsNoResult(net, Drop(net, <<s, d>>))
  BY <1>1, <1>2, WorldDrop DEF SendsNoResult
<1>3. ASSUME NEW s \in Rank, NEW d \in Rank, NEW m \in WorldMsg, m.tag \notin {"NO_RESULT", "HAS_RESULT"}
      PROVE  SendsNoResult(net, Post(net, <<s, d>>, m))
  BY <1>1, <1>3, WorldPost DEF SendsNoResult
<1> QED
  BY <1>2, <1>3 DEF SendsNoResult

\* Nor do two such steps.
LEMMA NoResultsTwice ==
    ASSUME NEW a, NEW b, NEW c, SendsNoResult(a, b), SendsNoResult(b, c)
    PROVE  SendsNoResult(a, c)
  BY DEF SendsNoResult

\* What the parts of Silent say of a main thread that goes from one place to another.
PlacesKept == (\A w \in Worker : pc[w] = "done" => pc'[w] = "done") /\ StaysSettled
LEMMA Moves ==
    ASSUME pc \in [Worker -> MainPC], NEW w \in Worker, NEW x, pc' = [pc EXCEPT ![w] = x], pc[w] # "done",
           x \in Settled => pc[w] \in Settled,
           pc[w] = "finalpropose" => proposal[w] = Nothing
    PROVE  PlacesKept
<1>1. \A v \in Worker : pc'[v] = IF v = w THEN x ELSE pc[v]
  OBVIOUS
<1> QED
  BY <1>1 DEF PlacesKept, StaysSettled

\* The variables no silent step changes.
SilentVars == <<score, result, global_score, proposal, score_updates, best, best_results, collecting>>

\* Steps of a worker that send no result and touch no score.
LEMMA WorkerSilent ==
    ASSUME UNCHANGED SilentVars, cpc' = cpc, PlacesKept, NoResultSent PROVE Silent
  BY DEF SilentVars, Silent, PlacesKept

\* The main thread's steps that are silent: it pops, sends a task, goes on when a proposal is
\* matched, leaves task_funneling, receives a task or an acknowledgement.
LEMMA MainSilent ==
    ASSUME SafetyInv, NEW w \in Worker,
           \/ FirstPop(w) \/ CheckQueue(w) \/ CheckDone(w) \/ SendTask(w) \/ TaskSent(w)
           \/ ProposalMatched(w) \/ LeaveFunnel(w)
           \/ \E s \in Rank : ReceiveTask(w, s) \/ ReceiveAck(w, s)
    PROVE  Silent
<1>1. pc \in [Worker -> MainPC] /\ world \in World /\ w \in Rank /\ Center \in Rank
  BY Ranks DEF SafetyInv, TypeOK, WorkerTypes, WorldTypes, World
<1>2. SendsNoResult(world, world)
  BY <1>1, NoResults
<1>3. ASSUME NEW x, PopBundle(w, x), pc[w] \in {"pop", "check", "isdone"}, x \in {"poll", "isdone", "final"}
      PROVE  Silent
  <2>1. UNCHANGED SilentVars /\ cpc' = cpc /\ world' = world
    BY <1>3 DEF PopBundle, SilentVars
  <2>2. \E y \in {"send", "poll", "isdone", "final"} : pc' = [pc EXCEPT ![w] = y]
    BY <1>3 DEF PopBundle
  <2>3. PlacesKept
    BY <1>1, <1>3, <2>2, Moves DEF Settled, Idle
  <2> QED
    BY <1>2, <2>1, <2>3, WorkerSilent DEF NoResultSent
<1>4. ASSUME NEW x \in MainPC \ Settled, pc' = [pc EXCEPT ![w] = x], pc[w] \notin {"done", "finalpropose"}
      PROVE  PlacesKept
  BY <1>1, <1>4, Moves
<1>5. CASE CheckDone(w)
  <2>1. CASE busy[w]
    <3>1. UNCHANGED SilentVars /\ cpc' = cpc /\ world' = world
      BY <1>5, <2>1 DEF CheckDone, SilentVars
    <3>2. pc' = [pc EXCEPT ![w] = "poll"] /\ pc[w] = "isdone"
      BY <1>5, <2>1 DEF CheckDone
    <3>3. PlacesKept
      BY <1>4, <3>2 DEF Settled, Idle, MainPC
    <3> QED
      BY <1>2, <3>1, <3>3, WorkerSilent DEF NoResultSent
  <2> QED
    BY <1>3, <1>5, <2>1 DEF CheckDone
<1>6. CASE FirstPop(w) \/ CheckQueue(w)
  BY <1>3, <1>6 DEF FirstPop, CheckQueue
<1>7. CASE SendTask(w)
  <2>1. UNCHANGED SilentVars /\ cpc' = cpc /\ pc[w] = "send"
    BY <1>7 DEF SendTask, Throw, SilentVars
  <2>2. pc' = [pc EXCEPT ![w] = "threw"] \/ pc' = [pc EXCEPT ![w] = "sending"]
    BY <1>7 DEF SendTask, Throw
  <2>3. PlacesKept
    BY <1>4, <2>1, <2>2 DEF Settled, Idle, MainPC
  <2>4. \/ world' = world
        \/ destination_rank[w] > 0 /\ world' = Post(world, <<w, destination_rank[w]>>, TaskMsg(bundle[w]))
    <3>1. destination_rank[w] \in Int
      BY Ranks DEF SafetyInv, TypeOK, TargetTypes, None
    <3> QED
      BY <3>1, <1>7 DEF SendTask, Throw
  <2>5. bundle[w] \in Task /\ TaskMsg(bundle[w]) \in WorldMsg /\ TaskMsg(bundle[w]).tag = "TASK"
    BY <2>1, MessageTypes DEF SafetyInv, WorkerInv
  <2>6. destination_rank[w] > 0 => destination_rank[w] \in Rank
    BY Ranks DEF SafetyInv, TypeOK, TargetTypes, None
  <2>7. NoResultSent
    BY <1>1, <1>2, <2>4, <2>5, <2>6, NoResults DEF NoResultSent
  <2> QED
    BY <2>1, <2>3, <2>7, WorkerSilent
<1>8. CASE TaskSent(w)
  <2>1. UNCHANGED SilentVars /\ cpc' = cpc /\ pc[w] = "sending" /\ world' = world
    BY <1>8 DEF TaskSent, Throw, SilentVars
  <2>2. pc' = [pc EXCEPT ![w] = "threw"] \/ pc' = [pc EXCEPT ![w] = "poll"]
    BY <1>8 DEF TaskSent, Throw
  <2>3. PlacesKept
    BY <1>4, <2>1, <2>2 DEF Settled, Idle, MainPC
  <2> QED
    BY <1>2, <2>1, <2>3, WorkerSilent DEF NoResultSent
<1>9. CASE ProposalMatched(w)
  <2>1. UNCHANGED SilentVars /\ cpc' = cpc /\ pc[w] = "propose" /\ world' = world
        /\ pc' = [pc EXCEPT ![w] = "check"]
    BY <1>9 DEF ProposalMatched, SilentVars
  <2>3. PlacesKept
    BY <1>4, <2>1 DEF Settled, Idle, MainPC
  <2> QED
    BY <1>2, <2>1, <2>3, WorkerSilent DEF NoResultSent
<1>10. CASE LeaveFunnel(w)
  <2>1. /\ UNCHANGED SilentVars /\ cpc' = cpc
        /\ pc[w] = "leave" \/ (pc[w] = "finalpropose" /\ proposal[w] = Nothing)
    BY <1>10 DEF LeaveFunnel, SilentVars
  <2>2. pc' = [pc EXCEPT ![w] = "threw"] \/ pc' = [pc EXCEPT ![w] = "probe"]
    BY <1>10 DEF LeaveFunnel, Leave
  <2>3. PlacesKept
    BY <1>1, <2>1, <2>2, Moves DEF Settled, Idle
  <2> DEFINE net == Post(world, <<w, Center>>, Msg("AVAILABLE_STATE"))
  <2>4. world' = world \/ release_parent_if_passive(w, net, deficit[w])
    BY <1>10 DEF LeaveFunnel, Leave
  <2>5. net \in World /\ SendsNoResult(world, net)
    BY <1>1, WorldPost, NoResults, MessageTypes
  <2> HIDE DEF net
  <2>6. release_parent_if_passive(w, net, deficit[w]) => SendsNoResult(net, world')
    <3> SUFFICES ASSUME release_parent_if_passive(w, net, deficit[w]) PROVE SendsNoResult(net, world')
      OBVIOUS
    <3>1. \A p, q \in Rank : \A x :
            x \in Messages(world', <<p, q>>) => x \in Messages(net, <<p, q>>) \/ x.tag = "TASK_RECEIVED"
      BY <2>5, Releasing DEF SafetyInv, TypeOK
    <3> QED
      BY <3>1, Ranks DEF SendsNoResult
  <2>7. NoResultSent
    BY <1>2, <2>4, <2>5, <2>6, NoResultsTwice DEF NoResultSent
  <2> QED
    BY <2>1, <2>3, <2>7, WorkerSilent
<1>11. ASSUME NEW s \in Rank, ReceiveTask(w, s) PROVE Silent
  <2> DEFINE t == Head(world[<<s, w>>]).task
             rest == Drop(world, <<s, w>>)
             one == Post(rest, <<w, s>>, AckMsg(t))
  <2>1. /\ UNCHANGED SilentVars /\ cpc' = cpc /\ pc[w] = "probe" /\ pc' = [pc EXCEPT ![w] = "pop"]
        /\ Arrived(s, w, "TASK")
        /\ \/ world' = Post(one, <<w, Center>>, Msg("RUNNING_STATE"))
           \/ world' = Post(rest, <<w, Center>>, Msg("RUNNING_STATE"))
    BY <1>11 DEF ReceiveTask, SilentVars
  <2>2. PlacesKept
    BY <1>4, <2>1 DEF Settled, Idle, MainPC
  <2>3. world[<<s, w>>] # <<>> /\ Head(world[<<s, w>>]).tag = "TASK"
    BY <2>1 DEF Arrived
  <2>4. /\ rest \in World /\ SendsNoResult(world, rest) /\ t \in Task
    BY <1>1, <2>3, WorldDrop, NoResults, MessageTypes
  <2>5. AckMsg(t) \in WorldMsg /\ AckMsg(t).tag = "TASK_RECEIVED"
    BY <2>4, MessageTypes
  <2> HIDE DEF rest, t
  <2>6. one \in World /\ SendsNoResult(rest, one)
    BY <1>1, <2>4, <2>5, WorldPost, NoResults
  <2> HIDE DEF one
  <2>7. /\ SendsNoResult(one, Post(one, <<w, Center>>, Msg("RUNNING_STATE")))
        /\ SendsNoResult(rest, Post(rest, <<w, Center>>, Msg("RUNNING_STATE")))
    BY <1>1, <2>4, <2>6, NoResults, MessageTypes
  <2>8. SendsNoResult(world, one)
    BY <2>4, <2>6, NoResultsTwice
  <2>9. SendsNoResult(world, world')
    BY <2>1, <2>4, <2>7, <2>8, NoResultsTwice
  <2> QED
    BY <2>1, <2>2, <2>9, WorkerSilent DEF NoResultSent
<1>12. ASSUME NEW s \in Rank, ReceiveAck(w, s) PROVE Silent
  <2> DEFINE rest == Drop(world, <<s, w>>)
  <2>1. /\ UNCHANGED SilentVars /\ cpc' = cpc /\ pc[w] = "probe"
        /\ world[<<s, w>>] # <<>>
        /\ pc' = pc \/ pc' = [pc EXCEPT ![w] = "threw"]
        /\ world' = world \/ release_parent_if_passive(w, rest, deficit[w] - 1)
    BY <1>12 DEF ReceiveAck, Throw, Arrived, SilentVars
  <2>2. PlacesKept
    <3>1. CASE pc' = pc
      BY <3>1 DEF PlacesKept, StaysSettled
    <3> QED
      BY <3>1, <1>4, <2>1 DEF Settled, Idle, MainPC
  <2>3. rest \in World /\ SendsNoResult(world, rest)
    BY <1>1, <2>1, WorldDrop, NoResults
  <2> HIDE DEF rest
  <2>4. release_parent_if_passive(w, rest, deficit[w] - 1) => SendsNoResult(rest, world')
    <3> SUFFICES ASSUME release_parent_if_passive(w, rest, deficit[w] - 1) PROVE SendsNoResult(rest, world')
      OBVIOUS
    <3>1. \A p, q \in Rank : \A x :
            x \in Messages(world', <<p, q>>) => x \in Messages(rest, <<p, q>>) \/ x.tag = "TASK_RECEIVED"
      BY <2>3, Releasing DEF SafetyInv, TypeOK
    <3> QED
      BY <3>1, Ranks DEF SendsNoResult
  <2>5. NoResultSent
    BY <1>2, <2>1, <2>3, <2>4, NoResultsTwice DEF NoResultSent
  <2> QED
    BY <2>1, <2>2, <2>5, WorkerSilent
<1> QED
  BY <1>5, <1>6, <1>7, <1>8, <1>9, <1>10, <1>11, <1>12

\* The silent steps of the pool threads.
LEMMA PoolSilent ==
    ASSUME SafetyInv, NEW w \in Worker, Push(w) \/ PoolDone(w)
    PROVE  Silent
<1>1. pc \in [Worker -> MainPC] /\ SendsNoResult(world, world) /\ busy[w]
  BY NoResults DEF SafetyInv, TypeOK, WorkerTypes, WorldTypes, World, Push, PoolDone
<1>2. UNCHANGED SilentVars /\ cpc' = cpc /\ world' = world
  BY DEF Push, PoolDone, SilentVars
<1>3. pc' = pc \/ pc' = [pc EXCEPT ![w] = "threw"]
  BY DEF Push, PoolDone
<1>4. pc[w] \notin {"done", "finalpropose"}
  BY <1>1 DEF SafetyInv, WorkerInv, Idle
<1>5. PlacesKept
  <2>1. CASE pc' = pc
    BY <2>1 DEF PlacesKept, StaysSettled
  <2> QED
    BY <2>1, <1>1, <1>3, <1>4, Moves DEF Settled, Idle
<1> QED
  BY <1>1, <1>2, <1>5, WorkerSilent DEF NoResultSent

\* The silent steps of the center: all but those that read a proposal or a result.
LEMMA CenterSilent ==
    ASSUME SafetyInv,
           \/ Start \/ NotifyTermination \/ Barrier
           \/ \E w \in Worker : ProcessRunning(w) \/ ProcessAvailable(w) \/ CenterReceiveAck(w)
    PROVE  Silent
<1>1. pc \in [Worker -> MainPC] /\ world \in World /\ Center \in Rank /\ SendsNoResult(world, world)
  BY Ranks, NoResults DEF SafetyInv, TypeOK, WorkerTypes, WorldTypes, World
<1>2. ASSUME UNCHANGED SilentVars, pc' = pc, cpc' # "done", NoResultSent PROVE Silent
  BY <1>2 DEF SilentVars, Silent, StaysSettled
<1>3. CASE Start
  <2>1. /\ UNCHANGED SilentVars /\ pc' = pc /\ cpc' = "loop"
        /\ world' = Post(world, <<Center, 1>>, TaskMsg(Seed))
    BY <1>3 DEF Start, send_seed, SilentVars
  <2>2. NoResultSent
    BY <1>1, <2>1, NoResults, MessageTypes, Ranks DEF NoResultSent
  <2> QED
    BY <1>2, <2>1, <2>2
<1>4. CASE NotifyTermination
  <2> DEFINE C == {Center} \X Worker
             f == [c \in C |-> [tag |-> "TERMINATION",
                                counts |-> <<score_updates_sent, next_processes_sent[c[2]]>>]]
  <2>1. /\ UNCHANGED SilentVars /\ pc' = pc /\ cpc' = "barrier" /\ world' = PostEach(world, f)
    BY <1>4 DEF NotifyTermination, SilentVars
  <2>2. \A w \in Worker : <<w, Center>> \in Rank \X Rank /\ <<w, Center>> \notin C
    BY Ranks
  <2>3. DOMAIN f = C
    OBVIOUS
  <2> HIDE DEF C, f
  <2>4. \A w \in Worker : world'[<<w, Center>>] = world[<<w, Center>>]
    BY <1>1, <2>1, <2>2, <2>3 DEF PostEach, World, Net
  <2>5. NoResultSent
    BY <2>4 DEF NoResultSent, SendsNoResult, Messages
  <2> QED
    BY <1>2, <2>1, <2>5
<1>5. CASE Barrier
  <2>1. /\ UNCHANGED SilentVars /\ cpc' = "collect" /\ world' = world
        /\ \A w \in Worker : pc[w] = "barrier" /\ pc'[w] = "result"
    BY <1>5 DEF Barrier, SilentVars
  <2>2. StaysSettled
    BY <2>1 DEF StaysSettled, Settled, Idle
  <2> QED
    BY <1>1, <2>1, <2>2 DEF SilentVars, Silent, NoResultSent
<1>6. ASSUME NEW w \in Worker, ProcessRunning(w) \/ ProcessAvailable(w) PROVE Silent
  <2>1. /\ UNCHANGED SilentVars /\ pc' = pc /\ world' = Drop(world, <<w, Center>>)
        /\ world[<<w, Center>>] # <<>>
    BY <1>6 DEF ProcessRunning, ProcessAvailable, Arrived, SilentVars
  <2>2. cpc = "loop" /\ (cpc' = cpc \/ cpc' = "threw")
    BY <1>6 DEF ProcessRunning, ProcessAvailable, Assign, AssignNobody
  <2>3. NoResultSent
    BY <1>1, <2>1, NoResults, Ranks DEF NoResultSent
  <2> QED
    BY <1>2, <2>1, <2>2, <2>3
<1>7. ASSUME NEW w \in Worker, CenterReceiveAck(w) PROVE Silent
  <2>1. /\ UNCHANGED SilentVars /\ pc' = pc /\ cpc' # "done"
        /\ world' = world \/ world' = Drop(world, <<w, Center>>)
        /\ world[<<w, Center>>] # <<>>
    BY <1>7 DEF CenterReceiveAck, CenterThrows, Arrived, SilentVars
  <2>2. NoResultSent
    BY <1>1, <2>1, NoResults, Ranks DEF NoResultSent
  <2> QED
    BY <1>2, <2>1, <2>2
<1> QED
  BY <1>3, <1>4, <1>5, <1>6, <1>7

\* A rank that does nothing is silent.
LEMMA StutterSilent ==
    ASSUME SafetyInv, UNCHANGED vars PROVE Silent
<1>1. SendsNoResult(world, world)
  BY NoResults DEF SafetyInv, TypeOK, WorldTypes, World
<1> QED
  BY <1>1 DEF vars, Silent, StaysSettled, NoResultSent

\* BoundInv and HolderInv are about scores.
LEMMA ScoresKeep ==
    ASSUME BestInv, UNCHANGED <<score, result, global_score, proposal, score_updates, best>>
    PROVE  BoundInv' /\ HolderInv'
<1>1. BoundInv'
  BY DEF BestInv, BoundInv
<1>2. HolderInv'
  BY DEF BestInv, HolderInv
<1> QED
  BY <1>1, <1>2

\* What SolutionInv says of one worker.
Delivered(w) ==
    /\ \A m \in Messages(world, <<w, Center>>) :
         /\ m.tag = "NO_RESULT" => pc[w] = "done" /\ result[w] = Nothing
         /\ m.tag = "HAS_RESULT" =>
              /\ pc[w] = "done" /\ result[w] # Nothing
              /\ m.score = score[w] /\ m.packet = result[w]
    /\ best_results[w] # EmptyResult =>
         pc[w] = "done" /\ result[w] # Nothing /\ best_results[w] = Kept(w)
    /\ w < collecting \/ cpc = "done" =>
         pc[w] = "done" /\ (result[w] # Nothing => best_results[w] = Kept(w))

\* send_final_solution_to_center: the message says what the worker keeps.
LEMMA SendSolutionBest ==
    ASSUME SafetyInv, BestInv, NEW w \in Worker, SendSolution(w)
    PROVE  BestInv'
<1> DEFINE m == IF result[w] = Nothing THEN Msg("NO_RESULT")
                ELSE [tag |-> "HAS_RESULT", score |-> score[w], packet |-> result[w]]
<1>1. /\ pc \in [Worker -> MainPC] /\ world \in World /\ w \in Rank /\ Center \in Rank
      /\ result[w] \in Scores \cup {Nothing} /\ score[w] \in Scores \cup {Default}
  BY Ranks DEF SafetyInv, TypeOK, WorkerTypes, WorldTypes, World, ScoreTypes
<1>2. /\ UNCHANGED SilentVars /\ cpc' = cpc /\ pc[w] = "result" /\ pc' = [pc EXCEPT ![w] = "done"]
      /\ world' = Post(world, <<w, Center>>, m)
  BY DEF SendSolution, SilentVars
<1>3. /\ m \in WorldMsg /\ m.tag \in {"NO_RESULT", "HAS_RESULT"}
      /\ m.tag = "NO_RESULT" => result[w] = Nothing
      /\ m.tag = "HAS_RESULT" => result[w] # Nothing /\ m.score = score[w] /\ m.packet = result[w]
  <2>1. CASE result[w] = Nothing
    BY <2>1, MessageTypes
  <2>2. CASE result[w] # Nothing
    BY <1>1, <2>2 DEF WorldMsg
  <2> QED
    BY <2>1, <2>2
<1> HIDE DEF m
<1>4. \A v \in Worker : \A x : x \in Messages(world', <<v, Center>>) <=>
        x \in Messages(world, <<v, Center>>) \/ (v = w /\ x = m)
  <2>1. \A p, q \in Rank : \A x : x \in Messages(Post(world, <<w, Center>>, m), <<p, q>>) <=>
          x \in Messages(world, <<p, q>>) \/ (p = w /\ q = Center /\ x = m)
    <3>1. world \in World /\ w \in Rank /\ Center \in Rank /\ m \in WorldMsg
      BY <1>1, <1>3
    <3> QED
      BY <3>1, WorldPost
  <2> QED
    BY <1>1, <1>2, <2>1, Ranks
<1>5. BoundInv' /\ HolderInv'
  BY <1>2, ScoresKeep DEF SilentVars
<1>6. SettledInv'
  <2>1. PlacesKept
    BY <1>1, <1>2, Moves DEF Settled, Idle
  <2> QED
    BY <1>2, <2>1, SettledKeeps DEF BestInv, PlacesKept, SilentVars
<1>7. SolutionInv'
  <2>1. ASSUME NEW v \in Worker PROVE Delivered(v)'
    <3>1. Delivered(v)
      BY DEF BestInv, SolutionInv, Delivered
    <3>2. Kept(v)' = Kept(v)
      BY <1>2 DEF Kept, SilentVars
    <3>3. CASE v # w
      <4>1. pc'[v] = pc[v] /\ \A x : x \in Messages(world', <<v, Center>>) <=> x \in Messages(world, <<v, Center>>)
        BY <1>1, <1>2, <1>4, <3>3
      <4> QED
        BY <1>2, <3>1, <3>2, <4>1 DEF Delivered, SilentVars
    <3>4. CASE v = w
      <4>1. pc'[v] = "done" /\ pc[v] # "done"
        BY <1>1, <1>2, <3>4
      <4>2. \A x \in Messages(world', <<v, Center>>) :
              /\ x.tag = "NO_RESULT" => result[v] = Nothing
              /\ x.tag = "HAS_RESULT" => result[v] # Nothing /\ x.score = score[v] /\ x.packet = result[v]
        BY <1>3, <1>4, <3>1, <3>4, <4>1 DEF Delivered
      <4> QED
        BY <1>2, <3>1, <4>1, <4>2 DEF Delivered, SilentVars
    <3> QED
      BY <3>3, <3>4
  <2>2. best_results' = best_results
    BY <1>2 DEF SilentVars
  <2> QED
    BY <2>1, <2>2 DEF BestInv, SolutionInv, Delivered
<1> QED
  BY <1>5, <1>6, <1>7 DEF BestInv

\* receive_solution: what is collected from a rank is what it keeps.
LEMMA ReceiveSolutionBest ==
    ASSUME SafetyInv, BestInv, ReceiveSolution
    PROVE  BestInv'
<1> DEFINE c == collecting
           m == Head(world[<<c, Center>>])
           got == [best_results EXCEPT ![c] = [score |-> m.score, packet |-> m.packet]]
<1>1. /\ world \in World /\ c \in Worker /\ c \in Rank /\ Center \in Rank
      /\ cpc = "collect" /\ world[<<c, Center>>] # <<>>
  BY Ranks DEF SafetyInv, TypeOK, WorldTypes, World, CenterTypes, ReceiveSolution
<1>2. /\ UNCHANGED <<pc, score, result, global_score, proposal, score_updates, best>>
      /\ world' = Drop(world, <<c, Center>>)
  BY DEF ReceiveSolution
<1>3. /\ best_results' = IF m.tag # "HAS_RESULT" THEN best_results ELSE got
      /\ m.tag \in {"HAS_RESULT", "NO_RESULT"} /\ c = WorldSize - 1 => collecting' = c /\ cpc' = "done"
      /\ m.tag \in {"HAS_RESULT", "NO_RESULT"} /\ c # WorldSize - 1 => collecting' = c + 1 /\ cpc' = cpc
      /\ m.tag \notin {"HAS_RESULT", "NO_RESULT"} => collecting' = c /\ cpc' \in {"collect", "threw"}
  <2> DEFINE isResult == m.tag \in {"HAS_RESULT", "NO_RESULT"}
             isState == m.tag \in {"RUNNING_STATE", "AVAILABLE_STATE"}
             last == c = WorldSize - 1
  <2>1. best_results' = IF m.tag # "HAS_RESULT" THEN best_results ELSE got
    BY DEF ReceiveSolution
  <2>2. collecting' = IF isResult /\ ~last THEN collecting + 1 ELSE collecting
    BY DEF ReceiveSolution
  <2>3. cpc' = CASE isResult /\ last -> "done" [] (isResult /\ ~last) \/ isState -> cpc [] OTHER -> "threw"
    BY DEF ReceiveSolution
  <2> HIDE DEF m, got
  <2>4. /\ isResult /\ last => cpc' = "done"
        /\ isResult /\ ~last => cpc' = cpc
        /\ ~isResult => cpc' \in {"collect", "threw"}
    <3>1. ~(isResult /\ isState)
      OBVIOUS
    <3> HIDE DEF isResult, isState, last
    <3> QED
      BY <1>1, <2>3, <3>1
  <2> QED
    BY <2>1, <2>2, <2>4
<1>4. /\ m \in Messages(world, <<c, Center>>)
      /\ \A v \in Worker : \A x \in Messages(world', <<v, Center>>) : x \in Messages(world, <<v, Center>>)
  BY <1>1, <1>2, WorldDrop, Ranks
<1> HIDE DEF m
<1>5. BoundInv' /\ HolderInv'
  BY <1>2, ScoresKeep
<1>6. SettledInv'
  <2>1. StaysSettled
    BY <1>2 DEF StaysSettled
  <2> QED
    BY <1>2, <2>1, SettledKeeps DEF BestInv
<1>7. \A v \in Worker : Delivered(v) /\ Kept(v)' = Kept(v)
  BY <1>2 DEF BestInv, SolutionInv, Delivered, Kept
<1>8. best_results \in [Worker -> [score : Int, packet : Scores \cup {Nothing}]]
  BY DEF BestInv, SolutionInv
<1>9. /\ m.tag = "NO_RESULT" => pc[c] = "done" /\ result[c] = Nothing
      /\ m.tag = "HAS_RESULT" => pc[c] = "done" /\ result[c] # Nothing /\ got[c] = Kept(c)
  BY <1>1, <1>4, <1>7, <1>8 DEF Delivered, Kept
<1>10. /\ \A v \in Worker : v # c => best_results'[v] = best_results[v]
       /\ m.tag = "HAS_RESULT" => best_results'[c] = Kept(c)
       /\ m.tag # "HAS_RESULT" => best_results'[c] = best_results[c]
  BY <1>3, <1>8, <1>9
<1>11. best_results' \in [Worker -> [score : Int, packet : Scores \cup {Nothing}]]
  <2>1. Kept(c) \in [score : Int, packet : Scores \cup {Nothing}]
    BY <1>1, ScoreValues DEF Kept
  <2>2. m.tag = "HAS_RESULT" => [score |-> m.score, packet |-> m.packet] = Kept(c)
    BY <1>1, <1>8, <1>9
  <2> QED
    BY <1>1, <1>3, <1>8, <2>1, <2>2
<1>12. ASSUME NEW v \in Worker PROVE Delivered(v)'
  <2>1. v < collecting' \/ cpc' = "done" =>
          v < c \/ (v = c /\ m.tag \in {"HAS_RESULT", "NO_RESULT"})
    <3>1. v \in Int /\ c \in Int /\ v <= WorldSize - 1 /\ WorldSize \in Int
      BY <1>1, WorldSizeAssumption DEF Worker
    <3> QED
      BY <1>1, <1>3, <3>1
  <2>2. v < collecting' \/ cpc' = "done" =>
          pc[v] = "done" /\ (result[v] # Nothing => best_results'[v] = Kept(v))
    <3>1. CASE v < c
      <4>1. v # c
        BY <1>1, <3>1 DEF Worker
      <4> QED
        BY <1>7, <1>10, <3>1, <4>1 DEF Delivered
    <3>2. CASE v = c /\ m.tag \in {"HAS_RESULT", "NO_RESULT"}
      BY <1>9, <1>10, <3>2
    <3> QED
      BY <2>1, <3>1, <3>2
  <2>3. best_results'[v] # EmptyResult =>
          pc[v] = "done" /\ result[v] # Nothing /\ best_results'[v] = Kept(v)
    BY <1>7, <1>9, <1>10 DEF Delivered
  <2>4. EmptyResult' = EmptyResult
    BY DEF EmptyResult
  <2> QED
    BY <1>2, <1>4, <1>7, <2>2, <2>3, <2>4 DEF Delivered
<1>13. SolutionInv'
  BY <1>11, <1>12 DEF SolutionInv, Delivered
<1> QED
  BY <1>5, <1>6, <1>13 DEF BestInv

\* What the center has told the workers is nothing better than its own score.
GlobalsFit(scores, updates) == \A v \in Worker :
    /\ NoBetter(scores[v], scores[Center])
    /\ \A s \in Messages(updates, v) : NoBetter(s, scores[Center])

\* Reading it changes that for no worker.
LEMMA ReadingFits ==
    ASSUME SafetyInv, BestInv, NEW w \in Worker, NEW ns \in 0 .. Len(score_updates[w]),
           NEW nn \in 0 .. Len(next_messages[w]), ReceiveFromCenter(w, ns, nn)
    PROVE  /\ GlobalsFit(global_score', score_updates') /\ global_score'[Center] = global_score[Center]
           /\ global_score'[w] \in Scores \cup {Default} /\ Found(global_score'[w])
<1>1. /\ \A r \in Rank \ {w} : global_score'[r] = global_score[r]
      /\ global_score'[w] \in Messages(score_updates, w) \cup {global_score[w]}
      /\ \A v \in Worker : Messages(score_updates', v) \subseteq Messages(score_updates, v)
      /\ global_score' \in [Rank -> Scores \cup {Default}]
  BY Reading DEF SafetyInv, TypeOK
<1>2. Center \in Rank \ {w} /\ \A v \in Worker : v \in Rank
  BY Ranks
<1>3. \A v \in Worker : /\ NoBetter(global_score[v], global_score[Center])
                        /\ \A s \in Messages(score_updates, v) : NoBetter(s, global_score[Center])
  BY DEF BestInv, BoundInv
<1>4. Found(global_score'[w])
  BY <1>1, <1>2 DEF SafetyInv, ScoreInv
<1> QED
  BY <1>1, <1>2, <1>3, <1>4 DEF GlobalsFit

\* A worker that only reads what the center has sent.
LEMMA ReadingBest ==
    ASSUME SafetyInv, BestInv, GlobalsFit(global_score', score_updates'),
           global_score'[Center] = global_score[Center],
           UNCHANGED <<score, result, proposal, best, best_results, collecting, cpc>>,
           PlacesKept, NoResultSent
    PROVE  BestInv'
<1>1. BoundInv'
  BY DEF BestInv, BoundInv, GlobalsFit
<1>2. HolderInv'
  BY DEF BestInv, HolderInv
<1>3. SettledInv'
  BY SettledKeeps DEF BestInv, PlacesKept
<1>4. SolutionInv'
  <2>1. DoneKeeps
    BY DEF PlacesKept, DoneKeeps
  <2> QED
    BY <2>1, SolutionKeeps DEF BestInv
<1> QED
  BY <1>1, <1>2, <1>3, <1>4 DEF BestInv

\* receive_score_from_center and receive_next_process.
LEMMA ReceiveNoticeBest ==
    ASSUME SafetyInv, BestInv, NEW w \in Worker, ReceiveNotice(w)
    PROVE  BestInv'
<1>1. /\ UNCHANGED <<score, result, proposal, best, best_results, collecting, cpc>>
      /\ pc' = pc /\ world' = world
  BY DEF ReceiveNotice
<1>2. PICK ns \in 0 .. Len(score_updates[w]), nn \in 0 .. Len(next_messages[w]) :
        ReceiveFromCenter(w, ns, nn)
  <2>1. score_updates[w] \in Seq(Scores) /\ next_messages[w] \in Seq(Worker)
    BY DEF SafetyInv, TypeOK, StreamTypes, Net
  <2>2. /\ 0 \in 0 .. Len(score_updates[w]) /\ 0 \in 0 .. Len(next_messages[w])
        /\ score_updates[w] # <<>> => 1 \in 0 .. Len(score_updates[w])
        /\ next_messages[w] # <<>> => 1 \in 0 .. Len(next_messages[w])
    BY <2>1, EmptySeq
  <2> QED
    BY <2>2 DEF ReceiveNotice
<1>3. PlacesKept /\ NoResultSent
  BY <1>1, NoResults
     DEF PlacesKept, StaysSettled, NoResultSent, SafetyInv, TypeOK, WorldTypes, World
<1> QED
  BY <1>1, <1>2, <1>3, ReadingFits, ReadingBest

\* process_termination.
LEMMA ReceiveTerminationBest ==
    ASSUME SafetyInv, BestInv, NEW w \in Worker, ReceiveTermination(w)
    PROVE  BestInv'
<1>1. /\ UNCHANGED <<score, result, proposal, best, best_results, collecting, cpc>>
      /\ pc[w] = "probe" /\ world[<<Center, w>>] # <<>>
      /\ world' = world \/ world' = Drop(world, <<Center, w>>)
      /\ pc' = [pc EXCEPT ![w] = "threw"] \/ pc' = [pc EXCEPT ![w] = "barrier"]
  BY DEF ReceiveTermination, Throw, Arrived
<1>2. PlacesKept /\ NoResultSent
  <2>1. pc \in [Worker -> MainPC] /\ world \in World
    BY DEF SafetyInv, TypeOK, WorkerTypes, WorldTypes, World
  <2>2. PlacesKept
    BY <1>1, <2>1, Moves DEF Settled, Idle
  <2> QED
    BY <1>1, <2>1, <2>2, NoResults, Ranks DEF NoResultSent
<1>3. /\ GlobalsFit(global_score', score_updates')
      /\ global_score'[Center] = global_score[Center]
  <2>1. CASE UNCHANGED <<global_score, score_updates>>
    BY <2>1 DEF BestInv, BoundInv, GlobalsFit
  <2>2. CASE \E ns \in 0 .. Len(score_updates[w]), nn \in 0 .. Len(next_messages[w]) :
               ReceiveFromCenter(w, ns, nn)
    BY <2>2, ReadingFits
  <2>3. ASSUME Throw(w) PROVE UNCHANGED <<global_score, score_updates>>
    BY <2>3 DEF Throw
  <2> DEFINE m == Head(world[<<Center, w>>])
             scores == pending(m.counts[1], score_updates_received[w])
             nexts == pending(m.counts[2], next_processes_received[w])
  <2>4. /\ scores \in Int /\ nexts \in Int
        /\ Len(score_updates[w]) \in Nat /\ Len(next_messages[w]) \in Nat
    <3>1. m \in WorldMsg /\ m.tag = "TERMINATION"
      BY <1>1, WorldDrop, Ranks
         DEF SafetyInv, TypeOK, WorldTypes, World, ReceiveTermination, Arrived
    <3>2. m.counts \in Nat \X Nat
      BY <3>1, MessageTypes
    <3> HIDE DEF m
    <3> QED
      BY <3>2 DEF pending, SafetyInv, TypeOK, StreamTypes, Net
  <2>5. \/ Throw(w)
        \/ /\ ~(scores < 0) /\ ~(nexts < 0)
           /\ scores <= Len(score_updates[w]) /\ nexts <= Len(next_messages[w])
           /\ ReceiveFromCenter(w, scores, nexts)
    BY DEF ReceiveTermination
  <2> HIDE DEF scores, nexts
  <2>6. \/ Throw(w)
        \/ /\ scores \in 0 .. Len(score_updates[w]) /\ nexts \in 0 .. Len(next_messages[w])
           /\ ReceiveFromCenter(w, scores, nexts)
    BY <2>4, <2>5
  <2> QED
    BY <2>1, <2>2, <2>3, <2>6
<1> QED
  BY <1>1, <1>2, <1>3, ReadingBest

\* update_score: the result it discards is worse than the center's score, and what it
\* proposes is the worker's score.
LEMMA UpdatingBest ==
    ASSUME SafetyInv, BestInv, NEW w \in Worker, NEW g, NEW next, NEW waiting,
           g \in Scores \cup {Default}, NoBetter(g, global_score[Center]),
           GlobalsFit(global_score', score_updates'), global_score'[Center] = global_score[Center],
           pc[w] # "done", waiting \in Settled => waiting = "finalpropose",
           update_score(w, g, next, waiting), UNCHANGED <<best, best_results, collecting, cpc, world>>
    PROVE  BestInv'
<1> DEFINE center == global_score[Center]
<1>1. /\ Scores \cup {Default} \subseteq Int /\ Nothing \notin Scores \cup {Default}
      /\ center \in Int /\ g \in Int /\ score[w] \in Int
      /\ \A v \in Worker : score[v] \in Int
      /\ score[w] # Nothing /\ pc \in [Worker -> MainPC] /\ score \in [Worker -> Scores \cup {Default}]
      /\ result \in [Worker -> Scores \cup {Nothing}] /\ proposal \in [Worker -> Scores \cup {Nothing}]
  BY ScoreValues, Ranks DEF SafetyInv, TypeOK, WorkerTypes, ScoreTypes
<1>2. /\ best \in Int /\ NoBetter(center, best) /\ NoBetter(g, center) /\ NoBetter(g, best)
      /\ \A v \in Worker : /\ NoBetter(score[v], best)
                           /\ proposal[v] # Nothing => NoBetter(proposal[v], best)
  <2>1. /\ best \in Scores \cup {Default} /\ NoBetter(center, best)
        /\ \A v \in Worker : /\ NoBetter(score[v], best)
                             /\ proposal[v] # Nothing => NoBetter(proposal[v], best)
    BY DEF BestInv, BoundInv
  <2>2. best \in Int
    BY <1>1, <2>1
  <2> HIDE DEF center
  <2>3. NoBetter(g, center) => NoBetter(g, best)
    BY <1>1, <2>1, <2>2, Order
  <2> QED
    BY <2>1, <2>2, <2>3 DEF center
<1>3. \A v \in Worker : v # w =>
        score'[v] = score[v] /\ result'[v] = result[v] /\ proposal'[v] = proposal[v] /\ pc'[v] = pc[v]
  BY <1>1 DEF update_score
<1>4. \/ /\ should_update(score[w], g) /\ score'[w] = g /\ result'[w] = Nothing
         /\ proposal'[w] = proposal[w]
      \/ /\ pc'[w] = waiting /\ proposal'[w] = score[w]
         /\ score'[w] = score[w] /\ result'[w] = result[w]
      \/ /\ g = score[w] /\ score'[w] = score[w] /\ result'[w] = result[w]
         /\ proposal'[w] = proposal[w]
  BY <1>1 DEF update_score
<1>5. BoundInv'
  <2>1. \A v \in Worker : /\ NoBetter(score'[v], best)
                          /\ proposal'[v] # Nothing => NoBetter(proposal'[v], best)
    BY <1>2, <1>3, <1>4
  <2> QED
    BY <2>1 DEF BestInv, BoundInv, GlobalsFit
<1>6. HolderInv'
  <2>1. /\ \A v \in Worker : result[v] # Nothing =>
             result[v] = score[v] /\ should_update(Default, score[v])
        /\ best # Default => \E v \in Worker : score[v] = best /\ result[v] = best
    BY DEF BestInv, HolderInv
  <2>2. \A v \in Worker : result'[v] # Nothing =>
          result'[v] = score'[v] /\ should_update(Default, score'[v])
    BY <1>3, <1>4, <2>1
  <2>3. ASSUME NEW v \in Worker, score[v] = best, result[v] = best
        PROVE  score'[v] = best /\ result'[v] = best
    <3>1. v = w => ~should_update(score[w], g)
      BY <1>2, <2>3 DEF NoBetter
    <3> QED
      BY <1>3, <1>4, <2>3, <3>1
  <2> QED
    BY <2>1, <2>2, <2>3 DEF HolderInv
<1>7. SettledInv'
  <2> SUFFICES ASSUME NEW v \in Worker, pc'[v] \in Settled
               PROVE  \/ NoBetter(score'[v], center)
                      \/ pc'[v] = "finalpropose" /\ proposal'[v] = score'[v]
    BY DEF SettledInv
  <2>1. CASE v = w
    BY <1>2, <1>4, <2>1
  <2>2. CASE v # w
    BY <1>3, <2>2 DEF BestInv, SettledInv
  <2> QED
    BY <2>1, <2>2
<1>8. SolutionInv'
  <2>1. DoneKeeps
    BY <1>3 DEF DoneKeeps
  <2>2. NoResultSent
    BY NoResults DEF NoResultSent, SafetyInv, TypeOK, WorldTypes, World
  <2> QED
    BY <2>1, <2>2, SolutionKeeps DEF BestInv
<1> QED
  BY <1>5, <1>6, <1>7, <1>8 DEF BestInv

\* The section that protects MPI calls.
LEMMA PollCenterBest ==
    ASSUME SafetyInv, BestInv, NEW w \in Worker, PollCenter(w)
    PROVE  BestInv'
<1>1. /\ pc[w] = "poll" /\ update_score(w, global_score'[w], "check", "propose")
      /\ UNCHANGED <<best, best_results, collecting, cpc, world>>
  BY DEF PollCenter
<1>2. PICK ns \in 0 .. Len(score_updates[w]), nn \in 0 .. Len(next_messages[w]) :
        ReceiveFromCenter(w, ns, nn)
  <2>1. PICK ns \in maybe_receive(score_updates[w]), nn \in maybe_receive(next_messages[w]) :
          ReceiveFromCenter(w, ns, nn)
    BY DEF PollCenter
  <2>2. score_updates[w] \in Seq(Scores) /\ next_messages[w] \in Seq(Worker)
    BY DEF SafetyInv, TypeOK, StreamTypes, Net
  <2>3. ns \in 0 .. Len(score_updates[w])
    BY <2>2 DEF maybe_receive
  <2>4. nn \in 0 .. Len(next_messages[w])
    BY <2>2 DEF maybe_receive
  <2> QED
    BY <2>1, <2>3, <2>4
<1>3. /\ GlobalsFit(global_score', score_updates') /\ global_score'[Center] = global_score[Center]
      /\ global_score'[w] \in Scores \cup {Default}
  BY <1>2, ReadingFits
<1>4. NoBetter(global_score'[w], global_score[Center])
  BY <1>3 DEF GlobalsFit
<1>5. "propose" \notin Settled
  BY DEF Settled, Idle
<1> QED
  BY <1>1, <1>3, <1>4, <1>5, UpdatingBest

\* "Attempt final score update before exiting".
LEMMA FinalUpdateBest ==
    ASSUME SafetyInv, BestInv, NEW w \in Worker, FinalUpdate(w)
    PROVE  BestInv'
<1>1. /\ pc[w] = "final" /\ update_score(w, global_score[w], "leave", "finalpropose")
      /\ UNCHANGED <<global_score, score_updates, best, best_results, collecting, cpc, world>>
  BY DEF FinalUpdate
<1>2. /\ GlobalsFit(global_score', score_updates') /\ global_score'[Center] = global_score[Center]
      /\ NoBetter(global_score[w], global_score[Center])
  BY <1>1 DEF BestInv, BoundInv, GlobalsFit
<1>3. global_score[w] \in Scores \cup {Default}
  BY ScoreValues
<1> QED
  BY <1>1, <1>2, <1>3, UpdatingBest

\* try_update_result: whoever reports the best result keeps it, and has not made its last
\* score update.
LEMMA FindResultBest ==
    ASSUME SafetyInv, BestInv, NEW w \in Worker, NEW s \in Scores, FindResult(w, s)
    PROVE  BestInv'
<1>1. /\ busy[w] /\ should_update(score[w], s) /\ score' = [score EXCEPT ![w] = s]
      /\ result' = [result EXCEPT ![w] = s] /\ best' = IF should_update(best, s) THEN s ELSE best
      /\ UNCHANGED <<pc, global_score, proposal, score_updates, best_results, collecting, cpc, world>>
  BY DEF FindResult
<1>2. /\ s \in Int /\ Default \in Int /\ s # Nothing
      /\ \A r \in Rank : global_score[r] \in Int
      /\ \A v \in Worker : score[v] \in Int /\ Found(score[v]) /\ proposal[v] \in Scores \cup {Nothing}
      /\ Scores \cup {Default} \subseteq Int /\ Center \in Rank
  BY ScoreValues
<1>3. score \in [Worker -> Scores \cup {Default}] /\ result \in [Worker -> Scores \cup {Nothing}]
  BY DEF SafetyInv, TypeOK, ScoreTypes
<1>4. /\ best \in Scores \cup {Default} /\ best \in Int /\ NoBetter(global_score[Center], best)
      /\ \A v \in Worker : /\ NoBetter(score[v], best)
                           /\ proposal[v] # Nothing => NoBetter(proposal[v], best)
      /\ GlobalsFit(global_score, score_updates)
  BY <1>2 DEF BestInv, BoundInv, GlobalsFit
<1>5. /\ best' \in Scores \cup {Default} /\ best' \in Int /\ NoBetter(s, best')
      /\ \A x \in Int : NoBetter(x, best) => NoBetter(x, best')
  BY <1>1, <1>2, <1>4 DEF NoBetter, should_update
<1>6. pc[w] \notin Settled
  BY <1>1 DEF SafetyInv, WorkerInv, Settled
<1>7. \A v \in Worker : /\ v # w => score'[v] = score[v] /\ result'[v] = result[v]
                        /\ v = w => score'[v] = s /\ result'[v] = s
  BY <1>1, <1>3
<1>8. BoundInv'
  <2>1. \A v \in Worker : NoBetter(score'[v], best')
    BY <1>2, <1>4, <1>5, <1>7
  <2>2. \A v \in Worker : proposal[v] # Nothing => NoBetter(proposal[v], best')
    BY <1>2, <1>4, <1>5
  <2>3. NoBetter(global_score[Center], best')
    BY <1>2, <1>4, <1>5
  <2> QED
    BY <1>1, <1>4, <1>5, <2>1, <2>2, <2>3 DEF BoundInv, GlobalsFit
<1>9. HolderInv'
  <2>1. /\ \A v \in Worker : result[v] # Nothing =>
             result[v] = score[v] /\ should_update(Default, score[v])
        /\ best # Default => \E v \in Worker : score[v] = best /\ result[v] = best
    BY DEF BestInv, HolderInv
  <2>2. should_update(Default, s)
    BY <1>1, <1>2 DEF Found, should_update
  <2>3. \A v \in Worker : result'[v] # Nothing =>
          result'[v] = score'[v] /\ should_update(Default, score'[v])
    BY <1>7, <2>1, <2>2
  <2>4. ASSUME best' # Default PROVE \E v \in Worker : score'[v] = best' /\ result'[v] = best'
    <3>1. CASE should_update(best, s)
      BY <1>1, <1>7, <3>1
    <3>2. CASE ~should_update(best, s)
      <4>1. best' = best
        BY <1>1, <3>2
      <4>2. PICK v \in Worker : score[v] = best /\ result[v] = best
        BY <2>1, <2>4, <4>1
      <4>3. v # w
        BY <1>1, <3>2, <4>2
      <4> QED
        BY <1>7, <4>1, <4>2, <4>3
    <3> QED
      BY <3>1, <3>2
  <2> QED
    BY <2>3, <2>4 DEF HolderInv
<1>10. SettledInv'
  BY <1>1, <1>6, <1>7 DEF BestInv, SettledInv
<1>11. SolutionInv'
  <2>1. DoneKeeps
    BY <1>1, <1>6, <1>7 DEF DoneKeeps, Settled, Idle
  <2>2. NoResultSent
    BY <1>1, NoResults DEF NoResultSent, SafetyInv, TypeOK, WorldTypes, World
  <2> QED
    BY <1>1, <2>1, <2>2, SolutionKeeps DEF BestInv
<1> QED
  BY <1>8, <1>9, <1>10, <1>11 DEF BestInv

\* consume_score_flag and maybe_broadcast_global_score: the center's score only gets better,
\* and is then no worse than the proposal.
LEMMA ReceiveProposalBest ==
    ASSUME SafetyInv, BestInv, NEW w \in Worker, ReceiveProposal(w)
    PROVE  BestInv'
<1> DEFINE old == global_score[Center]
           new == global_score'[Center]
           p == proposal[w]
<1>1. /\ p # Nothing /\ proposal' = [proposal EXCEPT ![w] = Nothing]
      /\ UNCHANGED <<pc, score, result, best, best_results, collecting, cpc, world>>
      /\ \/ /\ should_update(old, p) /\ global_score' = [global_score EXCEPT ![Center] = p]
            /\ score_updates' = PostAll(score_updates, p)
         \/ ~should_update(old, p) /\ UNCHANGED <<global_score, score_updates>>
  BY DEF ReceiveProposal, should_broadcast_global
<1>2. /\ \A r \in Rank : global_score[r] \in Int
      /\ \A v \in Worker : score[v] \in Int /\ v \in Rank /\ v # Center
      /\ \A v \in Worker : \A s \in Messages(score_updates, v) : s \in Int
      /\ Center \in Rank /\ old \in Int /\ p \in Scores /\ p \in Int
      /\ proposal \in [Worker -> Scores \cup {Nothing}]
      /\ global_score \in [Rank -> Scores \cup {Default}] /\ score_updates \in Net(Worker, Scores)
  <2>1. \A v \in Worker : v \in Rank /\ v # Center
    BY Ranks
  <2>2. p \in Scores
    BY <1>1 DEF SafetyInv, TypeOK, ScoreTypes
  <2> QED
    BY <2>1, <2>2, ScoreValues DEF SafetyInv, TypeOK, ScoreTypes, StreamTypes
<1>3. /\ best \in Scores \cup {Default} /\ NoBetter(old, best) /\ NoBetter(p, best)
      /\ \A v \in Worker : /\ NoBetter(score[v], best)
                           /\ proposal[v] # Nothing => NoBetter(proposal[v], best)
                           /\ NoBetter(global_score[v], old)
                           /\ \A s \in Messages(score_updates, v) : NoBetter(s, old)
  BY <1>1 DEF BestInv, BoundInv
<1>4. /\ \A v \in Worker : global_score'[v] = global_score[v]
      /\ \A v \in Worker : \A s \in Messages(score_updates', v) :
           s \in Messages(score_updates, v) \/ (new = p /\ s = p)
      /\ new = p \/ (new = old /\ NoBetter(p, old))
      /\ \A v \in Worker : proposal'[v] = IF v = w THEN Nothing ELSE proposal[v]
  <2>1. \A v \in Worker : proposal'[v] = IF v = w THEN Nothing ELSE proposal[v]
    BY <1>1, <1>2
  <2>2. CASE UNCHANGED <<global_score, score_updates>> /\ ~should_update(old, p)
    BY <2>1, <2>2 DEF NoBetter
  <2>3. CASE /\ should_update(old, p) /\ global_score' = [global_score EXCEPT ![Center] = p]
             /\ score_updates' = PostAll(score_updates, p)
    <3>1. new = p /\ \A v \in Worker : global_score'[v] = global_score[v]
      BY <1>2, <2>3
    <3>2. \A v \in Worker : \A s : s \in Messages(PostAll(score_updates, p), v) <=>
            s \in Messages(score_updates, v) \/ s = p
      BY <1>2, PostAllIn
    <3> QED
      BY <2>1, <2>3, <3>1, <3>2
  <2> QED
    BY <1>1, <2>2, <2>3
<1>5. new = p => should_update(old, p) \/ new = old
  BY <1>1
<1> HIDE DEF old, new, p
<1>6. new \in Int /\ NoBetter(old, new) /\ NoBetter(p, new) /\ NoBetter(new, best)
  BY <1>2, <1>3, <1>4, <1>5, Order
<1>7. \A x \in Int : NoBetter(x, old) => NoBetter(x, new)
  BY <1>2, <1>6, Order
<1>8. BoundInv'
  <2>1. \A v \in Worker : NoBetter(global_score'[v], new)
    BY <1>2, <1>3, <1>4, <1>7
  <2>2. \A v \in Worker : \A s \in Messages(score_updates', v) : NoBetter(s, new)
    BY <1>2, <1>3, <1>4, <1>6, <1>7
  <2>3. \A v \in Worker : proposal'[v] # Nothing => NoBetter(proposal'[v], best)
    BY <1>3, <1>4
  <2> QED
    BY <1>1, <1>3, <1>6, <2>1, <2>2, <2>3 DEF BoundInv, new
<1>9. HolderInv'
  BY <1>1 DEF BestInv, HolderInv
<1>10. SettledInv'
  <2> SUFFICES ASSUME NEW v \in Worker, pc[v] \in Settled
               PROVE  \/ NoBetter(score[v], new)
                      \/ pc[v] = "finalpropose" /\ proposal'[v] = score[v]
    BY <1>1 DEF SettledInv, new
  <2>1. NoBetter(score[v], old) \/ (pc[v] = "finalpropose" /\ proposal[v] = score[v])
    BY DEF BestInv, SettledInv, old
  <2>2. v = w /\ proposal[v] = score[v] => score[v] = p
    BY DEF p
  <2> QED
    BY <1>2, <1>4, <1>6, <1>7, <2>1, <2>2
<1>11. SolutionInv'
  <2>1. DoneKeeps
    BY <1>1 DEF DoneKeeps
  <2>2. NoResultSent
    BY <1>1, NoResults DEF NoResultSent, SafetyInv, TypeOK, WorldTypes, World
  <2> QED
    BY <1>1, <2>1, <2>2, SolutionKeeps DEF BestInv
<1> QED
  BY <1>8, <1>9, <1>10, <1>11 DEF BestInv

\* Nothing has been found when a run starts.
LEMMA BestInit == Init => BestInv
<1> SUFFICES ASSUME Init PROVE BestInv
  OBVIOUS
<1>1. /\ pc = [w \in Worker |-> "probe"] /\ score = [w \in Worker |-> Default]
      /\ result = [w \in Worker |-> Nothing] /\ global_score = [r \in Rank |-> Default]
      /\ cpc = "start" /\ collecting = 1 /\ best_results = [w \in Worker |-> EmptyResult]
      /\ world = [p \in Rank \X Rank |-> <<>>] /\ score_updates = [w \in Worker |-> <<>>]
      /\ proposal = [w \in Worker |-> Nothing] /\ best = Default
  BY DEF Init
<1>2. NoBetter(Default, Default)
  BY ScoresAssumption DEF NoBetter, should_update
<1>3. \A w \in Worker : w \in Rank /\ ~(w < 1) /\ <<w, Center>> \in Rank \X Rank
  BY Ranks, WorldSizeAssumption DEF Worker
<1>4. \A w \in Worker : Messages(score_updates, w) = {} /\ Messages(world, <<w, Center>>) = {}
  BY <1>1, <1>3 DEF Messages
<1>5. BoundInv
  BY <1>1, <1>2, <1>3, <1>4, Ranks DEF BoundInv
<1>6. HolderInv
  BY <1>1 DEF HolderInv
<1>7. SettledInv
  BY <1>1, <1>2, <1>3, Ranks DEF SettledInv
<1>8. SolutionInv
  BY <1>1, <1>3, <1>4 DEF SolutionInv, EmptyResult
<1> QED
  BY <1>5, <1>6, <1>7, <1>8 DEF BestInv

\* Every step of every rank keeps it.
LEMMA BestNext == SafetyInv /\ BestInv /\ [Next]_vars => BestInv'
<1> SUFFICES ASSUME SafetyInv, BestInv, [Next]_vars PROVE BestInv'
  OBVIOUS
<1>1. ASSUME NEW w \in Worker, MainThread(w) PROVE BestInv'
  BY <1>1, MainSilent, SilentKeeps, ReceiveNoticeBest, ReceiveTerminationBest, PollCenterBest,
     FinalUpdateBest, SendSolutionBest DEF MainThread
<1>2. CASE CenterThread
  BY <1>2, CenterSilent, SilentKeeps, ReceiveProposalBest, ReceiveSolutionBest DEF CenterThread
<1>3. CASE UNCHANGED vars
  BY <1>3, StutterSilent, SilentKeeps
<1>4. ASSUME NEW w \in Worker, Push(w) \/ PoolDone(w) PROVE BestInv'
  BY <1>4, PoolSilent, SilentKeeps
<1> QED
  BY <1>1, <1>2, <1>3, <1>4, FindResultBest DEF Next, Finished

-----------------------------------------------------------------------------
(* The invariant, and what follows from it *)

\* The invariant holds when run() is entered.
LEMMA InitInv == Init => SafetyInv
<1> SUFFICES ASSUME Init PROVE SafetyInv
  OBVIOUS
<1>1. /\ world = [p \in Rank \X Rank |-> <<>>]
      /\ score_updates = [w \in Worker |-> <<>>] /\ next_messages = [w \in Worker |-> <<>>]
  BY DEF Init
<1>2. /\ world \in World /\ score_updates \in Net(Worker, Scores)
      /\ next_messages \in Net(Worker, Worker)
      /\ \A c \in Rank \X Rank : Messages(world, c) = {}
      /\ \A w \in Worker : Messages(score_updates, w) = {}
  BY <1>1 DEF World, Net, Messages
<1>3. \A s, d \in Rank : Messages(world, <<s, d>>) = {}
  BY <1>2
<1>4. TypeOK
  <2>1. DetectorTypes
    BY DEF Init, DetectorTypes
  <2>2. WorkerTypes
    BY DEF Init, WorkerTypes, MainPC
  <2>3. TargetTypes
    BY DEF Init, TargetTypes
  <2>4. ScoreTypes
    BY DEF Init, ScoreTypes
  <2>5. CenterTypes
    <3>1. /\ cpc = "start" /\ collecting = 1 /\ children = [w \in Worker |-> <<>>]
          /\ process_state = [w \in Worker |-> "AVAILABLE"]
      BY DEF Init
    <3> QED
      BY <3>1, Ranks DEF CenterTypes, CenterPC
  <2>6. StreamTypes
    BY <1>2 DEF Init, StreamTypes
  <2>7. TaskTypes
    BY MaxTasksAssumption DEF Init, TaskTypes
  <2> QED
    BY <1>2, <2>1, <2>2, <2>3, <2>4, <2>5, <2>6, <2>7 DEF TypeOK, WorldTypes, World
<1>5. WorkerInv
  BY DEF Init, WorkerInv
<1>6. TargetInv
  BY Ranks DEF Init, TargetInv
<1>7. \A r \in Rank : Owed(world, parent, r) = 0
  <2> SUFFICES ASSUME NEW r \in Rank PROVE Owed(world, parent, r) = 0
    OBVIOUS
  <2> DEFINE A == {r} \X Rank
             B == Rank \X {r}
  <2>1. A \in SUBSET (Rank \X Rank) /\ B \in SUBSET (Rank \X Rank)
    OBVIOUS
  <2> HIDE DEF A, B
  <2>2. Count(world, A, "TASK") = 0 /\ Count(world, B, "TASK_RECEIVED") = 0
    BY <1>2, <2>1, Ranks, CountNat DEF World
  <2>3. {w \in Worker : parent[w] = r} = {}
    BY Ranks DEF Init
  <2>4. Cardinality({w \in Worker : parent[w] = r}) = 0
    BY <2>3, FS_EmptySet
  <2> QED
    BY <2>2, <2>4 DEF Owed, A, B
<1>8. DetectorInv
  <2>1. /\ parent[Center] = None /\ \A r \in Rank : deficit[r] = 0
        /\ \A w \in Worker : parent[w] = None /\ pc[w] = "probe" /\ deficit[w] = 0
    BY Ranks DEF Init
  <2>2. Acyclic(parent)
    BY <2>1 DEF Acyclic, Engaged
  <2> QED
    BY <1>7, <2>1, <2>2 DEF DetectorInv, Idle
<1>9. PhaseInv
  BY <1>1, Ranks DEF Init, PhaseInv, Over, Announced
<1>10. RouteInv
  BY <1>3 DEF RouteInv
<1>11. StreamInv
  <2>1. \A w \in Worker : Len(score_updates[w]) = 0 /\ Len(next_messages[w]) = 0
    BY <1>1
  <2> QED
    BY <1>1, <2>1 DEF Init, StreamInv
<1>12. TaskInv
  <2>1. \A t : ~Crosses(t) /\ \A w \in Worker : ~KeptBy(t, w)
    BY <1>3 DEF Init, Crosses, KeptBy
  <2>2. issued = 0
    BY DEF Init
  <2> QED
    BY <2>1, <2>2 DEF TaskInv
<1>13. TreeInv
  <2>1. \A p \in Worker : children[p] = <<>> /\ DOMAIN children[p] = {}
    BY DEF Init
  <2>2. \A v \in Worker : ~is_assigned(children, v) /\ process_state[v] # "ASSIGNED"
    BY <2>1, AssignedDef DEF Init
  <2> QED
    BY <2>1, <2>2 DEF TreeInv, Distinct
<1>14. ScoreInv
  BY <1>2 DEF Init, ScoreInv, Found
<1> QED
  BY <1>4, <1>5, <1>6, <1>8, <1>9, <1>10, <1>11, <1>12, <1>13, <1>14 DEF SafetyInv

\* A step that changes nothing keeps the invariant.
LEMMA Stutter == SafetyInv /\ UNCHANGED vars => SafetyInv'
<1> SUFFICES ASSUME SafetyInv, UNCHANGED vars PROVE SafetyInv'
  OBVIOUS
<1>1. SameSide
  BY DEF SameSide, vars
<1> QED
  BY <1>1, DetectorTypesFrame, WorkerTypesFrame, TargetTypesFrame, ScoreTypesFrame,
     CenterTypesFrame, StreamTypesFrame, WorldTypesFrame, TaskTypesFrame, WorkerFrame,
     TargetFrame, DetectorFrame, PhaseFrame, RouteFrame, StreamFrame, TaskFrame, TreeFrame,
     ScoreFrame DEF SafetyInv, TypeOK, vars

\* Every step of every rank keeps the invariant.
LEMMA NextInv == SafetyInv /\ [Next]_vars => SafetyInv'
<1> SUFFICES ASSUME SafetyInv, [Next]_vars PROVE SafetyInv'
  OBVIOUS
<1>1. ASSUME NEW w \in Worker, MainThread(w) PROVE SafetyInv'
  <2>1. CASE FirstPop(w)
    BY <2>1, PopNext DEF FirstPop
  <2>2. CASE CheckQueue(w)
    BY <2>2, PopNext DEF CheckQueue
  <2> QED
    BY <1>1, <2>1, <2>2, ReceiveNoticeNext, ReceiveTaskNext, ReceiveAckNext,
       ReceiveTerminationNext, SendTaskNext, TaskSentNext, PollCenterNext, ProposalMatchedNext,
       CheckDoneNext, FinalUpdateNext, LeaveFunnelNext, SendSolutionNext DEF MainThread
<1>2. CASE CenterThread
  BY <1>2, StartNext, ProcessRunningNext, ProcessAvailableNext, ReceiveProposalNext,
     CenterReceiveAckNext, NotifyTerminationNext, BarrierNext, ReceiveSolutionNext
     DEF CenterThread
<1>3. CASE UNCHANGED vars
  BY <1>3, Stutter
<1> QED
  BY <1>1, <1>2, <1>3, PushNext, FindResultNext, PoolDoneNext DEF Next, Finished

\* The ranks always fit each other, whatever the scores.
LEMMA SafetyInvariance == Spec => []SafetyInv
<1>1. Init => SafetyInv
  BY InitInv
<1>2. SafetyInv /\ [Next]_vars => SafetyInv'
  BY NextInv
<1> QED
  BY <1>1, <1>2, PTL DEF Spec

\* The inductive invariant holds in every state of the scheduler.
THEOREM Invariance == Spec => []IInv
<1>1. Init => IInv
  BY InitInv, BestInit DEF IInv
<1>2. IInv /\ [Next]_vars => IInv'
  BY NextInv, BestNext DEF IInv
<1> QED
  BY <1>1, <1>2, PTL DEF Spec

\* Every variable of the semi-centralized scheduler keeps its type: in particular no deficit
\* and no counter of received messages becomes negative.
THEOREM TypeCorrect == Spec => []TypeOK
<1>1. SafetyInv => TypeOK
  BY DEF SafetyInv
<1> QED
  BY <1>1, SafetyInvariance, PTL

\* No rank of the semi-centralized scheduler throws: no acknowledgement is unexpected, no
\* termination meets work in progress or a message too many, no task is sent to oneself, no
\* queue gets a second bundle, no rank gets a second parent in the tree, and receive_solution
\* meets no unknown message.
THEOREM NeverThrows == Spec => []NoThrow
<1>1. SafetyInv => NoThrow
  BY DEF SafetyInv, NoThrow, WorkerInv, PhaseInv
<1> QED
  BY <1>1, SafetyInvariance, PTL

\* When the center announces termination every task that was created has been started, none is
\* left in a queue or on its way, and no pool is working: the exit condition of run() is right
\* although workers send each other tasks behind the center's back.
THEOREM NoTaskLost == Spec => []NothingLost
<1>1. ASSUME SafetyInv PROVE NothingLost
  <2> SUFFICES ASSUME cpc \in Over
               PROVE  /\ executed = 1 .. issued
                      /\ \A w \in Worker : ~busy[w] /\ queue[w] = <<>> /\ bundle[w] = 0
    BY DEF NothingLost, Over
  <2>1. TypeOK /\ WorkerInv /\ TaskInv /\ deficit[Center] = 0
    BY <1>1 DEF SafetyInv, PhaseInv
  <2>2. /\ \A w \in Worker : pc[w] \in Idle
        /\ \A s, d \in Rank : \A m \in Messages(world, <<s, d>>) : m.tag # "TASK"
    BY <1>1, <2>1, Quiet
  <2>3. \A w \in Worker : ~busy[w] /\ queue[w] = <<>> /\ bundle[w] = 0
    BY <2>1, <2>2 DEF WorkerInv, Idle
  <2>4. \A t : ~Crosses(t) /\ \A w \in Worker : ~KeptBy(t, w)
    BY <2>2, <2>3, MessageTypes, ZenonT(60) DEF Crosses, KeptBy, Idle
  <2>5. executed = 1 .. issued
    <3>1. 1 .. issued \subseteq executed
      BY <2>1, <2>4 DEF TaskInv
    <3>2. executed \subseteq 1 .. issued
      BY <2>1 DEF TypeOK, TaskTypes
    <3> QED
      BY <3>1, <3>2
  <2> QED
    BY <2>3, <2>5
<1> QED
  BY <1>1, SafetyInvariance, PTL

\* The center's two records of an idle rank, m_process_state and m_process_tree, agree: a rank
\* is ASSIGNED exactly when it is in the list of one parent, and in that list once.
THEOREM AssignmentAgreed == Spec => []AssignmentConsistent
<1>1. ASSUME SafetyInv PROVE AssignmentConsistent
  <2> SUFFICES ASSUME NEW v \in Worker
               PROVE  Cardinality(Places(children, v)) =
                        IF process_state[v] = "ASSIGNED" THEN 1 ELSE 0
    BY DEF AssignmentConsistent
  <2>1. /\ Distinct(children)
        /\ process_state[v] = "ASSIGNED" <=> Places(children, v) # {}
    BY <1>1 DEF SafetyInv, TreeInv, is_assigned
  <2>2. ASSUME NEW x \in Places(children, v)
        PROVE  /\ x = <<x[1], x[2]>> /\ x[1] \in Worker /\ x[2] \in DOMAIN children[x[1]]
               /\ children[x[1]][x[2]] = v
    BY <2>2 DEF Places
  <2>3. \A x, y \in Places(children, v) : x = y
    BY <2>1, <2>2 DEF Distinct
  <2>4. CASE Places(children, v) = {}
    BY <2>1, <2>4, FS_EmptySet
  <2>5. CASE Places(children, v) # {}
    <3>1. PICK x : Places(children, v) = {x}
      BY <2>3, <2>5
    <3>2. Cardinality(Places(children, v)) = 1
      BY <3>1, FS_Singleton
    <3> QED
      BY <3>2, <2>1, <2>5
  <2> QED
    BY <2>4, <2>5
<1> QED
  BY <1>1, SafetyInvariance, PTL

\* drain_center_messages leaves no score update and no NEXT_PROCESS message unread.
THEOREM AllMessagesRead == Spec => []CenterMessagesRead
<1>1. ASSUME SafetyInv PROVE CenterMessagesRead
  <2> SUFFICES ASSUME cpc \in {"collect", "done"}, NEW w \in Worker
               PROVE  /\ score_updates[w] = <<>> /\ next_messages[w] = <<>>
                      /\ proposal[w] = Nothing
                      /\ score_updates_received[w] = score_updates_sent
                      /\ next_processes_received[w] = next_processes_sent[w]
    BY DEF CenterMessagesRead
  <2>1. pc[w] \in {"result", "done"} /\ StreamInv /\ TypeOK
    BY <1>1 DEF SafetyInv, PhaseInv
  <2>2. score_updates[w] = <<>> /\ next_messages[w] = <<>>
    BY <2>1 DEF StreamInv
  <2>3. /\ score_updates_sent = score_updates_received[w] + 0
        /\ next_processes_sent[w] = next_processes_received[w] + 0
    BY <2>1, <2>2 DEF StreamInv
  <2>4. score_updates_received[w] \in Nat /\ next_processes_received[w] \in Nat
    BY <2>1 DEF TypeOK, StreamTypes
  <2>5. proposal[w] = Nothing
    BY <1>1, <2>1 DEF SafetyInv, WorkerInv
  <2> QED
    BY <2>2, <2>3, <2>4, <2>5
<1> QED
  BY <1>1, SafetyInvariance, PTL

\* What fetch_solution takes from what was collected, once all ranks are done.
LEMMA Fetched ==
    ASSUME IInv, AllDone, -1 \notin Scores
    PROVE  fetch_solution = IF best = Default THEN Nothing ELSE best
<1> DEFINE hits == {w \in Worker : best_results[w].score = global_score[Center]}
<1>1. /\ SafetyInv /\ BoundInv /\ HolderInv /\ SettledInv /\ SolutionInv
      /\ \A w \in Worker : pc[w] = "done"
      /\ cpc = "done"
  BY DEF IInv, BestInv, AllDone
<1>2. hits # {} => Least(hits) \in hits
  <2>1. hits \in SUBSET Nat
    BY Ranks
  <2> HIDE DEF hits
  <2> QED
    BY <2>1, LeastIn
<1>3. fetch_solution = IF hits = {} THEN Nothing ELSE best_results[Least(hits)].packet
  BY DEF fetch_solution
<1>4. \A w \in Worker : /\ best_results[w] = EmptyResult \/ (result[w] # Nothing /\ best_results[w] = Kept(w))
                        /\ result[w] # Nothing => best_results[w] = Kept(w)
  BY <1>1 DEF SolutionInv
<1>5. \A w \in Worker : result[w] # Nothing => result[w] = score[w] /\ should_update(Default, score[w])
  BY <1>1 DEF HolderInv
<1>6. CASE best = Default
  <2>1. \A w \in Worker : result[w] = Nothing
    <3> SUFFICES ASSUME NEW w \in Worker, result[w] # Nothing PROVE FALSE
      OBVIOUS
    <3>1. should_update(Default, score[w]) /\ NoBetter(score[w], best)
      BY <1>1, <1>5 DEF BoundInv
    <3> QED
      BY <1>6, <3>1 DEF NoBetter
  <2>2. \A w \in Worker : best_results[w].packet = Nothing
    BY <1>4, <2>1 DEF EmptyResult
  <2> HIDE DEF hits
  <2>3. Least(hits) \in Worker \/ hits = {}
    BY <1>2 DEF hits
  <2> QED
    BY <1>3, <1>6, <2>2, <2>3
<1>7. CASE best # Default
  <2>1. PICK h \in Worker : score[h] = best /\ result[h] = best
    BY <1>1, <1>7 DEF HolderInv
  <2>2. global_score[Center] = best /\ best \in Scores
    <3>1. best \in Scores /\ best \in Int /\ global_score[Center] \in Int
      BY <1>1, <1>7, ScoreValues DEF BoundInv
    <3>2. NoBetter(best, global_score[Center])
      BY <1>1, <2>1 DEF SettledInv, Settled, Idle
    <3>3. NoBetter(global_score[Center], best)
      BY <1>1 DEF BoundInv
    <3> QED
      BY <3>1, <3>2, <3>3, Order
  <2>3. best # Nothing /\ best # -1
    BY <2>2, NothingAssumption
  <2>4. h \in hits
    <3>1. best_results[h] = Kept(h)
      BY <1>4, <2>1, <2>3
    <3>2. Kept(h).score = global_score[Center]
      BY <2>1, <2>2 DEF Kept
    <3> QED
      BY <3>1, <3>2
  <2>5. ASSUME NEW w \in hits PROVE best_results[w].packet = best
    <3>1. best_results[w] # EmptyResult
      BY <2>2, <2>3 DEF EmptyResult
    <3>2. result[w] # Nothing /\ best_results[w] = Kept(w) /\ score[w] = best
      BY <1>4, <2>2, <3>1 DEF Kept
    <3> QED
      BY <1>5, <3>2 DEF Kept
  <2> HIDE DEF hits
  <2> QED
    BY <1>2, <1>3, <1>7, <2>4, <2>5
<1> QED
  BY <1>6, <1>7

\* get_result returns the best result any task of any rank found, if no result has the
\* score -1 that fills m_best_results (MCSemiMinusOne).
THEOREM BestReturned ==
    ASSUME -1 \notin Scores
    PROVE  Spec => []BestIsReturned
<1>1. IInv => BestIsReturned
  BY Fetched DEF BestIsReturned
<1> QED
  BY <1>1, Invariance, PTL
=============================================================================
