---------------------------- MODULE BindingsProofs ----------------------------
(***************************************************************************)
(* Proofs about the Java binding, for any number of nodes, tasks, calls    *)
(* and offers, and for scores of any width.                                *)
(*                                                                         *)
(* IInv (Bindings) is inductive.  It has three parts:                      *)
(*   - nodes.  Intact is about one node.  Every step changes one object    *)
(*     and then destroys the cores that nobody owns (Settled); what an     *)
(*     owner outside of the cores holds is never among these               *)
(*     (OwnedSurvives), whatever the links between cores are.  So it is    *)
(*     enough to look at the object that a step changes;                   *)
(*   - factories at work.  CreationAt relates a new node to its parent.  A  *)
(*     step leaves origins and variables steady (Calm), and the only       *)
(*     callback that returns is in no factory (CreationKept);              *)
(*   - results.  Scores cross the boundary unchanged (RawSame), replacing  *)
(*     one by a better one keeps what was not better (BetterOrder), and    *)
(*     one task at a time is between the native update and the store       *)
(*     (OneInside).                                                        *)
(***************************************************************************)
EXTENDS Bindings, FiniteSetTheorems, TLAPS

-----------------------------------------------------------------------------
(* Nodes *)

\* The object o is in order as what exists of the node n.
ObjectOk(n, o) ==
    /\ o \in Object
    /\ Intact(n, o)
    /\ runtime \notin {"ready", "down"} => o.call = "none" /\ o.task = "none"

\* Every node is in order in nd.
NodesOk(nd) == nd \in [Nodes -> Object] /\ \A n \in Nodes : ObjectOk(n, nd[n])

\* No node is numbered 0.
LEMMA NodeNumbers == None \notin Nodes /\ Nodes \subseteq Int
<1> DEFINE c == Cardinality(Nodes)
<1>1. Nodes = 1 .. c /\ c \in Nat
  BY NodesAssumption, FS_CardinalityType
<1> HIDE DEF c
<1> QED
  BY <1>1 DEF None

\* What an object holds.
LEMMA ObjectFields ==
    ASSUME NEW o \in Object
    PROVE  /\ o.children \in SUBSET Nodes /\ o.parent \in Nodes \cup {None} /\ o.ref \in BOOLEAN
           /\ o.call \in Call /\ o.state \in node_state /\ o.branch \in SUBSET BOOLEAN
           /\ o.calls \in Nat /\ o.creator \in Nodes \cup {Main, Serial} /\ o.handle \in BOOLEAN
BY DEF Object

\* A new object in the place of one.
LEMMA PutOk ==
    ASSUME NEW nd, NodesOk(nd), NEW n \in Nodes, NEW o, ObjectOk(n, o)
    PROVE  NodesOk([nd EXCEPT ![n] = o])
<1>1. nd \in [Nodes -> Object] /\ o \in Object
  BY DEF NodesOk, ObjectOk
<1>2. ASSUME NEW m \in Nodes PROVE ObjectOk(m, [nd EXCEPT ![n] = o][m])
  <2>1. CASE m = n
    <3>1. [nd EXCEPT ![n] = o][m] = o
      BY <2>1, <1>1
    <3> QED
      BY <3>1, <2>1
  <2>2. CASE m # n
    <3>1. [nd EXCEPT ![n] = o][m] = nd[m]
      BY <2>2, <1>1
    <3> QED
      BY <3>1 DEF NodesOk
  <2> QED
    BY <2>1, <2>2
<1>3. [nd EXCEPT ![n] = o] \in [Nodes -> Object]
  BY <1>1
<1> QED
  BY <1>2, <1>3 DEF NodesOk

\* An owned core survives.
LEMMA OwnedSurvives ==
    ASSUME NEW nd, NEW n \in Nodes, nd[n].core = "alive", Owned(nd[n])
    PROVE  n \in Surviving(nd)
<1> DEFINE alive == {m \in Nodes : nd[m].core = "alive"}
           owned(m, S) == \/ Owned(nd[m])
                          \/ \E p \in S : m \in nd[p].children \/ nd[p].parent = m
<1>1. {n} \in SUBSET alive
  OBVIOUS
<1>2. \A m \in {n} : owned(m, {n})
  OBVIOUS
<1>3. {n} \in {S \in SUBSET alive : \A m \in S : owned(m, S)}
  BY <1>1, <1>2, Zenon
<1>4. Surviving(nd) = UNION {S \in SUBSET alive : \A m \in S : owned(m, S)}
  BY Zenon DEF Surviving
<1> QED
  BY <1>3, <1>4, Zenon

\* What is destroyed was not in use.
LEMMA DestroyedOk ==
    ASSUME NEW n \in Nodes, NEW o, ObjectOk(n, o), ~Owned(o)
    PROVE  ObjectOk(n, Destroyed(o))
<1>1. o \in Object
  BY DEF ObjectOk
<1> DEFINE d == Destroyed(o)
<1>2. /\ d.creator = o.creator /\ d.java = o.java /\ d.handle = o.handle /\ d.wrapper = o.wrapper /\ d.call = o.call
      /\ d.task = o.task /\ d.state = o.state /\ d.core = "destroyed"
  BY <1>1 DEF Destroyed, java_user_data_release, Object
<1>3. d \in Object
  <2> DEFINE e == [o EXCEPT !.core = "destroyed", !.parent = None, !.children = {}]
  <2>1. e \in Object
    BY <1>1 DEF Object
  <2>2. d = java_user_data_release(e)
    BY DEF Destroyed
  <2> HIDE DEF d, e
  <2> QED
    BY <2>1, <2>2 DEF java_user_data_release, Object
<1> HIDE DEF d
<1>4. Intact(n, d)
  <2>1. Intact(n, o)
    BY DEF ObjectOk
  <2>2. o.wrapper # "alive" /\ o.task = "none"
    BY DEF Owned
  <2>3. ~o.handle /\ o.call \in {"none", "result", "creating"} /\ (o.call = "result" => o.java # "held")
    BY <2>1, <2>2 DEF Intact, Owned
  <2> QED
    BY <1>2, <2>1, <2>2, <2>3 DEF Intact, Owned
<1>5. runtime \notin {"ready", "down"} => d.call = "none" /\ d.task = "none"
  BY <1>2 DEF ObjectOk
<1> QED
  BY <1>3, <1>4, <1>5 DEF ObjectOk, d

\* Destroying the cores that nobody owns.
LEMMA SettledOk ==
    ASSUME NEW nd, NodesOk(nd)
    PROVE  NodesOk(Settled(nd))
<1> DEFINE left == Surviving(nd)
<1>1. ASSUME NEW n \in Nodes PROVE ObjectOk(n, Settled(nd)[n])
  <2>1. ObjectOk(n, nd[n])
    BY DEF NodesOk
  <2>2. CASE nd[n].core = "alive" /\ n \notin left
    <3>1. ~Owned(nd[n])
      BY <2>2, OwnedSurvives
    <3>2. Settled(nd)[n] = Destroyed(nd[n])
      BY <2>2 DEF Settled
    <3> QED
      BY <2>1, <3>1, <3>2, DestroyedOk
  <2>3. CASE ~(nd[n].core = "alive" /\ n \notin left)
    <3>1. Settled(nd)[n] = nd[n]
      BY <2>3 DEF Settled
    <3> QED
      BY <2>1, <3>1
  <2> QED
    BY <2>2, <2>3
<1>2. Settled(nd) \in [Nodes -> Object]
  <2>1. \A n \in Nodes : Settled(nd)[n] \in Object
    BY <1>1 DEF ObjectOk
  <2>2. Settled(nd) = [n \in Nodes |-> Settled(nd)[n]]
    BY DEF Settled
  <2> HIDE DEF Settled
  <2> QED
    BY <2>1, <2>2
<1> QED
  BY <1>1, <1>2 DEF NodesOk

\* The links of an object are nobody's business here.
LEMMA LinksOk ==
    ASSUME NEW n \in Nodes, NEW o, ObjectOk(n, o), NEW p \in Nodes \cup {None}, NEW c \in SUBSET Nodes
    PROVE  ObjectOk(n, [o EXCEPT !.children = c, !.parent = p])
<1>1. o \in Object
  BY DEF ObjectOk
<1> DEFINE d == [o EXCEPT !.children = c, !.parent = p]
<1>2. d \in Object
  BY <1>1 DEF Object
<1>3. /\ d.creator = o.creator /\ d.java = o.java /\ d.handle = o.handle /\ d.wrapper = o.wrapper /\ d.call = o.call
      /\ d.task = o.task /\ d.state = o.state /\ d.core = o.core /\ d.data = o.data /\ d.ref = o.ref
  BY <1>1 DEF Object
<1> HIDE DEF d
<1>4. Intact(n, o) => Intact(n, d)
  BY <1>3 DEF Intact, Owned
<1> QED
  BY <1>2, <1>3, <1>4 DEF ObjectOk, d

\* Pruning a node.
LEMMA PrunedOk ==
    ASSUME NEW nd, NodesOk(nd), NEW n \in Nodes
    PROVE  NodesOk(Pruned(nd, n))
<1>1. nd \in [Nodes -> Object]
  BY DEF NodesOk
<1>2. ASSUME NEW m \in Nodes PROVE ObjectOk(m, Pruned(nd, n)[m])
  <2> DEFINE c == IF m = n THEN {} ELSE IF m = nd[n].parent THEN nd[m].children \ {n} ELSE nd[m].children
             p == IF m = n THEN None ELSE nd[m].parent
  <2>1. nd[m] \in Object /\ ObjectOk(m, nd[m])
    BY <1>1 DEF NodesOk
  <2>2. c \in SUBSET Nodes /\ p \in Nodes \cup {None}
    BY <2>1, ObjectFields
  <2>3. Pruned(nd, n)[m] = [nd[m] EXCEPT !.children = c, !.parent = p]
    BY DEF Pruned
  <2> HIDE DEF c, p
  <2>4. ObjectOk(m, [nd[m] EXCEPT !.children = c, !.parent = p])
    BY <2>1, <2>2, LinksOk
  <2> QED
    BY <2>3, <2>4
<1>3. Pruned(nd, n) \in [Nodes -> Object]
  <2>1. \A m \in Nodes : Pruned(nd, n)[m] \in Object
    BY <1>2 DEF ObjectOk
  <2>2. Pruned(nd, n) = [m \in Nodes |-> Pruned(nd, n)[m]]
    BY DEF Pruned
  <2> HIDE DEF Pruned
  <2> QED
    BY <2>1, <2>2
<1> QED
  BY <1>2, <1>3 DEF NodesOk

-----------------------------------------------------------------------------
(* Native calls *)

\* A native call goes on: its node keeps its wrapper, and so its core.
LEMMA CallMoves ==
    ASSUME NEW n \in Nodes, NEW o, ObjectOk(n, o), o.call # "none", NEW place \in Call,
           place \notin {"result", "creating"}, place # "none" => o.call \notin {"result", "creating"},
           place = "running" => o.ref /\ o.state = "UNUSED"
    PROVE  ObjectOk(n, [o EXCEPT !.call = place])
<1>1. o \in Object
  BY DEF ObjectOk
<1> DEFINE d == [o EXCEPT !.call = place]
<1>2. d \in Object
  BY <1>1 DEF Object
<1>3. /\ d.creator = o.creator /\ d.java = o.java /\ d.handle = o.handle /\ d.wrapper = o.wrapper /\ d.call = place
      /\ d.task = o.task /\ d.state = o.state /\ d.core = o.core /\ d.data = o.data /\ d.ref = o.ref
  BY <1>1 DEF Object
<1> HIDE DEF d
<1>4. Intact(n, o) => Intact(n, d)
  BY <1>3 DEF Intact, Owned
<1>5. runtime \in {"ready", "down"}
  BY DEF ObjectOk
<1> QED
  BY <1>2, <1>4, <1>5 DEF ObjectOk, d

\* The step of a call whose object is o until the call goes on.
LEMMA GoesOn ==
    ASSUME NEW nd, NodesOk(nd), NEW n \in Nodes, NEW o \in Object, NEW place,
           ObjectOk(n, [o EXCEPT !.call = place]), GoOn([nd EXCEPT ![n] = o], n, place)
    PROVE  NodesOk(node')
<1>1. nd \in [Nodes -> Object]
  BY DEF NodesOk
<1> DEFINE d == [o EXCEPT !.call = place]
<1>2. [[nd EXCEPT ![n] = o] EXCEPT ![n].call = place] = [nd EXCEPT ![n] = d]
  BY <1>1
<1>3. node' = Settled([nd EXCEPT ![n] = d])
  BY <1>2 DEF GoOn
<1>4. NodesOk([nd EXCEPT ![n] = d])
  <2>1. ObjectOk(n, d)
    OBVIOUS
  <2> HIDE DEF d
  <2> QED
    BY <2>1, PutOk
<1> HIDE DEF d
<1> QED
  BY <1>3, <1>4, SettledOk

\* The step of a call that leaves other objects in order.
LEMMA GoOnOk ==
    ASSUME NEW nd, NodesOk(nd), NEW n \in Nodes, NEW place \in Call, nd[n].call # "none",
           place \notin {"result", "creating"}, place # "none" => nd[n].call \notin {"result", "creating"},
           place = "running" => nd[n].ref /\ nd[n].state = "UNUSED",
           GoOn(nd, n, place)
    PROVE  NodesOk(node')
<1>1. nd \in [Nodes -> Object] /\ nd[n] \in Object /\ ObjectOk(n, nd[n])
  BY DEF NodesOk
<1>2. ObjectOk(n, [nd[n] EXCEPT !.call = place])
  BY <1>1, CallMoves
<1>3. nd = [nd EXCEPT ![n] = nd[n]]
  BY <1>1
<1>4. GoOn([nd EXCEPT ![n] = nd[n]], n, place)
  BY <1>3
<1> QED
  BY <1>1, <1>2, <1>4, GoesOn

\* What should_branch leaves is an object.
LEMMA GatedObject ==
    ASSUME NEW o \in Object, NEW worthy \in BOOLEAN
    PROVE  Gated(o, worthy) \in Object
<1>1. o \in Object
  OBVIOUS
<1> DEFINE d == Gated(o, worthy)
<1>2. d \in Object
  <2> DEFINE r == o.ref /\ ~(o.branch = BOOLEAN /\ ~worthy)
             f == IF o.branch = BOOLEAN /\ ~worthy THEN "skipped" ELSE o.fate
             b == {worthy}
  <2>1. r \in BOOLEAN
    BY Zenon
  <2>2. f \in {"none", "ran", "failed", "skipped"}
    BY <1>1 DEF Object
  <2>3. b \in SUBSET BOOLEAN
    OBVIOUS
  <2>4. d = [o EXCEPT !.branch = b, !.ref = r, !.fate = f]
    BY <1>1 DEF Gated, Object
  <2> HIDE DEF d, r, f, b
  <2> DEFINE e == [o EXCEPT !.branch = b]
             g == [e EXCEPT !.ref = r]
  <2>5. e \in Object
    BY <1>1, <2>3 DEF Object
  <2>6. g \in Object
    <3> HIDE DEF e
    <3> QED
      BY <2>1, <2>5 DEF Object
  <2>7. d = [g EXCEPT !.fate = f]
    BY <2>4
  <2> HIDE DEF g
  <2> QED
    BY <2>2, <2>6, <2>7 DEF Object
<1> QED
  BY <1>2

\* should_branch takes the reference of a node that will not be run.
LEMMA GatedOk ==
    ASSUME NEW n \in Nodes, NEW o, ObjectOk(n, o), NEW worthy \in BOOLEAN, o.state = "UNUSED",
           o.call # "running"
    PROVE  /\ ObjectOk(n, Gated(o, worthy)) /\ Gated(o, worthy) \in Object
           /\ Gated(o, worthy).call = o.call /\ Gated(o, worthy).state = o.state
           /\ Gated(o, worthy).task = o.task
           /\ worthy => (Gated(o, worthy).ref <=> o.ref)
<1>1. o \in Object
  BY DEF ObjectOk
<1> DEFINE d == Gated(o, worthy)
<1>2. d \in Object
  BY <1>1, GatedObject
<1>3. /\ d.creator = o.creator /\ d.java = o.java /\ d.handle = o.handle /\ d.wrapper = o.wrapper /\ d.call = o.call
      /\ d.task = o.task /\ d.state = o.state /\ d.core = o.core /\ d.data = o.data
  BY <1>1 DEF Gated, Object
<1>4. worthy => (d.ref <=> o.ref)
  BY <1>1 DEF Gated, Object
<1> HIDE DEF d
<1>5. Intact(n, o) => Intact(n, d)
  BY <1>3 DEF Intact, Owned
<1>6. ObjectOk(n, d)
  BY <1>2, <1>3, <1>5 DEF ObjectOk
<1> QED
  BY <1>2, <1>3, <1>4, <1>6 DEF d

\* What prune leaves of the node itself.
LEMMA PrunedSelf ==
    ASSUME NEW nd, NodesOk(nd), NEW n \in Nodes
    PROVE  /\ Pruned(nd, n)[n].call = nd[n].call /\ Pruned(nd, n)[n].state = nd[n].state
           /\ Pruned(nd, n)[n].ref = nd[n].ref /\ Pruned(nd, n)[n].task = nd[n].task
           /\ Pruned(nd, n)[n].branch = nd[n].branch
<1>1. nd[n] \in Object
  BY DEF NodesOk
<1>2. Pruned(nd, n)[n] = [nd[n] EXCEPT !.children = {}, !.parent = None]
  BY DEF Pruned
<1> QED
  BY <1>1, <1>2 DEF Object

\* A worthy node is sent, and its task queued; another is discarded.
LEMMA SentOk ==
    ASSUME NEW n \in Nodes, NEW o, ObjectOk(n, o), NEW st \in node_state, st # "UNUSED",
           NEW task, task = o.task \/ task = "queued", o.call \in {"local", "remote"}
    PROVE  LET d == [o EXCEPT !.state = st, !.task = task]
           IN  ObjectOk(n, d) /\ d.call = o.call
<1>1. o \in Object
  BY DEF ObjectOk
<1> DEFINE d == [o EXCEPT !.state = st, !.task = task]
<1>2. d \in Object
  BY <1>1 DEF Object
<1>3. /\ d.creator = o.creator /\ d.java = o.java /\ d.handle = o.handle /\ d.wrapper = o.wrapper /\ d.call = o.call
      /\ d.task = task /\ d.state = st /\ d.core = o.core /\ d.data = o.data /\ d.ref = o.ref
  BY <1>1 DEF Object
<1> HIDE DEF d
<1>4. Intact(n, o) => Intact(n, d)
  BY <1>3 DEF Intact, Owned
<1>5. runtime \in {"ready", "down"}
  BY DEF ObjectOk
<1>6. ObjectOk(n, d) /\ d.call = o.call
  BY <1>2, <1>3, <1>4, <1>5 DEF ObjectOk
<1> QED
  BY <1>6 DEF d

\* A change of its state alone, while a call has the node.
LEMMA StateOk ==
    ASSUME NEW n \in Nodes, NEW o, ObjectOk(n, o), NEW st \in node_state,
           st # "UNUSED" \/ st = o.state, o.call # "running" \/ st = o.state
    PROVE  LET d == [o EXCEPT !.state = st]
           IN  ObjectOk(n, d) /\ d.call = o.call
<1>1. o \in Object
  BY DEF ObjectOk
<1> DEFINE d == [o EXCEPT !.state = st]
<1>2. d \in Object
  BY <1>1 DEF Object
<1>3. /\ d.creator = o.creator /\ d.java = o.java /\ d.handle = o.handle /\ d.wrapper = o.wrapper /\ d.call = o.call
      /\ d.task = o.task /\ d.state = st /\ d.core = o.core /\ d.data = o.data /\ d.ref = o.ref
  BY <1>1 DEF Object
<1> HIDE DEF d
<1>4. Intact(n, o) => Intact(n, d)
  BY <1>3 DEF Intact, Owned
<1>6. ObjectOk(n, d) /\ d.call = o.call
  BY <1>2, <1>3, <1>4 DEF ObjectOk
<1> QED
  BY <1>6 DEF d

\* The steps that only move the call.
LEMMA MovesOk ==
    ASSUME NodesOk(node), NEW n \in Nodes,
           \/ gempba_nm_try_local_submit(n) \/ gempba_nm_forward(n) \/ gempba_nm_try_remote_submit(n)
           \/ Leave(n) \/ NoScheduler(n) \/ ChannelClosed(n) \/ PoolFull(n)
    PROVE  NodesOk(node')
<1>1. ASSUME NEW how \in {"local", "forward", "remote"}, Enter(n, how) PROVE NodesOk(node')
  <2>1. how \in Call /\ how \notin {"result", "creating", "none", "running"} /\ node[n].call = "called"
    BY <1>1 DEF Enter, Call
  <2> QED
    BY <1>1, <2>1, GoOnOk DEF Enter
<1>2. CASE Leave(n)
  <2>1. GoOn(node, n, "none") /\ node[n].call = "leaving" /\ "none" \in Call
    BY <1>2 DEF Leave, Call
  <2> QED
    BY <2>1, GoOnOk
<1>3. CASE NoScheduler(n)
  <2>1. GoOn(node, n, "leaving") /\ node[n].call = "remote" /\ "leaving" \in Call
    BY <1>3 DEF NoScheduler, Call
  <2> QED
    BY <2>1, GoOnOk
<1>4. CASE ChannelClosed(n)
  <2>1. GoOn(node, n, "local") /\ node[n].call = "remote" /\ "local" \in Call
    BY <1>4 DEF ChannelClosed, Call
  <2> QED
    BY <2>1, GoOnOk
<1>5. CASE PoolFull(n)
  <2>1. GoOn(node, n, "forward") /\ node[n].call = "local" /\ "forward" \in Call
    BY <1>5 DEF PoolFull, Call
  <2> QED
    BY <2>1, GoOnOk
<1> QED
  BY <1>1, <1>2, <1>3, <1>4, <1>5
  DEF gempba_nm_try_local_submit, gempba_nm_forward, gempba_nm_try_remote_submit

\* What should_branch may return.
LEMMA WorthyBoolean ==
    ASSUME NEW o \in Object, NEW w \in Worthy(o)
    PROVE  w \in BOOLEAN
<1>1. CASE o.branch = BOOLEAN /\ ~o.ref
  BY <1>1 DEF Worthy
<1>2. CASE ~(o.branch = BOOLEAN /\ ~o.ref)
  <2>1. w \in o.branch
    BY <1>2 DEF Worthy
  <2> QED
    BY <2>1, ObjectFields
<1> QED
  BY <1>1, <1>2

\* A node is sent to the pool or to another process.
LEMMA SendOk ==
    ASSUME NodesOk(node), NEW n \in Nodes, node[n].call \in {"local", "remote"},
           NEW st \in node_state, st # "UNUSED", NEW task, task = node[n].task \/ task = "queued",
           Send(n, st, task)
    PROVE  NodesOk(node')
<1>0. "leaving" \in Call /\ "DISCARDED" \in node_state
  BY DEF Call, node_state
<1>1. CASE node[n].state # "UNUSED"
  <2>1. GoOn(node, n, "leaving")
    BY <1>1 DEF Send
  <2> QED
    BY <2>1, <1>0, GoOnOk
<1>2. CASE node[n].state = "UNUSED"
  <2> DEFINE pr == Pruned(node, n)
             o(w) == Gated(pr[n], w)
             sent(w) == IF w THEN [o(w) EXCEPT !.state = st, !.task = task]
                        ELSE [o(w) EXCEPT !.state = "DISCARDED"]
  <2>1. PICK w \in Worthy(node[n]) : GoOn([pr EXCEPT ![n] = sent(w)], n, "leaving")
    BY <1>2 DEF Send
  <2>2. w \in BOOLEAN
    <3>1. node[n] \in Object
      BY DEF NodesOk
    <3> QED
      BY <3>1, WorthyBoolean
  <2>3. NodesOk(pr) /\ pr[n].state = "UNUSED" /\ pr[n].call = node[n].call /\ pr[n].task = node[n].task
    BY <1>2, PrunedOk, PrunedSelf
  <2> HIDE DEF pr
  <2>4. ObjectOk(n, pr[n]) /\ pr[n].call # "running"
    BY <2>3 DEF NodesOk
  <2>5. /\ ObjectOk(n, o(w)) /\ o(w).call = node[n].call /\ o(w).state = "UNUSED"
        /\ o(w).task = node[n].task
    BY <2>2, <2>3, <2>4, GatedOk
  <2> HIDE DEF o
  <2>6. ObjectOk(n, sent(w)) /\ sent(w).call = node[n].call
    <3>1. CASE w
      <4>1. sent(w) = [o(w) EXCEPT !.state = st, !.task = task]
        BY <3>1
      <4>2. (task = o(w).task \/ task = "queued") /\ o(w).call \in {"local", "remote"}
        BY <2>5
      <4> HIDE DEF sent
      <4>3. LET d == [o(w) EXCEPT !.state = st, !.task = task] IN ObjectOk(n, d) /\ d.call = o(w).call
        BY <2>5, <4>2, SentOk
      <4> QED
        BY <2>5, <4>1, <4>3
    <3>2. CASE ~w
      BY <1>0, <2>5, <3>2, StateOk
    <3> QED
      BY <3>1, <3>2
  <2> HIDE DEF sent
  <2> DEFINE nd == [pr EXCEPT ![n] = sent(w)]
  <2>7. NodesOk(nd)
    BY <2>3, <2>6, PutOk
  <2>8. nd[n].call = node[n].call /\ GoOn(nd, n, "leaving")
    BY <2>1, <2>3, <2>6 DEF NodesOk
  <2> HIDE DEF nd
  <2> QED
    BY <1>0, <2>7, <2>8, GoOnOk
<1> QED
  BY <1>1, <1>2

\* forward runs the node, or finds that it is not worthy.
LEMMA ForwardOk ==
    ASSUME NodesOk(node), NEW n \in Nodes, Run(n) \/ Skip(n)
    PROVE  NodesOk(node')
<1>0. /\ "leaving" \in Call /\ "running" \in Call /\ node[n].call = "forward"
      /\ ObjectOk(n, node[n]) /\ node \in [Nodes -> Object]
  BY DEF Call, Run, Skip, NodesOk
<1> DEFINE g(w) == Gated(node[n], w)
           put(w) == [node EXCEPT ![n] = g(w)]
<1>1. ASSUME node[n].state = "UNUSED", NEW w \in BOOLEAN
      PROVE  /\ NodesOk(put(w)) /\ put(w)[n].call = "forward" /\ put(w)[n].state = "UNUSED"
             /\ w => (put(w)[n].ref <=> node[n].ref)
  <2>1. /\ ObjectOk(n, g(w)) /\ g(w).call = "forward" /\ g(w).state = "UNUSED"
        /\ w => (g(w).ref <=> node[n].ref)
    BY <1>0, <1>1, GatedOk
  <2> HIDE DEF g
  <2>2. NodesOk(put(w))
    BY <2>1, PutOk
  <2>3. put(w)[n] = g(w)
    BY <1>0
  <2> QED
    BY <2>1, <2>2, <2>3
<1>2. CASE Run(n)
  <2> DEFINE place == IF node[n].ref THEN "running" ELSE "leaving"
  <2>1. node[n].state = "UNUSED" /\ GoOn(put(TRUE), n, place)
    BY <1>2 DEF Run
  <2>2. place \in Call /\ place \notin {"result", "creating", "none"} /\ (place = "running" => node[n].ref)
    BY <1>0
  <2>3. /\ NodesOk(put(TRUE)) /\ put(TRUE)[n].call = "forward" /\ put(TRUE)[n].state = "UNUSED"
        /\ (put(TRUE)[n].ref <=> node[n].ref)
    BY <1>1, <2>1
  <2> HIDE DEF put, place
  <2> QED
    BY <2>1, <2>2, <2>3, GoOnOk
<1>3. CASE Skip(n)
  <2>1. CASE GoOn(Pruned(node, n), n, "leaving")
    <3>1. NodesOk(Pruned(node, n)) /\ Pruned(node, n)[n].call = "forward"
      BY <1>0, PrunedOk, PrunedSelf
    <3> QED
      BY <1>0, <2>1, <3>1, GoOnOk
  <2>2. CASE node[n].state = "UNUSED" /\ GoOn(Pruned(put(FALSE), n), n, "leaving")
    <3>1. NodesOk(put(FALSE)) /\ put(FALSE)[n].call = "forward"
      BY <1>1, <2>2
    <3> HIDE DEF put
    <3>2. NodesOk(Pruned(put(FALSE), n)) /\ Pruned(put(FALSE), n)[n].call = "forward"
      BY <3>1, PrunedOk, PrunedSelf
    <3> QED
      BY <1>0, <2>2, <3>2, GoOnOk
  <2> QED
    BY <1>3, <2>1, <2>2 DEF Skip
<1> QED
  BY <1>2, <1>3

\* A callback that has been called has released its reference; another task of the node
\* does not run.
LEMMA CalledBackOk ==
    ASSUME NEW n \in Nodes, NEW o, ObjectOk(n, o), NEW ok \in BOOLEAN,
           NEW place \in Call, NEW task \in {"none", "queued", "running", "ran"},
           \/ o.call = "running" /\ place = "returned" /\ task = o.task
           \/ o.task = "running" /\ place = o.call /\ task = "ran"
    PROVE  LET d == [CalledBack(o, ok) EXCEPT !.call = place, !.task = task]
           IN  ObjectOk(n, d)
<1>1. o \in Object
  BY DEF ObjectOk
<1> DEFINE e == CalledBack(o, ok)
           d == [e EXCEPT !.call = place, !.task = task]
<1>2. e \in Object /\ e.call = o.call
  BY <1>1 DEF CalledBack, Object
<1>3. /\ d.creator = o.creator /\ d.java = o.java /\ d.handle = o.handle /\ d.wrapper = o.wrapper /\ d.call = place
      /\ d.task = task /\ d.state = o.state /\ d.core = o.core /\ d.data = o.data /\ d.ref = FALSE
  BY <1>1 DEF CalledBack, Object
<1>4. d \in Object
  <2> HIDE DEF e
  <2> QED
    BY <1>2 DEF Object
<1> HIDE DEF d
<1>5. Intact(n, o) => Intact(n, d)
  BY <1>3 DEF Intact, Owned
<1>6. runtime \in {"ready", "down"}
  BY DEF ObjectOk
<1>7. ObjectOk(n, d)
  BY <1>4, <1>5, <1>6 DEF ObjectOk
<1> QED
  BY <1>7 DEF d

\* Steps of a callback, and of getResult.
LEMMA ReturnOk ==
    ASSUME NodesOk(node), NEW n \in Nodes, Return(n) \/ RunEnds(n) \/ gempba_node_get_result(n)
    PROVE  NodesOk(node')
<1>0. /\ ObjectOk(n, node[n]) /\ node \in [Nodes -> Object] /\ node[n] \in Object
      /\ {"returned", "leaving", "none"} \subseteq Call
      /\ {"FORWARDED", "RETRIEVED"} \subseteq node_state
  BY DEF Call, node_state, NodesOk
<1>1. CASE Return(n)
  <2>1. PICK ok \in BOOLEAN : GoOn([node EXCEPT ![n] = CalledBack(node[n], ok)], n, "returned")
    BY <1>1 DEF Return
  <2> DEFINE e == CalledBack(node[n], ok)
             t == node[n].task
  <2>2. e \in Object /\ node[n].call = "running" /\ t \in {"none", "queued", "running", "ran"} /\ e.task = t
    BY <1>0, <1>1 DEF Return, CalledBack, Object
  <2>3. ObjectOk(n, [e EXCEPT !.call = "returned", !.task = t])
    <3> HIDE DEF t
    <3>1. "returned" \in Call /\ t = node[n].task
      BY <1>0 DEF t
    <3> QED
      BY <1>0, <2>2, <3>1, CalledBackOk
  <2>4. [e EXCEPT !.call = "returned", !.task = t] = [e EXCEPT !.call = "returned"]
    <3> HIDE DEF e, t
    <3> QED
      BY <2>2 DEF Object
  <2> HIDE DEF e
  <2>5. ObjectOk(n, [e EXCEPT !.call = "returned"])
    BY <2>3, <2>4
  <2>6. GoOn([node EXCEPT ![n] = e], n, "returned")
    BY <2>1 DEF e
  <2> QED
    BY <2>2, <2>5, <2>6, GoesOn
<1>2. CASE RunEnds(n)
  <2> DEFINE f == [node[n] EXCEPT !.state = "FORWARDED"]
             done == [node EXCEPT ![n].state = "FORWARDED"]
  <2>1. node[n].call = "returned"
    BY <1>2 DEF RunEnds
  <2>2. ObjectOk(n, f) /\ f.call = "returned"
    BY <1>0, <2>1, StateOk
  <2>3. done = [node EXCEPT ![n] = f]
    BY <1>0
  <2>4. done[n] = f
    BY <1>0
  <2>5. NodesOk(done)
    <3> HIDE DEF f, done
    <3> QED
      BY <2>2, <2>3, PutOk
  <2>6. CASE GoOn(Pruned(done, n), n, "leaving")
    <3>1. done[n].call = "returned"
      BY <2>2, <2>4
    <3> HIDE DEF done
    <3>2. NodesOk(Pruned(done, n)) /\ Pruned(done, n)[n].call = "returned"
      BY <2>5, <3>1, PrunedOk, PrunedSelf
    <3> QED
      BY <1>0, <2>6, <3>2, GoOnOk
  <2>7. CASE GoOn(node, n, "leaving")
    BY <1>0, <2>1, <2>7, GoOnOk
  <2> QED
    BY <1>2, <2>6, <2>7 DEF RunEnds
<1>3. CASE gempba_node_get_result(n)
  <2> DEFINE st == IF node[n].state = "PUSHED" /\ node[n].fate # "ran" THEN node[n].state ELSE "RETRIEVED"
             f == [node[n] EXCEPT !.state = st]
             nd == [node EXCEPT ![n] = f]
  <2>1. node[n].call = "result" /\ GoOn(nd, n, "none")
    BY <1>3 DEF gempba_node_get_result, get_any_result
  <2>2. st \in node_state /\ (st # "UNUSED" \/ st = node[n].state)
    BY <1>0, ObjectFields
  <2> HIDE DEF st
  <2>3. ObjectOk(n, f) /\ f.call = "result"
    BY <1>0, <2>1, <2>2, StateOk
  <2> HIDE DEF f
  <2>4. NodesOk(nd) /\ nd[n].call = "result"
    BY <1>0, <2>3, PutOk
  <2> HIDE DEF nd
  <2> QED
    BY <1>0, <2>1, <2>4, GoOnOk
<1> QED
  BY <1>1, <1>2, <1>3

\* Steps of the pool.
LEMMA PoolOk ==
    ASSUME NodesOk(node), NEW n \in Nodes, Take(n) \/ TaskReturns(n) \/ TaskGone(n)
    PROVE  NodesOk(node')
<1>0. ObjectOk(n, node[n]) /\ node \in [Nodes -> Object] /\ node[n] \in Object
  BY DEF NodesOk
<1>1. SUFFICES \E o : ObjectOk(n, o) /\ node' = Settled([node EXCEPT ![n] = o])
  BY PutOk, SettledOk
<1>2. ASSUME NEW t \in {"none", "queued", "running", "ran"}, node[n].task # "none",
             t = "running" => node[n].ref
      PROVE  ObjectOk(n, [node[n] EXCEPT !.task = t])
  <2> DEFINE o == node[n]
             d == [o EXCEPT !.task = t]
  <2>1. d \in Object
    BY <1>0 DEF Object
  <2>2. /\ d.creator = o.creator /\ d.java = o.java /\ d.handle = o.handle /\ d.wrapper = o.wrapper /\ d.call = o.call
        /\ d.task = t /\ d.state = o.state /\ d.core = o.core /\ d.data = o.data /\ d.ref = o.ref
    BY <1>0 DEF Object
  <2>3. ObjectOk(n, o) /\ o.task # "none" /\ (t = "running" => o.ref)
    BY <1>0, <1>2
  <2> HIDE DEF d, o
  <2>4. Intact(n, o) => Intact(n, d)
    BY <2>2, <2>3 DEF Intact, Owned
  <2>5. runtime \in {"ready", "down"}
    BY <2>3 DEF ObjectOk
  <2>6. ObjectOk(n, d)
    BY <2>1, <2>3, <2>4, <2>5 DEF ObjectOk
  <2> QED
    BY <2>6 DEF d, o
<1>3. CASE Take(n)
  <2> DEFINE t == IF node[n].ref THEN "running" ELSE "ran"
  <2>1. node' = Settled([node EXCEPT ![n] = [node[n] EXCEPT !.task = t]])
    BY <1>3 DEF Take, Task
  <2>2. ObjectOk(n, [node[n] EXCEPT !.task = t])
    BY <1>2, <1>3 DEF Take
  <2> QED
    BY <2>1, <2>2
<1>4. CASE TaskReturns(n)
  <2>1. PICK ok \in BOOLEAN : node' = Settled([node EXCEPT ![n] = [CalledBack(node[n], ok) EXCEPT !.task = "ran"]])
    BY <1>4 DEF TaskReturns, Task
  <2> DEFINE e == CalledBack(node[n], ok)
             c == node[n].call
  <2>2. e \in Object /\ node[n].task = "running" /\ c \in Call /\ e.call = c
    BY <1>0, <1>4 DEF TaskReturns, CalledBack, Object
  <2>3. ObjectOk(n, [e EXCEPT !.call = c, !.task = "ran"])
    BY <1>0, <2>2, CalledBackOk
  <2>4. [e EXCEPT !.call = c, !.task = "ran"] = [e EXCEPT !.task = "ran"]
    <3> HIDE DEF e, c
    <3> QED
      BY <2>2 DEF Object
  <2> QED
    BY <2>1, <2>3, <2>4
<1>5. CASE TaskGone(n)
  <2>1. node' = Settled([node EXCEPT ![n] = [node[n] EXCEPT !.task = "none"]])
    BY <1>5 DEF TaskGone, Task
  <2>2. ObjectOk(n, [node[n] EXCEPT !.task = "none"])
    BY <1>2, <1>5 DEF TaskGone
  <2> QED
    BY <2>1, <2>2
<1> QED
  BY <1>3, <1>4, <1>5

-----------------------------------------------------------------------------
(* Java code *)

\* A new node is entered with its parent.
LEMMA AddChildOk ==
    ASSUME NodesOk(node), NEW n \in Nodes, NEW o, ObjectOk(n, o), node' = add_child(n, o)
    PROVE  NodesOk(node')
<1>1. node \in [Nodes -> Object]
  BY DEF NodesOk
<1>2. ASSUME NEW m \in Nodes PROVE ObjectOk(m, add_child(n, o)[m])
  <2>1. CASE m = n
    BY <2>1 DEF add_child
  <2>2. CASE m # n /\ m = o.parent
    <3> DEFINE c == node[m].children \cup {n}
               p == node[m].parent
    <3>1. add_child(n, o)[m] = [node[m] EXCEPT !.children = c]
      BY <2>2 DEF add_child
    <3>2. node[m] \in Object /\ ObjectOk(m, node[m])
      BY <1>1 DEF NodesOk
    <3>3. c \in SUBSET Nodes /\ p \in Nodes \cup {None}
      BY <3>2, ObjectFields
    <3>4. [node[m] EXCEPT !.children = c] = [node[m] EXCEPT !.children = c, !.parent = p]
      BY <3>2 DEF Object
    <3> HIDE DEF c, p
    <3>5. ObjectOk(m, [node[m] EXCEPT !.children = c, !.parent = p])
      BY <3>2, <3>3, LinksOk
    <3> QED
      BY <3>1, <3>4, <3>5
  <2>3. CASE m # n /\ m # o.parent
    <3>1. add_child(n, o)[m] = node[m]
      BY <2>3 DEF add_child
    <3> QED
      BY <3>1 DEF NodesOk
  <2> QED
    BY <2>1, <2>2, <2>3
<1>3. add_child(n, o) \in [Nodes -> Object]
  <2>1. \A m \in Nodes : add_child(n, o)[m] \in Object
    BY <1>2 DEF ObjectOk
  <2>2. add_child(n, o) = [m \in Nodes |-> add_child(n, o)[m]]
    BY DEF add_child
  <2> QED
    BY <2>1, <2>2
<1> QED
  BY <1>2, <1>3 DEF NodesOk

\* Who creates nodes.
LEMMA CreatorsAre == ASSUME NEW c \in Creators PROVE c \in Nodes \cup {Main, Serial}
BY DEF Creators

\* A node that is made is in order: one with a runnable has java_user_data.
LEMMA MadeOk ==
    ASSUME NEW n \in Nodes, NEW o \in Object, o.handle, o.wrapper = "alive", o.core = "alive",
           o.call = "none", o.task = "none", o.creator # n,
           o.data = "alive" \/ Makes[scenario][n] = "dummy"
    PROVE  ObjectOk(n, o)
<1>1. Intact(n, o)
  BY DEF Intact, Owned
<1> QED
  BY <1>1 DEF ObjectOk

\* What the factories make is in order.
LEMMA FactoriesOk ==
    ASSUME NEW c \in Nodes \cup {Main, Serial}, NEW p \in Nodes \cup {None}, NEW n \in Nodes, c # n
    PROVE  /\ Makes[scenario][n] = "dummy" => ObjectOk(n, gempba_create_dummy_node(c))
           /\ ObjectOk(n, gempba_create_seed_node(c))
           /\ ObjectOk(n, gempba_mt_create_explicit_node(c, p))
           /\ ObjectOk(n, gempba_mp_create_explicit_node(c, p))
           /\ ObjectOk(n, gempba_mt_create_lazy_node(c, p))
<1>1. Absent \in Object
  BY DEF Absent, Object, node_state, Call
<1> DEFINE d == gempba_create_dummy_node(c)
           s == new_user_data(d)
           e == [s EXCEPT !.parent = p]
           l == [e EXCEPT !.branch = BOOLEAN]
<1>2. /\ d \in Object /\ d.handle /\ d.wrapper = "alive" /\ d.core = "alive" /\ d.call = "none"
      /\ d.task = "none" /\ d.creator = c
  <2>1. Absent.call = "none" /\ Absent.task = "none"
    BY DEF Absent
  <2> QED
    BY <1>1, <2>1 DEF gempba_create_dummy_node, Object
<1>3. /\ s \in Object /\ s.handle /\ s.wrapper = "alive" /\ s.core = "alive" /\ s.call = "none"
      /\ s.task = "none" /\ s.creator = c /\ s.data = "alive"
  <2> HIDE DEF d
  <2> QED
    BY <1>2 DEF new_user_data, Object
<1>4. /\ e \in Object /\ e.handle /\ e.wrapper = "alive" /\ e.core = "alive" /\ e.call = "none"
      /\ e.task = "none" /\ e.creator = c /\ e.data = "alive"
  <2> HIDE DEF s
  <2> QED
    BY <1>3 DEF Object
<1>5. /\ l \in Object /\ l.handle /\ l.wrapper = "alive" /\ l.core = "alive" /\ l.call = "none"
      /\ l.task = "none" /\ l.creator = c /\ l.data = "alive"
  <2> HIDE DEF e
  <2> QED
    BY <1>4 DEF Object
<1>6. /\ gempba_create_seed_node(c) = s /\ gempba_mt_create_explicit_node(c, p) = e
      /\ gempba_mp_create_explicit_node(c, p) = e /\ gempba_mt_create_lazy_node(c, p) = l
  BY DEF gempba_create_seed_node, gempba_mt_create_explicit_node, gempba_mp_create_explicit_node,
         gempba_mt_create_lazy_node, LAZY
<1>7. Makes[scenario][n] = "dummy" => ObjectOk(n, d)
  <2> HIDE DEF d
  <2> QED
    BY <1>2, MadeOk
<1>8. ObjectOk(n, s) /\ ObjectOk(n, e) /\ ObjectOk(n, l)
  <2> HIDE DEF s, e, l
  <2> QED
    BY <1>3, <1>4, <1>5, MadeOk
<1> HIDE DEF d, s, e, l
<1> QED
  BY <1>6, <1>7, <1>8 DEF d

\* A node is created by other code than its own.
LEMMA CreatorOther ==
    ASSUME NodesOk(node), NEW n \in Nodes, node[n].java = "absent", NEW c, Free(c)
    PROVE  c # n
<1>1. Intact(n, node[n])
  BY DEF NodesOk, ObjectOk
<1>2. node[n].call = "none" /\ node[n].task = "none"
  BY <1>1 DEF Intact
<1> QED
  BY <1>2 DEF Free, Running

\* Making a node without parent.
LEMMA CreateRootOk ==
    ASSUME NodesOk(node), NEW n \in Nodes, CreateDummy(n) \/ CreateSeed(n)
    PROVE  NodesOk(node')
<1>1. SUFFICES \E o : ObjectOk(n, o) /\ node' = add_child(n, o)
  BY AddChildOk
<1>2. node[n].java = "absent" /\ None \in Nodes \cup {None}
  BY DEF CreateDummy, CreateSeed, IsNext
<1>3. CASE CreateDummy(n)
  <2>1. PICK c \in Creators : Free(c) /\ node' = add_child(n, gempba_create_dummy_node(c))
    BY <1>3 DEF CreateDummy
  <2>2. Makes[scenario][n] = "dummy" /\ c # n
    BY <1>2, <1>3, <2>1, CreatorOther DEF CreateDummy, IsNext
  <2>3. ObjectOk(n, gempba_create_dummy_node(c))
    BY <1>2, <2>2, CreatorsAre, FactoriesOk
  <2> QED
    BY <2>1, <2>3
<1>4. CASE CreateSeed(n)
  <2>1. PICK c \in Creators : Free(c) /\ node' = add_child(n, gempba_create_seed_node(c))
    BY <1>4 DEF CreateSeed
  <2>2. c # n
    BY <1>2, <2>1, CreatorOther
  <2>3. ObjectOk(n, gempba_create_seed_node(c))
    BY <1>2, <2>2, CreatorsAre, FactoriesOk
  <2> QED
    BY <2>1, <2>3
<1> QED
  BY <1>3, <1>4

\* The native factories of a node with a parent.
LEMMA CreateOk ==
    ASSUME NodesOk(node), NEW n \in Nodes, CreateExplicit(n) \/ CreateSerializable(n) \/ CreateLazy(n)
    PROVE  NodesOk(node')
<1>1. SUFFICES \E o : ObjectOk(n, o) /\ node' = add_child(n, o)
  BY AddChildOk
<1> DEFINE c == node[n].creator
           p == node[n].parent
<1>2. node[n] \in Object /\ Intact(n, node[n])
  BY DEF NodesOk, ObjectOk
<1>3. c \in Nodes \cup {Main, Serial} /\ p \in Nodes \cup {None} /\ c # n
  BY <1>2, ObjectFields DEF Intact
<1>4. \/ node' = add_child(n, gempba_mt_create_explicit_node(c, p))
      \/ node' = add_child(n, gempba_mp_create_explicit_node(c, p))
      \/ node' = add_child(n, gempba_mt_create_lazy_node(c, p))
  BY DEF CreateExplicit, CreateSerializable, CreateLazy
<1> HIDE DEF c, p
<1> QED
  BY <1>3, <1>4, FactoriesOk

\* All native steps.
LEMMA NativeOk ==
    ASSUME NodesOk(node), NEW n \in Nodes, Native(n)
    PROVE  NodesOk(node')
<1>1. CASE SendRemotely(n)
  <2>1. /\ node[n].call = "remote" /\ Send(n, "SENT_TO_ANOTHER_PROCESS", node[n].task)
        /\ "SENT_TO_ANOTHER_PROCESS" \in node_state
    BY <1>1 DEF SendRemotely, node_state
  <2> QED
    BY <2>1, SendOk
<1>2. CASE SendLocally(n)
  <2>1. node[n].call = "local" /\ Send(n, "PUSHED", "queued") /\ "PUSHED" \in node_state
    BY <1>2 DEF SendLocally, node_state
  <2> QED
    BY <2>1, SendOk
<1> QED
  BY <1>1, <1>2, CreateOk, MovesOk, ForwardOk, ReturnOk, PoolOk DEF Native

\* A factory that fails leaves a Java Node without handle.
LEMMA CreateFailedOk ==
    ASSUME NodesOk(node), NEW n \in Nodes, CreateRefused(n) \/ NoGlobalRef(n)
    PROVE  NodesOk(node')
<1>0. node[n].java = "absent"
  BY DEF CreateRefused, NoGlobalRef, IsNext
<1>1. Absent \in Object
  BY DEF Absent, Object, node_state, Call
<1>2. ASSUME NEW c \in Nodes \cup {Main, Serial}
      PROVE  c # n => ObjectOk(n, Refused(c)) /\ ObjectOk(n, [Absent EXCEPT !.java = "held", !.creator = c])
  <2> DEFINE a == Absent
             e == java_user_data_release(new_user_data(a))
             r == Refused(c)
             h == [a EXCEPT !.java = "held", !.creator = c]
  <2>1. ~a.handle /\ a.wrapper = "none" /\ a.core = "none" /\ a.call = "none" /\ a.task = "none"
    BY DEF Absent
  <2>2. r = [e EXCEPT !.java = "dropped", !.creator = c]
    BY DEF Refused
  <2>3. a \in Object
    BY <1>1
  <2> HIDE DEF a
  <2>4. /\ e \in Object /\ ~e.handle /\ e.wrapper = "none" /\ e.core = "none" /\ e.call = "none"
        /\ e.task = "none"
    BY <2>1, <2>3 DEF java_user_data_release, new_user_data, Object
  <2> HIDE DEF e, r
  <2>5. /\ r \in Object /\ ~r.handle /\ r.wrapper = "none" /\ r.core = "none" /\ r.call = "none"
        /\ r.task = "none" /\ r.creator = c
    BY <2>2, <2>4 DEF Object
  <2>6. /\ h \in Object /\ ~h.handle /\ h.wrapper = "none" /\ h.core = "none" /\ h.call = "none"
        /\ h.task = "none" /\ h.creator = c
    BY <2>1, <2>3 DEF Object
  <2> HIDE DEF h
  <2>7. c # n => Intact(n, r) /\ Intact(n, h)
    BY <2>5, <2>6 DEF Intact, Owned
  <2> QED
    BY <2>5, <2>6, <2>7 DEF ObjectOk, r, h, a
<1>3. ASSUME NEW o, ObjectOk(n, o), node' = [node EXCEPT ![n] = o] PROVE NodesOk(node')
  <2>1. NodesOk([node EXCEPT ![n] = o])
    BY <1>3, PutOk
  <2> QED
    BY <1>3, <2>1
<1>4. CASE CreateRefused(n)
  <2>1. PICK c \in Creators : Free(c) /\ node' = [node EXCEPT ![n] = Refused(c)]
    BY <1>4 DEF CreateRefused
  <2> QED
    BY <1>0, <1>2, <1>3, <2>1, CreatorsAre, CreatorOther
<1>5. CASE NoGlobalRef(n)
  <2>1. PICK c \in Creators :
          Free(c) /\ node' = [node EXCEPT ![n] = [Absent EXCEPT !.java = "held", !.creator = c]]
    BY <1>5 DEF NoGlobalRef
  <2> QED
    BY <1>0, <1>2, <1>3, <2>1, CreatorsAre, CreatorOther
<1> QED
  BY <1>4, <1>5

\* A factory has read its parent's handle.
LEMMA ReadParentOk ==
    ASSUME NodesOk(node), NEW n \in Nodes, ReadParent(n)
    PROVE  NodesOk(node')
<1>1. PICK c \in Creators : \E p \in Parents(c) :
        /\ Free(c)
        /\ node' = [node EXCEPT ![n] = [Absent EXCEPT !.java = "held", !.creator = c,
                                                      !.call = "creating", !.parent = p]]
  BY DEF ReadParent
<1>2. PICK p \in Parents(c) :
        /\ Free(c)
        /\ node' = [node EXCEPT ![n] = [Absent EXCEPT !.java = "held", !.creator = c,
                                                      !.call = "creating", !.parent = p]]
  BY <1>1
<1> DEFINE a == Absent
           d == [a EXCEPT !.java = "held", !.creator = c, !.call = "creating", !.parent = p]
<1>3. node[n].java = "absent" /\ runtime = "ready"
  BY DEF ReadParent, IsNext
<1>4. c # n /\ c \in Nodes \cup {Main, Serial} /\ p \in Nodes
  BY <1>2, <1>3, CreatorOther, CreatorsAre DEF Parents, Context
<1>5. /\ a \in Object /\ ~a.handle /\ a.wrapper = "none" /\ a.core = "none" /\ a.task = "none"
      /\ "creating" \in Call
  BY DEF Absent, Object, node_state, Call
<1> HIDE DEF a
<1>6. /\ d \in Object /\ ~d.handle /\ d.wrapper = "none" /\ d.core = "none" /\ d.task = "none"
      /\ d.creator = c /\ d.java = "held" /\ d.call = "creating"
  BY <1>4, <1>5 DEF Object
<1>7. node' = [node EXCEPT ![n] = d]
  BY <1>2 DEF a
<1> HIDE DEF d
<1>8. Intact(n, d)
  BY <1>4, <1>6 DEF Intact, Owned
<1>9. ObjectOk(n, d)
  BY <1>3, <1>6, <1>8 DEF ObjectOk
<1>10. NodesOk([node EXCEPT ![n] = d])
  BY <1>9, PutOk
<1> QED
  BY <1>7, <1>10

\* Code that may go on is in no call.
LEMMA FreeCalls ==
    ASSUME NEW n \in Nodes, Free(node[n].creator)
    PROVE  node[n].call = "none"
BY DEF Free

\* Java code calls a node of its own.
LEMMA UsesOk ==
    ASSUME NodesOk(node), NEW n \in Nodes, NEW place \in {"called", "result"},
           NEW how \in {"local", "forward", "remote"}, NEW lasts, lasts \subseteq BOOLEAN,
           place = "called" => Makes[scenario][n] # "dummy",
           Uses(n, place, how, lasts)
    PROVE  NodesOk(node')
<1> DEFINE o == node[n]
<1>0. ObjectOk(n, o) /\ o \in Object
  BY DEF NodesOk
<1>1. o.call = "none" /\ o.java = "held" /\ o.handle /\ runtime = "ready"
  BY FreeCalls DEF Uses
<1>2. PICK last \in lasts :
        node' = [node EXCEPT ![n] = Used(o, place, how, last)]
  BY Zenon DEF Uses
<1> DEFINE j == IF last THEN "dropped" ELSE o.java
           k == o.calls + 1
           d == [o EXCEPT !.call = place, !.how = how, !.calls = k, !.java = j]
<1>3. j \in {"held", "dropped"} /\ k \in Nat
  BY <1>0, <1>1, ObjectFields
<1>4. place \in Call
  BY DEF Call
<1> HIDE DEF o, j, k
<1>5. d \in Object
  BY <1>0, <1>3, <1>4 DEF Object
<1>6. /\ d.creator = o.creator /\ d.java = j /\ d.handle = o.handle /\ d.wrapper = o.wrapper /\ d.call = place
      /\ d.task = o.task /\ d.state = o.state /\ d.core = o.core /\ d.data = o.data /\ d.ref = o.ref
  BY <1>0 DEF Object
<1> HIDE DEF d
<1>7. Intact(n, o) => Intact(n, d)
  BY <1>1, <1>3, <1>6 DEF Intact, Owned
<1>8. ObjectOk(n, d)
  BY <1>0, <1>1, <1>5, <1>7 DEF ObjectOk
<1>9. node' = [node EXCEPT ![n] = d]
  BY <1>2 DEF Used, d, j, k
<1>10. NodesOk([node EXCEPT ![n] = d])
  BY <1>8, PutOk
<1> QED
  BY <1>9, <1>10

\* A variable goes, and the collector or close takes the wrapper.
LEMMA CleanedOk ==
    ASSUME NodesOk(node), NEW n \in Nodes, node[n].call \in {"none", "result", "creating"},
           node' = Cleaned(n)
    PROVE  NodesOk(node')
<1> DEFINE o == node[n]
           d == [gempba_node_destroy(o) EXCEPT !.java = "dropped", !.handle = FALSE]
<1>0. ObjectOk(n, o) /\ o \in Object
  BY DEF NodesOk
<1>1. node' = Settled([node EXCEPT ![n] = d])
  BY DEF Cleaned
<1>2. o.call \in {"none", "result", "creating"}
  OBVIOUS
<1> HIDE DEF o
<1>3. d \in Object
  BY <1>0 DEF gempba_node_destroy, Object
<1>4. /\ d.creator = o.creator /\ d.java = "dropped" /\ ~d.handle /\ d.wrapper = "deleted" /\ d.call = o.call
      /\ d.task = o.task /\ d.state = o.state /\ d.core = o.core /\ d.data = o.data /\ d.ref = o.ref
  BY <1>0 DEF gempba_node_destroy, Object
<1> HIDE DEF d
<1>5. Intact(n, o) => Intact(n, d)
  BY <1>2, <1>4 DEF Intact, Owned
<1>6. ObjectOk(n, d)
  BY <1>0, <1>3, <1>4, <1>5 DEF ObjectOk
<1>7. NodesOk([node EXCEPT ![n] = d])
  BY <1>6, PutOk
<1> QED
  BY <1>1, <1>7, SettledOk

\* A variable of a node that is in no call goes.
LEMMA DroppedOk ==
    ASSUME NEW n \in Nodes, NEW o, ObjectOk(n, o), o.call = "none"
    PROVE  ObjectOk(n, [o EXCEPT !.java = "dropped"])
<1> DEFINE d == [o EXCEPT !.java = "dropped"]
<1>1. o \in Object
  BY DEF ObjectOk
<1>3. d \in Object
  BY <1>1 DEF Object
<1>4. /\ d.creator = o.creator /\ d.java = "dropped" /\ d.handle = o.handle /\ d.wrapper = o.wrapper
      /\ d.call = o.call /\ d.task = o.task /\ d.state = o.state /\ d.core = o.core /\ d.data = o.data
      /\ d.ref = o.ref
  BY <1>1 DEF Object
<1> HIDE DEF d
<1>5. Intact(n, o) => Intact(n, d)
  BY <1>4 DEF Intact, Owned
<1> QED
  BY <1>3, <1>4, <1>5 DEF ObjectOk, d

\* All steps of Java code and of the collector.  The collector takes only what nothing
\* reaches: a submission holds its node by a fence, and a getResult by the variable if there is one.
LEMMA JavaOk ==
    ASSUME NodesOk(node), NEW n \in Nodes, Java(n)
    PROVE  NodesOk(node')
<1>1. CASE tryLocalSubmit(n)
  <2> DEFINE l == IF scenario # "results" THEN BOOLEAN ELSE {TRUE}
  <2>1. Makes[scenario][n] # "dummy" /\ Uses(n, "called", "local", l)
    BY <1>1 DEF tryLocalSubmit, Submittable
  <2>2. l \subseteq BOOLEAN
    OBVIOUS
  <2> HIDE DEF l
  <2> QED
    BY <2>1, <2>2, UsesOk
<1>2. CASE forward(n)
  <2>1. Makes[scenario][n] # "dummy" /\ Uses(n, "called", "forward", BOOLEAN)
    BY <1>2 DEF forward, Submittable
  <2> QED
    BY <2>1, UsesOk
<1>3. CASE tryRemoteSubmit(n)
  <2>1. Makes[scenario][n] # "dummy" /\ Uses(n, "called", "remote", BOOLEAN)
    BY <1>3 DEF tryRemoteSubmit, Submittable
  <2> QED
    BY <2>1, UsesOk
<1>4. CASE getResult(n)
  <2>1. Uses(n, "result", "local", BOOLEAN)
    BY <1>4 DEF getResult
  <2> QED
    BY <2>1, UsesOk
<1>5. CASE Drop(n)
  <2>1. node' = [node EXCEPT ![n] = [node[n] EXCEPT !.java = "dropped"]] /\ node[n].call = "none"
    BY <1>5 DEF Drop
  <2>2. ObjectOk(n, node[n])
    BY DEF NodesOk
  <2>3. ObjectOk(n, [node[n] EXCEPT !.java = "dropped"])
    BY <2>1, <2>2, DroppedOk
  <2>4. NodesOk([node EXCEPT ![n] = [node[n] EXCEPT !.java = "dropped"]])
    BY <2>3, PutOk
  <2> QED
    BY <2>1, <2>4
<1>6. CASE Close(n)
  <2>1. node' = Cleaned(n) /\ node[n].call = "none"
    BY <1>6, FreeCalls DEF Close
  <2> QED
    BY <2>1, CleanedOk
<1>7. CASE Collect(n)
  <2>1. node' = Cleaned(n) /\ node[n].call \in {"none", "result", "creating"}
    BY <1>7 DEF Collect, Collectable, Reachable, Fenced
  <2> QED
    BY <2>1, CleanedOk
<1> QED
  BY <1>1, <1>2, <1>3, <1>4, <1>5, <1>6, <1>7, CreateRootOk, ReadParentOk, CreateFailedOk DEF Java

\* The variables of a serial task that returns go.
LEMMA SerialReturnsOk ==
    ASSUME NodesOk(node), SerialReturns
    PROVE  NodesOk(node')
<1>1. ASSUME NEW n \in Nodes PROVE ObjectOk(n, node'[n])
  <2>1. ObjectOk(n, node[n])
    BY DEF NodesOk
  <2>2. CASE node[n].creator = Serial /\ node[n].java = "held"
    <3>1. node[n].call = "none"
      BY <2>2 DEF SerialReturns, Free
    <3>2. node'[n] = [node[n] EXCEPT !.java = "dropped"]
      BY <2>2 DEF SerialReturns
    <3> QED
      BY <2>1, <3>1, <3>2, DroppedOk
  <2>3. CASE ~(node[n].creator = Serial /\ node[n].java = "held")
    <3>1. node'[n] = node[n]
      BY <2>3 DEF SerialReturns
    <3> QED
      BY <2>1, <3>1
  <2> QED
    BY <2>2, <2>3
<1>2. node' \in [Nodes -> Object]
  <2>1. \A n \in Nodes : node'[n] \in Object
    BY <1>1 DEF ObjectOk
  <2>2. node' = [n \in Nodes |-> node'[n]]
    BY DEF SerialReturns
  <2> QED
    BY <2>1, <2>2
<1> QED
  BY <1>1, <1>2 DEF NodesOk

-----------------------------------------------------------------------------
(* Factories at work *)

\* The part of the invariant about a node that is being created.
CreationAt(nd, n) ==
    nd[n].call = "creating" =>
        LET p == nd[n].parent IN
        /\ p \in Nodes /\ nd[p].java # "absent" /\ nd[n].core = "none"
        /\ IF p = nd[n].creator THEN nd[p].call = "running"
           ELSE nd[p].creator = nd[n].creator /\ (nd[p].java = "held" => nd[p].handle)

CreationOk(nd) == \A n \in Nodes : CreationAt(nd, n)

\* What a step leaves of a node's origin: no factory is at work after it that was not before, and
\* a variable that still holds the node holds it with its handle.
Steady(a, b) ==
    /\ b.creator = a.creator
    /\ b.java = "absent" => a.java = "absent"
    /\ b.java = "held" => a.java = "held" /\ (b.handle <=> a.handle)
    /\ b.call = "creating" =>
         a.call = "creating" /\ (a.core = "none" => b.core = "none" /\ b.parent = a.parent)

RunsOn(a, b) == a.call = "running" => b.call = "running"

\* All nodes are steady, and no callback but that of r returns.
Calm(nd, r) == \A m \in Nodes : Steady(node[m], nd[m]) /\ (m # r => RunsOn(node[m], nd[m]))

\* The same origin, call, core and parent.
Kin(a, b) ==
    /\ b.creator = a.creator /\ b.java = a.java /\ (b.handle <=> a.handle)
    /\ b.call = a.call /\ b.core = a.core /\ b.parent = a.parent

\* A calm step keeps what is known of the factories at work: the callback that returns is in no
\* factory.
LEMMA CreationKept ==
    ASSUME CreationOk(node), NEW r, Calm(node', r),
           r \in Nodes => node[r].call # "running" \/ Free(r)
    PROVE  CreationOk(node')
<1> SUFFICES ASSUME NEW n \in Nodes, node'[n].call = "creating" PROVE CreationAt(node', n)
  BY DEF CreationOk, CreationAt
<1> DEFINE p == node[n].parent
<1>1. /\ Steady(node[n], node'[n]) /\ CreationAt(node, n)
  BY DEF Calm, CreationOk
<1>2. node[n].call = "creating" /\ node'[n].creator = node[n].creator
  BY <1>1 DEF Steady
<1>3. /\ p \in Nodes /\ node[p].java # "absent" /\ node[n].core = "none"
      /\ IF p = node[n].creator THEN node[p].call = "running"
         ELSE node[p].creator = node[n].creator /\ (node[p].java = "held" => node[p].handle)
  BY <1>1, <1>2 DEF CreationAt
<1>4. node'[n].parent = p /\ node'[n].core = "none"
  BY <1>1, <1>3 DEF Steady
<1>5. Steady(node[p], node'[p]) /\ (p # r => RunsOn(node[p], node'[p]))
  BY <1>3 DEF Calm
<1>6. CASE p = node[n].creator
  <2>1. p # r
    <3> SUFFICES ASSUME p = r PROVE FALSE
      OBVIOUS
    <3>1. Free(r)
      BY <1>3, <1>6
    <3> QED
      BY <1>2, <1>6, <3>1 DEF Free
  <2> HIDE DEF p
  <2>2. node'[p].call = "running" /\ node'[p].java # "absent"
    BY <1>3, <1>5, <1>6, <2>1 DEF RunsOn, Steady
  <2> QED
    BY <1>2, <1>3, <1>4, <1>6, <2>2 DEF CreationAt
<1>7. CASE p # node[n].creator
  <2> HIDE DEF p
  <2>1. /\ node'[p].creator = node[n].creator /\ (node'[p].java = "held" => node'[p].handle)
        /\ node'[p].java # "absent"
    BY <1>3, <1>5, <1>7 DEF Steady
  <2> QED
    BY <1>2, <1>3, <1>4, <1>7, <2>1 DEF CreationAt
<1> QED
  BY <1>6, <1>7

\* A factory that ends or begins leaves the others as they are.
LEMMA OthersKept ==
    ASSUME CreationOk(node), NEW n \in Nodes,
           \A m \in Nodes \ {n} : Steady(node[m], node'[m]) /\ RunsOn(node[m], node'[m]),
           \/ node[n].java = "absent"
           \/ /\ node[n].call = "creating" /\ node'[n].java = "held" /\ node'[n].handle
              /\ node'[n].creator = node[n].creator,
           NEW k \in Nodes, k # n
    PROVE  CreationAt(node', k)
<1> SUFFICES ASSUME node'[k].call = "creating" PROVE CreationAt(node', k)
  BY DEF CreationAt
<1> DEFINE p == node[k].parent
<1>1. Steady(node[k], node'[k]) /\ CreationAt(node, k)
  BY DEF CreationOk
<1>2. node[k].call = "creating" /\ node'[k].creator = node[k].creator
  BY <1>1 DEF Steady
<1>3. /\ p \in Nodes /\ node[p].java # "absent" /\ node[k].core = "none"
      /\ IF p = node[k].creator THEN node[p].call = "running"
         ELSE node[p].creator = node[k].creator /\ (node[p].java = "held" => node[p].handle)
  BY <1>1, <1>2 DEF CreationAt
<1>4. node'[k].parent = p /\ node'[k].core = "none"
  BY <1>1, <1>3 DEF Steady
<1>5. CASE p = n
  <2>1. /\ node[n].call = "creating" /\ node'[n].java = "held" /\ node'[n].handle
        /\ node'[n].creator = node[n].creator
    BY <1>3, <1>5
  <2>2. p # node[k].creator
    BY <1>3, <1>5, <2>1
  <2> HIDE DEF p
  <2> QED
    BY <1>2, <1>3, <1>4, <1>5, <2>1, <2>2 DEF CreationAt
<1>6. CASE p # n
  <2>1. Steady(node[p], node'[p]) /\ RunsOn(node[p], node'[p])
    BY <1>3, <1>6
  <2> HIDE DEF p
  <2>2. /\ node'[p].java # "absent" /\ node'[p].creator = node[p].creator
        /\ node'[p].java = "held" => node[p].java = "held" /\ (node'[p].handle <=> node[p].handle)
        /\ node[p].call = "running" => node'[p].call = "running"
    BY <1>3, <2>1 DEF Steady, RunsOn
  <2> QED
    BY <1>2, <1>3, <1>4, <2>2 DEF CreationAt
<1> QED
  BY <1>5, <1>6

\* A factory that makes a node, or fails at once.
LEMMA MadeKept ==
    ASSUME NodesOk(node), CreationOk(node), NEW n \in Nodes, NEW o, o.call = "none",
           node' = add_child(n, o) \/ node' = [node EXCEPT ![n] = o],
           \/ node[n].java = "absent"
           \/ node[n].call = "creating" /\ o.java = "held" /\ o.handle /\ o.creator = node[n].creator
    PROVE  CreationOk(node')
<1>1. node \in [Nodes -> Object]
  BY DEF NodesOk
<1>2. node'[n] = o
  BY <1>1 DEF add_child
<1>3. ASSUME NEW m \in Nodes \ {n} PROVE Steady(node[m], node'[m]) /\ RunsOn(node[m], node'[m])
  <2>1. node'[m] = node[m] \/ node'[m] = [node[m] EXCEPT !.children = @ \cup {n}]
    BY <1>1 DEF add_child
  <2>2. node[m] \in Object
    BY <1>1
  <2> QED
    BY <2>1, <2>2 DEF Steady, RunsOn, Object
<1>4. CreationAt(node', n)
  BY <1>2 DEF CreationAt
<1>5. ASSUME NEW k \in Nodes, k # n PROVE CreationAt(node', k)
  BY <1>2, <1>3, <1>5, OthersKept
<1> QED
  BY <1>4, <1>5 DEF CreationOk

\* What the factories make is in no call.
LEMMA MadeFields ==
    ASSUME NEW c, NEW p
    PROVE  /\ gempba_create_dummy_node(c).call = "none" /\ gempba_create_seed_node(c).call = "none"
           /\ LET Made(o) == o.call = "none" /\ o.java = "held" /\ o.handle /\ o.creator = c
              IN  /\ Made(gempba_mt_create_explicit_node(c, p))
                  /\ Made(gempba_mp_create_explicit_node(c, p))
                  /\ Made(gempba_mt_create_lazy_node(c, p))
BY DEF Absent, gempba_create_dummy_node, gempba_create_seed_node, gempba_mt_create_explicit_node,
       gempba_mp_create_explicit_node, gempba_mt_create_lazy_node, LAZY, new_user_data

\* The factories that end.
LEMMA CreateKept ==
    ASSUME NodesOk(node), CreationOk(node), NEW n \in Nodes,
           \/ CreateDummy(n) \/ CreateSeed(n) \/ CreateRefused(n) \/ NoGlobalRef(n)
           \/ CreateExplicit(n) \/ CreateSerializable(n) \/ CreateLazy(n)
    PROVE  CreationOk(node')
<1>1. CASE CreateDummy(n) \/ CreateSeed(n)
  <2>1. PICK c : \/ node' = add_child(n, gempba_create_dummy_node(c))
                 \/ node' = add_child(n, gempba_create_seed_node(c))
    BY <1>1 DEF CreateDummy, CreateSeed
  <2>2. node[n].java = "absent"
    BY <1>1 DEF CreateDummy, CreateSeed, IsNext
  <2> QED
    BY <2>1, <2>2, MadeKept, MadeFields
<1>2. CASE CreateRefused(n) \/ NoGlobalRef(n)
  <2>1. PICK c : \/ node' = [node EXCEPT ![n] = Refused(c)]
                 \/ node' = [node EXCEPT ![n] = [Absent EXCEPT !.java = "held", !.creator = c]]
    BY <1>2 DEF CreateRefused, NoGlobalRef
  <2>2. node[n].java = "absent"
    BY <1>2 DEF CreateRefused, NoGlobalRef, IsNext
  <2>3. [Absent EXCEPT !.java = "held", !.creator = c].call = "none"
    BY DEF Absent
  <2>4. CASE node' = [node EXCEPT ![n] = Refused(c)]
    <3> DEFINE o == Refused(c)
    <3>1. o.call = "none" /\ node' = [node EXCEPT ![n] = o]
      BY <2>4 DEF Refused, java_user_data_release, new_user_data, Absent
    <3> HIDE DEF o
    <3> QED
      BY <2>2, <3>1, MadeKept
  <2>5. CASE node' = [node EXCEPT ![n] = [Absent EXCEPT !.java = "held", !.creator = c]]
    <3> DEFINE o == [Absent EXCEPT !.java = "held", !.creator = c]
    <3>1. o.call = "none" /\ node' = [node EXCEPT ![n] = o]
      BY <2>3, <2>5
    <3> HIDE DEF o
    <3> QED
      BY <2>2, <3>1, MadeKept
  <2> QED
    BY <2>1, <2>4, <2>5
<1>3. CASE CreateExplicit(n) \/ CreateSerializable(n) \/ CreateLazy(n)
  <2> DEFINE c == node[n].creator
             p == node[n].parent
  <2>1. node[n].call = "creating"
    BY <1>3 DEF CreateExplicit, CreateSerializable, CreateLazy, Creating
  <2>2. \/ node' = add_child(n, gempba_mt_create_explicit_node(c, p))
        \/ node' = add_child(n, gempba_mp_create_explicit_node(c, p))
        \/ node' = add_child(n, gempba_mt_create_lazy_node(c, p))
    BY <1>3 DEF CreateExplicit, CreateSerializable, CreateLazy
  <2>3. c = node[n].creator
    OBVIOUS
  <2> HIDE DEF c, p
  <2> QED
    BY <2>1, <2>2, <2>3, MadeKept, MadeFields
<1> QED
  BY <1>1, <1>2, <1>3

\* A factory that has read the handle of its parent: the parent is held, or the context.
LEMMA ReadParentKept ==
    ASSUME NodesOk(node), CreationOk(node), NEW n \in Nodes, ReadParent(n)
    PROVE  CreationOk(node')
<1>1. PICK c \in Creators : \E p \in Parents(c) :
        /\ node[p].handle
        /\ node' = [node EXCEPT ![n] = [Absent EXCEPT !.java = "held", !.creator = c,
                                                      !.call = "creating", !.parent = p]]
  BY DEF ReadParent
<1>2. PICK p \in Parents(c) :
        /\ node[p].handle
        /\ node' = [node EXCEPT ![n] = [Absent EXCEPT !.java = "held", !.creator = c,
                                                      !.call = "creating", !.parent = p]]
  BY <1>1
<1> DEFINE d == [Absent EXCEPT !.java = "held", !.creator = c, !.call = "creating", !.parent = p]
<1>3. node[n].java = "absent" /\ node \in [Nodes -> Object]
  BY DEF ReadParent, IsNext, NodesOk
<1>4. d.creator = c /\ d.parent = p /\ d.core = "none"
  BY DEF Absent
<1>5. node' = [node EXCEPT ![n] = d]
  BY <1>2
<1> HIDE DEF d
<1>6. /\ p \in Nodes
      /\ \/ node[p].java = "held" /\ node[p].creator = c
         \/ p = c /\ node[p].call = "running"
  BY DEF Parents, Context
<1>7. Intact(p, node[p])
  BY <1>6 DEF NodesOk, ObjectOk
<1>8. node[p].java # "absent" /\ node[p].creator # p
  BY <1>6, <1>7 DEF Intact
<1>9. p # n /\ node'[p] = node[p] /\ node'[n] = d
  BY <1>3, <1>5, <1>6, <1>8
<1>10. IF p = c THEN node[p].call = "running"
       ELSE node[p].creator = c /\ (node[p].java = "held" => node[p].handle)
  BY <1>2, <1>6, <1>8
<1>11. CreationAt(node', n)
  BY <1>4, <1>6, <1>8, <1>9, <1>10 DEF CreationAt
<1>12. ASSUME NEW m \in Nodes \ {n} PROVE Steady(node[m], node'[m]) /\ RunsOn(node[m], node'[m])
  BY <1>3, <1>5 DEF Steady, RunsOn
<1>13. ASSUME NEW k \in Nodes, k # n PROVE CreationAt(node', k)
  BY <1>3, <1>12, <1>13, OthersKept
<1> QED
  BY <1>11, <1>13 DEF CreationOk

\* Cores are destroyed.
LEMMA SettledCalm ==
    ASSUME NEW nd \in [Nodes -> Object], NEW r, Calm(nd, r)
    PROVE  Calm(Settled(nd), r)
<1> SUFFICES ASSUME NEW m \in Nodes
             PROVE  /\ Steady(node[m], Settled(nd)[m])
                    /\ m # r => RunsOn(node[m], Settled(nd)[m])
  BY DEF Calm
<1> DEFINE a == node[m]
           o == nd[m]
           d == Destroyed(nd[m])
<1>1. Settled(nd)[m] = o \/ (Settled(nd)[m] = d /\ o.core = "alive")
  BY DEF Settled
<1>2. o \in Object /\ Steady(a, o) /\ (m # r => RunsOn(a, o))
  BY DEF Calm
<1>3. d.creator = o.creator /\ d.java = o.java /\ d.handle = o.handle /\ d.call = o.call
  BY <1>2 DEF Destroyed, java_user_data_release, Object
<1> HIDE DEF a, o, d
<1>4. o.core = "alive" => Steady(a, d) /\ (m # r => RunsOn(a, d))
  <2>1. o.core = "alive" => Steady(a, d)
    <3> SUFFICES ASSUME o.core = "alive" PROVE Steady(a, d)
      OBVIOUS
    <3>1. o.call = "creating" => a.call = "creating" /\ a.core # "none"
      BY <1>2 DEF Steady
    <3> QED
      BY <1>2, <1>3, <3>1 DEF Steady
  <2> QED
    BY <1>2, <1>3, <2>1 DEF RunsOn
<1>5. Steady(a, Settled(nd)[m]) /\ (m # r => RunsOn(a, Settled(nd)[m]))
  BY <1>1, <1>2, <1>4
<1> QED
  BY <1>5 DEF a

\* Nothing has changed.
LEMMA CalmNow == \A r : Calm(node, r)
BY DEF Calm, Steady, RunsOn

\* One object in the place of its kin.
LEMMA PutCalm ==
    ASSUME NEW nd \in [Nodes -> Object], NEW r, Calm(nd, r), NEW n \in Nodes, NEW o, Kin(nd[n], o)
    PROVE  Calm([nd EXCEPT ![n] = o], r)
<1> SUFFICES ASSUME NEW m \in Nodes
             PROVE  /\ Steady(node[m], [nd EXCEPT ![n] = o][m])
                    /\ m # r => RunsOn(node[m], [nd EXCEPT ![n] = o][m])
  BY DEF Calm
<1>1. Steady(node[m], nd[m]) /\ (m # r => RunsOn(node[m], nd[m]))
  BY DEF Calm
<1>2. CASE m # n
  BY <1>1, <1>2
<1>3. CASE m = n
  <2>1. [nd EXCEPT ![n] = o][m] = o
    BY <1>3
  <2>2. Steady(node[m], o) /\ (m # r => RunsOn(node[m], o))
    BY <1>1, <1>3 DEF Kin, Steady, RunsOn
  <2> QED
    BY <2>1, <2>2
<1> QED
  BY <1>2, <1>3

\* A node is pruned that no factory is making.
LEMMA PrunedCalm ==
    ASSUME NEW nd \in [Nodes -> Object], NEW n \in Nodes, Calm(nd, n), nd[n].call # "creating"
    PROVE  Calm(Pruned(nd, n), n) /\ Pruned(nd, n) \in [Nodes -> Object]
<1>1. ASSUME NEW m \in Nodes
      PROVE  /\ Pruned(nd, n)[m] \in Object
             /\ Steady(node[m], Pruned(nd, n)[m])
             /\ m # n => RunsOn(node[m], Pruned(nd, n)[m])
  <2> DEFINE c == IF m = n THEN {} ELSE IF m = nd[n].parent THEN nd[m].children \ {n} ELSE nd[m].children
             p == IF m = n THEN None ELSE nd[m].parent
             o == nd[m]
             d == [o EXCEPT !.children = c, !.parent = p]
  <2>1. o \in Object /\ Steady(node[m], o) /\ (m # n => RunsOn(node[m], o))
    BY DEF Calm
  <2>2. c \in SUBSET Nodes /\ p \in Nodes \cup {None} /\ (m # n => p = o.parent)
    BY <2>1, ObjectFields
  <2>3. Pruned(nd, n)[m] = d
    BY DEF Pruned
  <2>4. m = n => o.call # "creating"
    OBVIOUS
  <2> HIDE DEF c, p, o
  <2>5. /\ d \in Object /\ d.creator = o.creator /\ d.java = o.java /\ d.handle = o.handle
        /\ d.call = o.call /\ d.core = o.core /\ d.parent = p
    BY <2>1, <2>2 DEF Object
  <2> HIDE DEF d
  <2>6. Steady(node[m], d) /\ (m # n => RunsOn(node[m], d))
    BY <2>1, <2>2, <2>4, <2>5 DEF Steady, RunsOn
  <2> QED
    BY <2>3, <2>5, <2>6
<1>2. Pruned(nd, n) = [m \in Nodes |-> Pruned(nd, n)[m]]
  BY DEF Pruned
<1>3. Pruned(nd, n) \in [Nodes -> Object]
  <2> HIDE DEF Pruned
  <2> QED
    BY <1>1, <1>2
<1> QED
  BY <1>1, <1>3 DEF Calm

\* The call of a node goes on.
LEMMA GoOnCalm ==
    ASSUME NEW nd \in [Nodes -> Object], NEW n \in Nodes, Calm(nd, n), NEW place \in Call,
           place # "creating", GoOn(nd, n, place)
    PROVE  Calm(node', n)
<1> DEFINE o == nd[n]
           d == [o EXCEPT !.call = place]
           new == [nd EXCEPT ![n] = d]
<1>1. node' = Settled(new)
  BY DEF GoOn
<1>2. o \in Object /\ Steady(node[n], o)
  BY DEF Calm
<1> HIDE DEF o
<1>3. /\ d \in Object /\ d.creator = o.creator /\ d.java = o.java /\ d.handle = o.handle
      /\ d.call = place
  BY <1>2 DEF Object
<1> HIDE DEF d
<1>4. Steady(node[n], d)
  BY <1>2, <1>3 DEF Steady
<1>5. new \in [Nodes -> Object]
  BY <1>3
<1>6. Calm(new, n)
  BY <1>4 DEF Calm
<1> HIDE DEF new
<1> QED
  BY <1>1, <1>5, <1>6, SettledCalm

\* Kin of kin.
LEMMA KinTwice == ASSUME NEW a, NEW b, NEW c, Kin(a, b), Kin(b, c) PROVE Kin(a, c)
BY DEF Kin

\* Changes of an object that keep its kin.
LEMMA KinSteps ==
    ASSUME NEW o \in Object, NEW st \in node_state, NEW t \in {"none", "queued", "running", "ran"},
           NEW b \in BOOLEAN
    PROVE  /\ LET d == [o EXCEPT !.state = st] IN d \in Object /\ Kin(o, d)
           /\ LET d == [o EXCEPT !.task = t] IN d \in Object /\ Kin(o, d)
           /\ LET d == [o EXCEPT !.state = st, !.task = t] IN d \in Object /\ Kin(o, d)
           /\ LET d == CalledBack(o, b) IN d \in Object /\ Kin(o, d)
           /\ Kin(o, Gated(o, b))
<1>1. LET d == [o EXCEPT !.state = st] IN d \in Object /\ Kin(o, d)
  BY DEF Object, Kin
<1>2. LET d == [o EXCEPT !.task = t] IN d \in Object /\ Kin(o, d)
  BY DEF Object, Kin
<1>3. LET d == [o EXCEPT !.state = st, !.task = t] IN d \in Object /\ Kin(o, d)
  <2> DEFINE e == [o EXCEPT !.state = st]
             d == [e EXCEPT !.task = t]
  <2>1. e \in Object /\ Kin(o, e)
    BY <1>1
  <2>2. d = [o EXCEPT !.state = st, !.task = t]
    BY DEF Object
  <2> HIDE DEF e
  <2>3. d \in Object /\ Kin(e, d)
    BY <2>1 DEF Object, Kin
  <2> HIDE DEF d
  <2>4. Kin(o, d)
    BY <2>1, <2>3, KinTwice
  <2> QED
    BY <2>2, <2>3, <2>4
<1>4. LET d == CalledBack(o, b) IN d \in Object /\ Kin(o, d)
  BY DEF Object, Kin, CalledBack
<1>5. Kin(o, Gated(o, b))
  BY DEF Object, Kin, Gated
<1> QED
  BY <1>1, <1>2, <1>3, <1>4, <1>5

\* The steps of a native call, and of the pool.  A callback that returns is in no factory.
LEMMA SendCalm ==
    ASSUME NodesOk(node), NEW n \in Nodes, NEW st \in node_state,
           NEW task \in {"none", "queued", "running", "ran"}, Send(n, st, task),
           node[n].call # "creating"
    PROVE  Calm(node', n)
<1>0. node \in [Nodes -> Object] /\ "leaving" \in Call /\ "DISCARDED" \in node_state
  BY DEF NodesOk, Call, node_state
<1>1. CASE GoOn(node, n, "leaving")
  BY <1>0, <1>1, CalmNow, GoOnCalm
<1>2. CASE ~GoOn(node, n, "leaving")
  <2> DEFINE nd == Pruned(node, n)
  <2>1. PICK w \in Worthy(node[n]) :
          LET o == Gated(nd[n], w)
              sent == IF w THEN [o EXCEPT !.state = st, !.task = task] ELSE [o EXCEPT !.state = "DISCARDED"]
          IN  GoOn([nd EXCEPT ![n] = sent], n, "leaving")
    BY <1>2 DEF Send
  <2> DEFINE o == Gated(nd[n], w)
             sent == IF w THEN [o EXCEPT !.state = st, !.task = task] ELSE [o EXCEPT !.state = "DISCARDED"]
  <2>2. GoOn([nd EXCEPT ![n] = sent], n, "leaving")
    BY <2>1
  <2>3. Calm(nd, n) /\ nd \in [Nodes -> Object]
    BY <1>0, CalmNow, PrunedCalm
  <2>4. w \in BOOLEAN
    BY <1>0, <2>1, WorthyBoolean
  <2> HIDE DEF nd
  <2>5. nd[n] \in Object
    BY <2>3
  <2>6. o \in Object /\ Kin(nd[n], o)
    BY <1>0, <2>4, <2>5, GatedObject, KinSteps
  <2> HIDE DEF o
  <2>7. sent \in Object /\ Kin(o, sent)
    BY <1>0, <2>6, KinSteps
  <2> HIDE DEF sent
  <2>8. Kin(nd[n], sent)
    BY <2>6, <2>7, KinTwice
  <2>9. Calm([nd EXCEPT ![n] = sent], n) /\ [nd EXCEPT ![n] = sent] \in [Nodes -> Object]
    BY <2>3, <2>7, <2>8, PutCalm
  <2> QED
    BY <1>0, <2>2, <2>9, GoOnCalm
<1> QED
  BY <1>1, <1>2

\* One object of the acting node is changed, then its call goes on.
LEMMA KinCalm ==
    ASSUME NodesOk(node), NEW n \in Nodes, NEW o \in Object, Kin(node[n], o)
    PROVE  /\ [node EXCEPT ![n] = o] \in [Nodes -> Object]
           /\ \A r : Calm([node EXCEPT ![n] = o], r)
           /\ \A place \in Call \ {"creating"} : GoOn([node EXCEPT ![n] = o], n, place) => Calm(node', n)
<1>1. node \in [Nodes -> Object]
  BY DEF NodesOk
<1>2. [node EXCEPT ![n] = o] \in [Nodes -> Object]
  BY <1>1
<1>3. ASSUME NEW r PROVE Calm([node EXCEPT ![n] = o], r)
  BY <1>1, CalmNow, PutCalm
<1> QED
  BY <1>2, <1>3, GoOnCalm

\* forward, and what follows the callback.
LEMMA ForwardCalm ==
    ASSUME NodesOk(node), NEW n \in Nodes, Run(n) \/ Skip(n) \/ Return(n) \/ RunEnds(n)
    PROVE  Calm(node', n)
<1>0. /\ node \in [Nodes -> Object] /\ node[n] \in Object
      /\ {"leaving", "running", "returned"} \subseteq Call \ {"creating"} /\ "FORWARDED" \in node_state
      /\ "none" \in {"none", "queued", "running", "ran"} /\ TRUE \in BOOLEAN /\ FALSE \in BOOLEAN
  BY DEF NodesOk, Call, node_state
<1>1. CASE Run(n)
  <2> DEFINE o == Gated(node[n], TRUE)
  <2>1. GoOn([node EXCEPT ![n] = o], n, "running") \/ GoOn([node EXCEPT ![n] = o], n, "leaving")
    BY <1>1 DEF Run
  <2>2. o \in Object /\ Kin(node[n], o)
    BY <1>0, GatedObject, KinSteps
  <2> HIDE DEF o
  <2> QED
    BY <1>0, <2>1, <2>2, KinCalm
<1>2. CASE Skip(n)
  <2> DEFINE o == Gated(node[n], FALSE)
             nd == [node EXCEPT ![n] = o]
  <2>1. /\ GoOn(Pruned(node, n), n, "leaving") \/ GoOn(Pruned(nd, n), n, "leaving")
        /\ node[n].call = "forward"
    BY <1>2 DEF Skip
  <2>2. o \in Object /\ Kin(node[n], o)
    BY <1>0, GatedObject, KinSteps
  <2> HIDE DEF o
  <2>3. nd \in [Nodes -> Object] /\ Calm(nd, n) /\ nd[n].call = "forward"
    BY <1>0, <2>1, <2>2, KinCalm DEF Kin
  <2> HIDE DEF nd
  <2>4. Calm(Pruned(nd, n), n) /\ Pruned(nd, n) \in [Nodes -> Object]
    BY <2>3, PrunedCalm
  <2>5. Calm(Pruned(node, n), n) /\ Pruned(node, n) \in [Nodes -> Object]
    BY <1>0, <2>1, PrunedCalm, CalmNow
  <2> QED
    BY <1>0, <2>1, <2>4, <2>5, GoOnCalm
<1>3. CASE Return(n)
  <2>1. PICK ok \in BOOLEAN : GoOn([node EXCEPT ![n] = CalledBack(node[n], ok)], n, "returned")
    BY <1>3 DEF Return
  <2> DEFINE o == CalledBack(node[n], ok)
  <2>2. o \in Object /\ Kin(node[n], o)
    BY <1>0, KinSteps
  <2>3. GoOn([node EXCEPT ![n] = o], n, "returned")
    BY <2>1
  <2> HIDE DEF o
  <2> QED
    BY <1>0, <2>2, <2>3, KinCalm
<1>4. CASE RunEnds(n)
  <2> DEFINE o == [node[n] EXCEPT !.state = "FORWARDED"]
             nd == [node EXCEPT ![n] = o]
  <2>1. /\ GoOn(Pruned(nd, n), n, "leaving") \/ GoOn(node, n, "leaving")
        /\ node[n].call = "returned"
    BY <1>0, <1>4 DEF RunEnds
  <2>2. o \in Object /\ Kin(node[n], o)
    BY <1>0, KinSteps
  <2> HIDE DEF o
  <2>3. nd \in [Nodes -> Object] /\ Calm(nd, n) /\ nd[n].call = "returned"
    BY <1>0, <2>1, <2>2, KinCalm DEF Kin
  <2> HIDE DEF nd
  <2>4. Calm(Pruned(nd, n), n) /\ Pruned(nd, n) \in [Nodes -> Object]
    BY <2>3, PrunedCalm
  <2> QED
    BY <1>0, <2>1, <2>4, GoOnCalm, CalmNow
<1> QED
  BY <1>1, <1>2, <1>3, <1>4

\* The pool's steps stop no call.
LEMMA PoolCalm ==
    ASSUME NodesOk(node), NEW n \in Nodes, Take(n) \/ TaskReturns(n) \/ TaskGone(n)
    PROVE  Calm(node', None)
<1>0. node \in [Nodes -> Object] /\ node[n] \in Object /\ "UNUSED" \in node_state
  BY DEF NodesOk, node_state
<1>1. ASSUME NEW o \in Object, Kin(node[n], o), node' = Settled([node EXCEPT ![n] = o])
      PROVE  Calm(node', None)
  <2>1. Calm([node EXCEPT ![n] = o], None) /\ [node EXCEPT ![n] = o] \in [Nodes -> Object]
    BY <1>1, KinCalm
  <2>2. Calm(Settled([node EXCEPT ![n] = o]), None)
    BY <2>1, SettledCalm
  <2> QED
    BY <1>1, <2>2
<1>2. CASE Take(n) \/ TaskGone(n)
  <2>1. PICK t \in {"none", "queued", "running", "ran"} :
          node' = Settled([node EXCEPT ![n] = [node[n] EXCEPT !.task = t]])
    <3>1. CASE Take(n)
      <4> DEFINE t == IF node[n].ref THEN "running" ELSE "ran"
      <4>1. node' = Settled([node EXCEPT ![n] = [node[n] EXCEPT !.task = t]])
        BY <3>1 DEF Take, Task
      <4>2. t \in {"none", "queued", "running", "ran"}
        OBVIOUS
      <4> HIDE DEF t
      <4> QED
        BY <4>1, <4>2
    <3>2. CASE TaskGone(n)
      BY <3>2 DEF TaskGone, Task
    <3> QED
      BY <1>2, <3>1, <3>2
  <2> DEFINE o == [node[n] EXCEPT !.task = t]
  <2>2. o \in Object /\ Kin(node[n], o)
    BY <1>0, KinSteps
  <2>3. node' = Settled([node EXCEPT ![n] = o])
    BY <2>1
  <2> HIDE DEF o
  <2> QED
    BY <1>1, <2>2, <2>3
<1>3. CASE TaskReturns(n)
  <2>1. PICK ok \in BOOLEAN : node' = Settled([node EXCEPT ![n] = [CalledBack(node[n], ok) EXCEPT !.task = "ran"]])
    BY <1>3 DEF TaskReturns, Task
  <2> DEFINE e == CalledBack(node[n], ok)
             o == [e EXCEPT !.task = "ran"]
  <2>2. e \in Object /\ Kin(node[n], e)
    BY <1>0, KinSteps
  <2>3. node' = Settled([node EXCEPT ![n] = o])
    BY <2>1
  <2> HIDE DEF e
  <2>4. o \in Object /\ Kin(e, o)
    BY <1>0, <2>2, KinSteps
  <2> HIDE DEF o
  <2>5. Kin(node[n], o)
    BY <2>2, <2>4, KinTwice
  <2> QED
    BY <1>1, <2>3, <2>4, <2>5
<1> QED
  BY <1>2, <1>3

\* All native steps.
LEMMA NativeKept ==
    ASSUME NodesOk(node), CreationOk(node), NEW n \in Nodes, Native(n)
    PROVE  CreationOk(node')
<1>0. /\ node \in [Nodes -> Object] /\ node[n] \in Object
      /\ {"leaving", "none", "local", "forward", "remote"} \subseteq Call \ {"creating"}
      /\ node[n].task \in {"none", "queued", "running", "ran"}
      /\ {"PUSHED", "SENT_TO_ANOTHER_PROCESS"} \subseteq node_state
  BY DEF NodesOk, Object, Call, node_state
<1>1. ASSUME Calm(node', n), node[n].call # "running" \/ Free(n) PROVE CreationOk(node')
  BY <1>1, CreationKept
<1>2. CASE \/ gempba_nm_try_local_submit(n) \/ gempba_nm_forward(n) \/ gempba_nm_try_remote_submit(n)
           \/ Leave(n) \/ NoScheduler(n) \/ ChannelClosed(n) \/ PoolFull(n)
  <2>1. /\ \E place \in {"leaving", "none", "local", "forward", "remote"} : GoOn(node, n, place)
        /\ node[n].call # "running"
    BY <1>2 DEF gempba_nm_try_local_submit, gempba_nm_forward, gempba_nm_try_remote_submit, Enter,
                Leave, NoScheduler, ChannelClosed, PoolFull
  <2>2. Calm(node, n)
    BY CalmNow
  <2>3. Calm(node', n)
    BY <1>0, <2>1, <2>2, GoOnCalm
  <2> QED
    BY <1>1, <2>1, <2>3
<1>3. CASE SendRemotely(n)
  <2>1. node[n].call = "remote" /\ Send(n, "SENT_TO_ANOTHER_PROCESS", node[n].task)
    BY <1>3 DEF SendRemotely
  <2>2. Calm(node', n)
    BY <1>0, <2>1, SendCalm
  <2> QED
    BY <1>1, <2>1, <2>2
<1>4. CASE SendLocally(n)
  <2>1. node[n].call = "local" /\ Send(n, "PUSHED", "queued")
    BY <1>4 DEF SendLocally
  <2>2. Calm(node', n)
    BY <1>0, <2>1, SendCalm
  <2> QED
    BY <1>1, <2>1, <2>2
<1>5. CASE Run(n) \/ Skip(n) \/ Return(n) \/ RunEnds(n)
  <2>1. node[n].call # "running" \/ Free(n)
    BY <1>5 DEF Run, Skip, Return, RunEnds
  <2> QED
    BY <1>1, <1>5, <2>1, ForwardCalm
<1>6. CASE gempba_node_get_result(n)
  <2> DEFINE st == IF node[n].state = "PUSHED" /\ node[n].fate # "ran" THEN node[n].state ELSE "RETRIEVED"
             o == [node[n] EXCEPT !.state = st]
  <2>1. GoOn([node EXCEPT ![n] = o], n, "none") /\ node[n].call = "result"
    BY <1>6 DEF gempba_node_get_result, get_any_result
  <2>2. st \in node_state
    BY <1>0, ObjectFields DEF node_state
  <2> HIDE DEF st
  <2>3. o \in Object /\ Kin(node[n], o)
    BY <1>0, <2>2, KinSteps
  <2> HIDE DEF o
  <2>4. Calm(node', n)
    BY <1>0, <2>1, <2>3, KinCalm
  <2> QED
    BY <1>1, <2>1, <2>4
<1>7. CASE Take(n) \/ TaskReturns(n) \/ TaskGone(n)
  <2>1. Calm(node', None) /\ None \notin Nodes
    BY <1>7, PoolCalm, NodeNumbers
  <2> QED
    BY <2>1, CreationKept
<1> QED
  BY <1>2, <1>3, <1>4, <1>5, <1>6, <1>7, CreateKept DEF Native

\* All steps of Java code and of the collector.
LEMMA JavaKept ==
    ASSUME NodesOk(node), CreationOk(node), NEW n \in Nodes, Java(n)
    PROVE  CreationOk(node')
<1>0. node \in [Nodes -> Object] /\ node[n] \in Object
  BY DEF NodesOk
<1>1. ASSUME NEW o \in Object, Steady(node[n], o), node[n].call # "running",
             node' = [node EXCEPT ![n] = o] \/ node' = Settled([node EXCEPT ![n] = o])
      PROVE  CreationOk(node')
  <2> DEFINE nd == [node EXCEPT ![n] = o]
  <2>1. Calm(nd, n) /\ nd \in [Nodes -> Object]
    <3>1. \A m \in Nodes : Steady(node[m], node[m]) /\ RunsOn(node[m], node[m])
      BY DEF Steady, RunsOn
    <3> QED
      BY <1>0, <1>1, <3>1 DEF Calm
  <2>2. Calm(Settled(nd), n)
    BY <2>1, SettledCalm
  <2> HIDE DEF nd
  <2>3. Calm(node', n)
    BY <1>1, <2>1, <2>2 DEF nd
  <2> QED
    BY <1>1, <2>3, CreationKept
<1>2. CASE tryLocalSubmit(n) \/ forward(n) \/ tryRemoteSubmit(n) \/ getResult(n)
  <2>1. PICK place \in {"called", "result"}, how \in {"local", "forward", "remote"},
             lasts \in SUBSET BOOLEAN :
          Uses(n, place, how, lasts)
    BY <1>2 DEF tryLocalSubmit, forward, tryRemoteSubmit, getResult
  <2>2. node[n].call = "none" /\ node[n].java = "held"
    BY <2>1, FreeCalls DEF Uses
  <2>3. PICK last : node' = [node EXCEPT ![n] = Used(node[n], place, how, last)]
    BY <2>1, Zenon DEF Uses
  <2> DEFINE o == node[n]
             j == IF last THEN "dropped" ELSE o.java
             k == o.calls + 1
             d == [o EXCEPT !.call = place, !.how = how, !.calls = k, !.java = j]
  <2>4. j \in {"held", "dropped"} /\ k \in Nat /\ place \in Call /\ place # "creating" /\ o \in Object
    BY <1>0, <2>2, ObjectFields DEF Call
  <2>5. node' = [node EXCEPT ![n] = d]
    BY <2>3 DEF Used
  <2>6. o.java = "held" /\ o.call = "none" /\ node[n] = o
    BY <2>2
  <2> HIDE DEF o, j, k
  <2>7. /\ d \in Object /\ d.creator = o.creator /\ d.java = j /\ d.handle = o.handle /\ d.call = place
    BY <2>4 DEF Object
  <2> HIDE DEF d
  <2>8. Steady(o, d)
    BY <2>4, <2>6, <2>7 DEF Steady
  <2> QED
    BY <1>1, <2>5, <2>6, <2>7, <2>8
<1>3. CASE Drop(n)
  <2> DEFINE o == node[n]
             d == [o EXCEPT !.java = "dropped"]
  <2>1. node' = [node EXCEPT ![n] = d] /\ o.call = "none" /\ o \in Object /\ node[n] = o
    BY <1>0, <1>3 DEF Drop
  <2> HIDE DEF o
  <2>2. /\ d \in Object /\ d.creator = o.creator /\ d.java = "dropped" /\ d.call = "none"
    BY <2>1 DEF Object
  <2> HIDE DEF d
  <2>3. Steady(o, d)
    BY <2>1, <2>2 DEF Steady
  <2> QED
    BY <1>1, <2>1, <2>2, <2>3
<1>4. CASE Close(n) \/ Collect(n)
  <2> DEFINE o == node[n]
             d == [gempba_node_destroy(o) EXCEPT !.java = "dropped", !.handle = FALSE]
  <2>1. node' = Settled([node EXCEPT ![n] = d]) /\ o \in Object /\ node[n] = o
    BY <1>0, <1>4 DEF Close, Collect, Cleaned
  <2>2. o.call # "running"
    BY <1>4, FreeCalls DEF Close, Collect, Collectable, Reachable, Fenced
  <2> HIDE DEF o
  <2> DEFINE e == gempba_node_destroy(o)
  <2>0. /\ e \in Object /\ e.creator = o.creator /\ e.call = o.call
        /\ e.core = o.core /\ e.parent = o.parent
    BY <2>1 DEF gempba_node_destroy, Object
  <2> HIDE DEF e
  <2>3. /\ d \in Object /\ d.creator = o.creator /\ d.java = "dropped" /\ d.call = o.call
        /\ d.core = o.core /\ d.parent = o.parent
    <3>1. d = [e EXCEPT !.java = "dropped", !.handle = FALSE]
      BY DEF e
    <3> HIDE DEF d
    <3> QED
      BY <2>0, <3>1 DEF Object
  <2> HIDE DEF d
  <2>4. Steady(o, d)
    BY <2>3 DEF Steady
  <2> QED
    BY <1>1, <2>1, <2>2, <2>3, <2>4
<1> QED
  BY <1>2, <1>3, <1>4, CreateKept, ReadParentKept DEF Java

\* The variables of a serial task that returns go.
LEMMA SerialKept ==
    ASSUME NodesOk(node), CreationOk(node), SerialReturns
    PROVE  CreationOk(node')
<1>1. ASSUME NEW m \in Nodes PROVE Steady(node[m], node'[m]) /\ RunsOn(node[m], node'[m])
  <2>1. node'[m] = node[m] \/ node'[m] = [node[m] EXCEPT !.java = "dropped"]
    BY DEF SerialReturns
  <2>2. node[m] \in Object
    BY DEF NodesOk
  <2> QED
    BY <2>1, <2>2 DEF Steady, RunsOn, Object
<1>2. Calm(node', None)
  BY <1>1 DEF Calm
<1> QED
  BY <1>2, CreationKept, NodeNumbers

-----------------------------------------------------------------------------
(* Scores *)

\* The numbers of patterns.
LEMMA PatternsAre ==
    ASSUME NEW k \in score_type
    PROVE  /\ Patterns(k) \in Nat /\ Patterns(k) \div 2 \in Nat /\ Patterns(k) \div 2 >= 3
           /\ Patterns(k) = 2 * (Patterns(k) \div 2)
<1>1. ASSUME NEW p \in Nat, p >= 6, p % 2 = 0 PROVE p \div 2 \in Nat /\ p \div 2 >= 3 /\ p = 2 * (p \div 2)
  BY <1>1
<1>2. Half \in Nat /\ Half >= 6 /\ Half % 2 = 0 /\ Full \in Nat /\ Full >= 6 /\ Full % 2 = 0
  BY WidthAssumption
<1>3. Patterns(k) \in {Half, Full}
  BY DEF Patterns
<1>4. Patterns(k) \in Nat /\ Patterns(k) >= 6 /\ Patterns(k) % 2 = 0
  BY <1>2, <1>3
<1> HIDE DEF Patterns
<1> QED
  BY <1>1, <1>4

\* What a score is.
LEMMA ScoreParts ==
    ASSUME NEW s \in score
    PROVE  s.kind \in score_type /\ s.payload \in 0 .. Patterns(s.kind) - 1
           /\ s = [kind |-> s.kind, payload |-> s.payload]
<1>1. PICK k \in score_type : s \in [kind : {k}, payload : 0 .. Patterns(k) - 1]
  BY DEF score
<1> HIDE DEF Patterns
<1>2. s.kind = k /\ s.payload \in 0 .. Patterns(k) - 1 /\ s = [kind |-> s.kind, payload |-> s.payload]
  BY <1>1
<1> QED
  BY <1>2

\* What makes a score.
LEMMA ScoreOf ==
    ASSUME NEW k \in score_type, NEW x \in 0 .. Patterns(k) - 1
    PROVE  [kind |-> k, payload |-> x] \in score
<1>1. [kind |-> k, payload |-> x] \in [kind : {k}, payload : 0 .. Patterns(k) - 1]
  OBVIOUS
<1> QED
  BY <1>1 DEF score

\* The bits of a number fit its type.
LEMMA BitsFit ==
    ASSUME NEW k \in score_type, NEW v \in Int,
           k \in Integral \/ (- (Patterns(k) \div 2) < v /\ v < Patterns(k) \div 2)
    PROVE  bits(k, v) \in 0 .. Patterns(k) - 1
<1> DEFINE p == Patterns(k)
           h == Patterns(k) \div 2
<1>1. p \in Nat /\ h \in Nat /\ h >= 3 /\ p = 2 * h
  BY PatternsAre
<1>2. bits(k, v) = IF k \in Integral THEN v % p ELSE IF v < 0 THEN h - v ELSE v
  BY DEF bits
<1>3. k \in Integral \/ (- h < v /\ v < h)
  OBVIOUS
<1> HIDE DEF p, h
<1>4. v % p \in 0 .. p - 1
  BY <1>1
<1>5. bits(k, v) \in 0 .. p - 1
  BY <1>1, <1>2, <1>3, <1>4
<1> QED
  BY <1>5 DEF p

\* A score that is made is a score.
LEMMA MakeScore ==
    ASSUME NEW k \in score_type, NEW v \in Int,
           k \in Integral \/ (- (Patterns(k) \div 2) < v /\ v < Patterns(k) \div 2)
    PROVE  make(k, v) \in score /\ make(k, v).kind = k /\ Score_make(k, v) = make(k, v)
<1>1. make(k, v) \in score
  BY BitsFit, ScoreOf DEF make
<1> QED
  BY <1>1 DEF make, Score_make

\* The bits of a score cross the boundary unchanged, both ways.
LEMMA RawSame ==
    ASSUME NEW s \in score
    PROVE  /\ from_raw(s.kind, s.payload) = s
           /\ getValue(s.kind, s.payload) = to_long_double(s)
           /\ getValue(s.kind, to_raw(s)) = to_long_double(s)
<1> DEFINE p == Patterns(s.kind)
           x == s.payload
<1>1. p \in Nat /\ p >= 6 /\ x \in 0 .. p - 1 /\ s = [kind |-> s.kind, payload |-> x]
  BY ScoreParts, PatternsAre
<1>2. x % p = x
  <2> HIDE DEF p, x
  <2> QED
    BY <1>1
<1>3. from_raw(s.kind, s.payload) = s
  BY <1>1, <1>2 DEF from_raw
<1>4. to_raw(s) = x
  BY <1>2 DEF to_raw
<1> QED
  BY <1>1, <1>2, <1>3, <1>4 DEF getValue

\* A score has a value.
LEMMA ValueInt ==
    ASSUME NEW s \in score
    PROVE  to_long_double(s) \in Int /\ magnitude(s) \in Int
<1> DEFINE p == Patterns(s.kind)
           h == p \div 2
           x == s.payload
<1>1. p \in Nat /\ h \in Nat /\ h >= 3 /\ x \in 0 .. p - 1
  BY ScoreParts, PatternsAre
<1>2. magnitude(s) \in Int
  <2>1. magnitude(s) = x % h
    BY DEF magnitude
  <2> HIDE DEF p, h, x
  <2> QED
    BY <1>1, <2>1
<1>3. 2 * (x - p) \in Int /\ 2 * x \in Int
  <2> HIDE DEF p, h, x
  <2> QED
    BY <1>1
<1>4. to_long_double(s) \in {2 * (x - p), 2 * x, - magnitude(s), magnitude(s)}
  BY DEF to_long_double
<1> HIDE DEF p, h, x
<1> QED
  BY <1>2, <1>3, <1>4

\* The default score is a number of the type.
LEMMA DefaultScore ==
    ASSUME NEW g \in {"MAXIMISE", "MINIMISE"}, NEW k \in score_type
    PROVE  /\ get_default_score(g, k) \in score /\ get_default_score(g, k).kind = k
           /\ ~is_nan(get_default_score(g, k))
<1> DEFINE p == Patterns(k)
           h == Patterns(k) \div 2
           d == get_default_score(g, k)
<1>1. p \in Nat /\ h \in Nat /\ h >= 3 /\ p = 2 * h
  BY PatternsAre
<1>2. CASE k \in Integral
  <2>1. d = make(k, - h) \/ d = make(k, h - 1)
    BY <1>2 DEF get_default_score
  <2>2. - h \in Int /\ h - 1 \in Int
    <3> HIDE DEF h, p
    <3> QED
      BY <1>1
  <2> HIDE DEF d, h
  <2>3. d \in score /\ d.kind = k
    BY <1>2, <2>1, <2>2, MakeScore
  <2>4. ~is_nan(d)
    BY <1>2, <2>3 DEF is_nan
  <2> QED
    BY <2>3, <2>4 DEF d
<1>3. CASE k \notin Integral
  <2>1. PICK v \in {1, h - 2} : d = make(k, v)
    BY <1>3 DEF get_default_score
  <2>2. v \in Int /\ - h < v /\ v < h /\ v % h # h - 1 /\ v >= 0
    <3>1. v \in {1, h - 2}
      BY <2>1
    <3> HIDE DEF h, p
    <3> QED
      BY <1>1, <3>1
  <2>3. d \in score /\ d.kind = k
    <3>1. - (Patterns(k) \div 2) < v /\ v < Patterns(k) \div 2 /\ v \in Int
      BY <2>2
    <3> HIDE DEF d, h
    <3> QED
      BY <2>1, <3>1, MakeScore
  <2>4. d.payload = v
    BY <1>3, <2>1, <2>2 DEF make, bits
  <2>5. magnitude(d) = v % h
    BY <2>3, <2>4 DEF magnitude
  <2>6. ~is_nan(d)
    BY <2>2, <2>3, <2>5 DEF is_nan
  <2> QED
    BY <2>3, <2>6
<1> QED
  BY <1>2, <1>3

\* The goal is one of the two.
LEMMA GoalTwo == ASSUME goal \in Goals PROVE goal \in {"MAXIMISE", "MINIMISE"}
BY GoalsAssumption

\* No score is better than itself, a better score is no NaN, and what is not better than a
\* score is not better than one that replaces it.
LEMMA BetterOrder ==
    ASSUME NEW s \in score, NEW old \in score
    PROVE  /\ ~better(s, s)
           /\ better(s, old) => ~is_nan(s)
           /\ \A a \in score : better(s, old) /\ ~better(a, old) => ~better(a, s)
<1>1. \A a \in score : to_long_double(a) \in Int
  BY ValueInt
<1> QED
  BY <1>1 DEF better, should_update_result, less

-----------------------------------------------------------------------------
(* Results *)

\* The places of an update, and what is kept of it.
At == {"idle", "waiting", "bytes", "native", "store", "leave"}
Update == [at : At, left : 0 .. MaxOffers, score : score]

\* The part of the invariant that is about results.
ResultType ==
    /\ update \in [Nodes -> Update]
    /\ lock \in Nodes \cup {None}
    /\ nm_score \in score
    /\ stored \in [found : BOOLEAN, score : score]
    /\ accepted \subseteq score

\* No result before the goal is set.
FreshResult ==
    runtime \notin {"ready", "down"} =>
        accepted = {} /\ ~stored.found /\ \A n \in Nodes : update[n].at = "idle"

ResultInv == ResultType /\ FreshResult /\ UpdateInv /\ ScoreInv

\* The update of n goes on at a place.
LEMMA AtPlace ==
    ASSUME update \in [Nodes -> Update], NEW n \in Nodes, NEW place \in At, UpdateAt(n, place)
    PROVE  /\ update' \in [Nodes -> Update]
           /\ \A m \in Nodes : /\ update'[m].score = update[m].score
                               /\ update'[m].at = IF m = n THEN place ELSE update[m].at
<1>1. update' = [update EXCEPT ![n].at = place]
  BY DEF UpdateAt
<1> QED
  BY <1>1 DEF Update

\* Only the task that holds the lock is in the native part of an update.
LEMMA OneInside ==
    ASSUME UpdateInv, NEW n \in Nodes, update[n].at \in {"native", "store", "leave"} \/ lock = None \/ form = "bytes"
    PROVE  \A m \in Nodes : m # n => update[m].at \notin {"native", "store", "leave"}
<1>1. CASE update[n].at \in {"native", "store", "leave"}
  BY <1>1 DEF UpdateInv
<1>2. CASE lock = None
  BY <1>2, NodeNumbers DEF UpdateInv
<1>3. CASE form = "bytes"
  BY <1>3 DEF UpdateInv
<1> QED
  BY <1>1, <1>2, <1>3

\* A task that is in an update runs after the goal was set.
LEMMA InUpdateReady ==
    ASSUME FreshResult, NEW n \in Nodes, update[n].at # "idle"
    PROVE  runtime \in {"ready", "down"}
BY DEF FreshResult

\* A result is offered.
LEMMA OfferKeeps ==
    ASSUME ResultInv, NodesOk(node), NEW n \in Nodes, Offer(n)
    PROVE  ResultInv'
<1>1. PICK v \in Offers[kind] :
        update' = [update EXCEPT ![n] = [at |-> IF form = "object" THEN "waiting" ELSE "bytes",
                                         left |-> update[n].left - 1, score |-> Score_make(kind, v)]]
  BY DEF Offer
<1> DEFINE sc == Score_make(kind, v)
           pl == IF form = "object" THEN "waiting" ELSE "bytes"
           lf == update[n].left - 1
<1>2. sc \in score /\ sc.kind = kind
  <2>1. kind \in score_type /\ v \in Int
    BY OffersAssumption DEF ResultInv, UpdateInv
  <2>2. kind \in Integral \/ (- (Patterns(kind) \div 2) < v /\ v < Patterns(kind) \div 2)
    BY OffersAssumption DEF ResultInv, UpdateInv
  <2> QED
    BY <2>1, <2>2, MakeScore
<1>3. /\ update \in [Nodes -> Update] /\ update[n].left \in 0 .. MaxOffers /\ update[n].left > 0
      /\ MaxOffers \in Nat
  BY CallsAssumption DEF ResultInv, ResultType, Update, Offer
<1>4. pl \in At /\ pl \notin {"native", "store", "leave"} /\ (pl = "bytes" => form = "bytes")
      /\ (pl \notin {"idle", "bytes"} => form = "object")
  BY DEF At, ResultInv, UpdateInv
<1>5. lf \in 0 .. MaxOffers
  BY <1>3
<1> HIDE DEF sc, pl, lf
<1>6. update' = [update EXCEPT ![n] = [at |-> pl, left |-> lf, score |-> sc]]
  BY <1>1 DEF sc, pl, lf
<1>7. update' \in [Nodes -> Update]
  BY <1>2, <1>3, <1>4, <1>5, <1>6 DEF Update
<1>8. \A m \in Nodes : update'[m] = IF m = n THEN [at |-> pl, left |-> lf, score |-> sc] ELSE update[m]
  BY <1>3, <1>6
<1>9. \A m \in Nodes : /\ update'[m].at = IF m = n THEN pl ELSE update[m].at
                       /\ update'[m].score = IF m = n THEN sc ELSE update[m].score
  BY <1>8
<1>10. runtime \in {"ready", "down"}
  BY DEF NodesOk, ObjectOk, Offer, Running
<1>11. /\ scenario' = scenario /\ goal' = goal /\ kind' = kind /\ form' = form /\ runtime' = runtime
       /\ lock' = lock /\ nm_score' = nm_score /\ stored' = stored /\ accepted' = accepted
  BY DEF Offer, fixed
<1>12. update[n].at = "idle"
  BY DEF Offer, Free
<1>13. ResultType' /\ FreshResult'
  BY <1>7, <1>10, <1>11 DEF ResultInv, ResultType, FreshResult
<1>14. UpdateInv'
  BY <1>2, <1>4, <1>9, <1>11 DEF ResultInv, UpdateInv
<1>15. ScoreInv'
  <2>1. \A m \in Nodes : /\ update'[m].at = "store" => update[m].at = "store" /\ update'[m].score = update[m].score
                         /\ update'[m].at = "leave" => update[m].at = "leave" /\ update'[m].score = update[m].score
                         /\ update[m].at = "store" => update'[m].at = "store"
    BY <1>4, <1>9, <1>12
  <2>2. getResultBytes' = getResultBytes /\ \A a, b : better(a, b)' <=> better(a, b)
    BY <1>11 DEF getResultBytes, get_result_bytes, better, should_update_result
  <2> QED
    BY <1>10, <1>11, <2>1, <2>2 DEF ResultInv, ScoreInv
<1> QED
  BY <1>13, <1>14, <1>15 DEF ResultInv

\* A task takes m_javaResultLock.
LEMMA SynchronizeKeeps ==
    ASSUME ResultInv, NEW n \in Nodes, Synchronize(n)
    PROVE  ResultInv'
<1>1. /\ scenario' = scenario /\ goal' = goal /\ kind' = kind /\ form' = form /\ runtime' = runtime
      /\ lock' = n /\ nm_score' = nm_score /\ stored' = stored /\ accepted' = accepted
      /\ update[n].at = "waiting" /\ lock = None
  BY DEF Synchronize, fixed
<1>2. /\ update' \in [Nodes -> Update]
      /\ \A m \in Nodes : /\ update'[m].score = update[m].score
                          /\ update'[m].at = IF m = n THEN "native" ELSE update[m].at
  <2>1. "native" \in At /\ UpdateAt(n, "native") /\ update \in [Nodes -> Update]
    BY DEF Synchronize, At, ResultInv, ResultType
  <2> QED
    BY <2>1, AtPlace
<1>3. runtime \in {"ready", "down"}
  BY <1>1, InUpdateReady DEF ResultInv
<1>4. \A m \in Nodes : m # n => update[m].at \notin {"native", "store", "leave"}
  BY <1>1, OneInside DEF ResultInv
<1>5. form = "object"
  BY <1>1 DEF ResultInv, UpdateInv
<1>6. ResultType' /\ FreshResult'
  BY <1>1, <1>2, <1>3 DEF ResultInv, ResultType, FreshResult
<1>7. UpdateInv'
  BY <1>1, <1>2, <1>4, <1>5 DEF ResultInv, UpdateInv
<1>8. ScoreInv'
  <2>1. \A m \in Nodes : update'[m].at \notin {"store", "leave"} /\ update[m].at # "store"
    BY <1>1, <1>2, <1>4
  <2>2. getResultBytes' = getResultBytes /\ \A a, b : better(a, b)' <=> better(a, b)
    BY <1>1 DEF getResultBytes, get_result_bytes, better, should_update_result
  <2> QED
    BY <1>1, <1>3, <2>1, <2>2 DEF ResultInv, ScoreInv
<1> QED
  BY <1>6, <1>7, <1>8 DEF ResultInv


\* tryUpdateResultMT takes a better score.
LEMMA UpdateScoreKeeps ==
    ASSUME ResultInv, NEW n \in Nodes, UpdateScore(n)
    PROVE  ResultInv'
<1> DEFINE s == update[n].score
           place == IF better(s, nm_score) THEN "store" ELSE "leave"
<1>0. s \in score /\ nm_score \in score /\ update \in [Nodes -> Update] /\ accepted \subseteq score
  BY DEF ResultInv, ResultType, Update
<1>1. Offered(n) = s
  BY <1>0, RawSame DEF Offered
<1>2. /\ scenario' = scenario /\ goal' = goal /\ kind' = kind /\ form' = form /\ runtime' = runtime
      /\ lock' = lock /\ stored' = stored /\ accepted' = accepted /\ update[n].at = "native"
      /\ nm_score' = IF better(s, nm_score) THEN s ELSE nm_score
      /\ UpdateAt(n, place)
  BY <1>1 DEF UpdateScore, fixed, try_update_score_and_invalidate_result, better
<1>3. /\ update' \in [Nodes -> Update]
      /\ \A m \in Nodes : /\ update'[m].score = update[m].score
                          /\ update'[m].at = IF m = n THEN place ELSE update[m].at
  <2>1. place \in At
    BY DEF At
  <2> HIDE DEF place
  <2> QED
    BY <1>0, <1>2, <2>1, AtPlace
<1>4. runtime \in {"ready", "down"}
  BY <1>2, InUpdateReady DEF ResultInv
<1>5. \A m \in Nodes : m # n => update[m].at \notin {"native", "store", "leave"}
  BY <1>2, OneInside DEF ResultInv
<1>6. /\ s.kind = kind /\ lock = n /\ form = "object" /\ nm_score.kind = kind /\ ~is_nan(nm_score)
      /\ \A a \in accepted : a.kind = kind /\ ~better(a, nm_score)
      /\ (\A m \in Nodes : update[m].at # "store") => nm_score = getResultBytes
  BY <1>2, <1>4 DEF ResultInv, UpdateInv, ScoreInv
<1>7. getResultBytes' = getResultBytes /\ \A a, b : better(a, b)' <=> better(a, b)
  BY <1>2 DEF getResultBytes, get_result_bytes, better, should_update_result
<1> HIDE DEF s
<1>8. CASE better(s, nm_score)
  <2>1. nm_score' = s /\ place = "store"
    BY <1>2, <1>8
  <2>2. ~is_nan(s) /\ \A a \in accepted : ~better(a, s)
    BY <1>0, <1>6, <1>8, BetterOrder
  <2>3. ResultType' /\ FreshResult'
    BY <1>0, <1>2, <1>3, <1>4, <2>1 DEF ResultInv, ResultType, FreshResult
  <2>4. UpdateInv'
    BY <1>2, <1>3, <1>5, <1>6, <2>1 DEF ResultInv, UpdateInv
  <2>5. update'[n].at = "store" /\ update'[n].score = s
    BY <1>3, <2>1 DEF s
  <2>6. \A m \in Nodes : m # n => update'[m].at \notin {"store", "leave"}
    BY <1>3, <1>5
  <2>7. ScoreInv'
    BY <1>2, <1>4, <1>6, <1>7, <2>1, <2>2, <2>5, <2>6 DEF ScoreInv
  <2> QED
    BY <2>3, <2>4, <2>7 DEF ResultInv
<1>9. CASE ~better(s, nm_score)
  <2>1. nm_score' = nm_score /\ place = "leave"
    BY <1>2, <1>9
  <2>3. ResultType' /\ FreshResult'
    BY <1>0, <1>2, <1>3, <1>4, <2>1 DEF ResultInv, ResultType, FreshResult
  <2>4. UpdateInv'
    BY <1>2, <1>3, <1>5, <1>6, <2>1 DEF ResultInv, UpdateInv
  <2>5. update'[n].at = "leave" /\ update'[n].score = s
    BY <1>3, <2>1 DEF s
  <2>6. \A m \in Nodes : m # n => update'[m].at \notin {"store", "leave"}
    BY <1>3, <1>5
  <2>7. \A m \in Nodes : update[m].at # "store"
    BY <1>2, <1>5
  <2>8. ScoreInv'
    BY <1>2, <1>4, <1>6, <1>7, <1>9, <2>1, <2>5, <2>6, <2>7 DEF ScoreInv
  <2> QED
    BY <2>3, <2>4, <2>8 DEF ResultInv
<1> QED
  BY <1>8, <1>9

\* tryUpdateResult of bytes takes a better score with its packet.
LEMMA UpdateResultKeeps ==
    ASSUME ResultInv, NEW n \in Nodes, UpdateResult(n)
    PROVE  ResultInv'
<1> DEFINE s == update[n].score
           take == [found |-> TRUE, score |-> s]
<1>0. /\ s \in score /\ nm_score \in score /\ update \in [Nodes -> Update] /\ accepted \subseteq score
      /\ stored \in [found : BOOLEAN, score : score] /\ lock \in Nodes \cup {None}
  BY DEF ResultInv, ResultType, Update
<1>1. Offered(n) = s
  BY <1>0, RawSame DEF Offered
<1>2. /\ scenario' = scenario /\ goal' = goal /\ kind' = kind /\ form' = form /\ runtime' = runtime
      /\ lock' = lock /\ accepted' = accepted \cup {s} /\ update[n].at = "bytes"
      /\ nm_score' = IF better(s, nm_score) THEN s ELSE nm_score
      /\ stored' = IF better(s, nm_score) THEN take ELSE stored
      /\ UpdateAt(n, "idle")
  BY <1>1 DEF UpdateResult, fixed, try_update_score_and_invalidate_result, better
<1>3. /\ update' \in [Nodes -> Update]
      /\ \A m \in Nodes : /\ update'[m].score = update[m].score
                          /\ update'[m].at = IF m = n THEN "idle" ELSE update[m].at
  <2>1. "idle" \in At
    BY DEF At
  <2> QED
    BY <1>0, <1>2, <2>1, AtPlace
<1>4. runtime \in {"ready", "down"}
  BY <1>2, InUpdateReady DEF ResultInv
<1>5. form = "bytes" /\ \A m \in Nodes : m # n => update[m].at \notin {"native", "store", "leave"}
  BY <1>2, OneInside DEF ResultInv, UpdateInv
<1>6. /\ s.kind = kind /\ nm_score.kind = kind /\ ~is_nan(nm_score)
      /\ \A a \in accepted : a.kind = kind /\ ~better(a, nm_score)
      /\ (\A m \in Nodes : update[m].at # "store") => nm_score = getResultBytes
  BY <1>2, <1>4 DEF ResultInv, UpdateInv, ScoreInv
<1>7. \A a, b : better(a, b)' <=> better(a, b)
  BY <1>2 DEF better, should_update_result
<1>8. UpdateInv'
  BY <1>2, <1>3 DEF ResultInv, UpdateInv
<1>9. \A m \in Nodes : update'[m].at \notin {"store", "leave"} /\ update[m].at # "store"
  BY <1>2, <1>3, <1>5
<1>10. stored' \in [found : BOOLEAN, score : score] /\ nm_score' \in score /\ accepted' \subseteq score
  BY <1>0, <1>2
<1>11. ResultType' /\ FreshResult'
  BY <1>0, <1>2, <1>3, <1>4, <1>10 DEF ResultType, FreshResult
<1> HIDE DEF s
<1>12. CASE better(s, nm_score)
  <2>1. nm_score' = s /\ stored'.found /\ stored'.score = s
    BY <1>2, <1>12
  <2>2. ~is_nan(s) /\ ~better(s, s) /\ \A a \in accepted : ~better(a, s)
    BY <1>0, <1>6, <1>12, BetterOrder
  <2>3. getResultBytes' = s
    BY <2>1 DEF getResultBytes, get_result_bytes
  <2>4. \A a \in accepted' : a.kind = kind /\ ~better(a, s)
    BY <1>2, <1>6, <2>2
  <2>5. ScoreInv'
    BY <1>2, <1>4, <1>6, <1>7, <1>9, <2>1, <2>2, <2>3, <2>4 DEF ScoreInv
  <2> QED
    BY <1>8, <1>11, <2>5 DEF ResultInv
<1>13. CASE ~better(s, nm_score)
  <2>1. nm_score' = nm_score /\ stored' = stored
    BY <1>2, <1>13
  <2>2. getResultBytes' = getResultBytes
    BY <1>2, <2>1 DEF getResultBytes, get_result_bytes
  <2>3. \A a \in accepted' : a.kind = kind /\ ~better(a, nm_score)
    BY <1>2, <1>6, <1>13
  <2>4. ScoreInv'
    BY <1>2, <1>4, <1>6, <1>7, <1>9, <2>1, <2>2, <2>3 DEF ScoreInv
  <2> QED
    BY <1>8, <1>11, <2>4 DEF ResultInv
<1> QED
  BY <1>12, <1>13

\* Java keeps the object of the score that was taken.
LEMMA StoreResultKeeps ==
    ASSUME ResultInv, NEW n \in Nodes, StoreResult(n)
    PROVE  ResultInv'
<1> DEFINE s == update[n].score
<1>0. /\ s \in score /\ update \in [Nodes -> Update] /\ nm_score \in score /\ accepted \subseteq score
      /\ lock \in Nodes \cup {None}
  BY DEF ResultInv, ResultType, Update
<1>1. /\ scenario' = scenario /\ goal' = goal /\ kind' = kind /\ form' = form /\ runtime' = runtime
      /\ lock' = lock /\ nm_score' = nm_score /\ accepted' = accepted /\ update[n].at = "store"
      /\ stored' = [found |-> TRUE, score |-> s] /\ UpdateAt(n, "leave")
  BY DEF StoreResult, fixed
<1>2. /\ update' \in [Nodes -> Update]
      /\ \A m \in Nodes : /\ update'[m].score = update[m].score
                          /\ update'[m].at = IF m = n THEN "leave" ELSE update[m].at
  <2>1. "leave" \in At
    BY DEF At
  <2> QED
    BY <1>0, <1>1, <2>1, AtPlace
<1>3. runtime \in {"ready", "down"}
  BY <1>1, InUpdateReady DEF ResultInv
<1>4. \A m \in Nodes : m # n => update[m].at \notin {"native", "store", "leave"}
  BY <1>1, OneInside DEF ResultInv
<1>5. /\ nm_score = s /\ nm_score.kind = kind /\ ~is_nan(nm_score)
      /\ \A a \in accepted : a.kind = kind /\ ~better(a, nm_score)
  BY <1>1, <1>3 DEF ResultInv, ScoreInv
<1>6. stored' \in [found : BOOLEAN, score : score] /\ stored'.found /\ stored'.score = s
  BY <1>0, <1>1
<1>7. ResultType' /\ FreshResult'
  BY <1>0, <1>1, <1>2, <1>3, <1>6 DEF ResultType, FreshResult
<1>8. UpdateInv'
  BY <1>1, <1>2 DEF ResultInv, UpdateInv
<1>9. getResultBytes' = nm_score /\ (\A a, b : better(a, b)' <=> better(a, b)) /\ ~better(s, nm_score)
  BY <1>0, <1>1, <1>5, <1>6, BetterOrder
  DEF getResultBytes, get_result_bytes, better, should_update_result
<1>10. \A m \in Nodes : /\ update'[m].at # "store"
                        /\ update'[m].at = "leave" => update'[m].score = s
  BY <1>2, <1>4
<1> HIDE DEF s
<1>11. ScoreInv'
  BY <1>1, <1>3, <1>5, <1>9, <1>10 DEF ScoreInv
<1> QED
  BY <1>7, <1>8, <1>11 DEF ResultInv

\* tryUpdateResult returns.
LEMMA LeaveUpdateKeeps ==
    ASSUME ResultInv, NEW n \in Nodes, LeaveUpdate(n)
    PROVE  ResultInv'
<1> DEFINE s == update[n].score
<1>0. /\ s \in score /\ update \in [Nodes -> Update] /\ nm_score \in score /\ accepted \subseteq score
      /\ stored \in [found : BOOLEAN, score : score]
  BY DEF ResultInv, ResultType, Update
<1>1. /\ scenario' = scenario /\ goal' = goal /\ kind' = kind /\ form' = form /\ runtime' = runtime
      /\ lock' = None /\ nm_score' = nm_score /\ accepted' = accepted \cup {s} /\ update[n].at = "leave"
      /\ stored' = stored /\ UpdateAt(n, "idle")
  BY DEF LeaveUpdate, fixed
<1>2. /\ update' \in [Nodes -> Update]
      /\ \A m \in Nodes : /\ update'[m].score = update[m].score
                          /\ update'[m].at = IF m = n THEN "idle" ELSE update[m].at
  <2>1. "idle" \in At
    BY DEF At
  <2> QED
    BY <1>0, <1>1, <2>1, AtPlace
<1>3. runtime \in {"ready", "down"}
  BY <1>1, InUpdateReady DEF ResultInv
<1>4. \A m \in Nodes : m # n => update[m].at \notin {"native", "store", "leave"}
  BY <1>1, OneInside DEF ResultInv
<1>5. /\ s.kind = kind /\ nm_score.kind = kind /\ ~is_nan(nm_score) /\ ~better(s, nm_score)
      /\ \A a \in accepted : a.kind = kind /\ ~better(a, nm_score)
      /\ (\A m \in Nodes : update[m].at # "store") => nm_score = getResultBytes
  BY <1>1, <1>3 DEF ResultInv, UpdateInv, ScoreInv
<1>7. ResultType' /\ FreshResult'
  BY <1>0, <1>1, <1>2, <1>3 DEF ResultType, FreshResult
<1>8. UpdateInv'
  <2>1. \A m \in Nodes : update'[m].at \notin {"native", "store", "leave"}
    BY <1>2, <1>4
  <2> QED
    BY <1>1, <1>2, <2>1 DEF ResultInv, UpdateInv
<1>9. getResultBytes' = getResultBytes /\ \A a, b : better(a, b)' <=> better(a, b)
  BY <1>1 DEF getResultBytes, get_result_bytes, better, should_update_result
<1>10. \A m \in Nodes : update'[m].at \notin {"store", "leave"} /\ update[m].at # "store"
  BY <1>1, <1>2, <1>4
<1> HIDE DEF s
<1>11. \A a \in accepted' : a.kind = kind /\ ~better(a, nm_score)
  BY <1>1, <1>5
<1>12. ScoreInv'
  BY <1>1, <1>3, <1>5, <1>9, <1>10, <1>11 DEF ScoreInv
<1> QED
  BY <1>7, <1>8, <1>12 DEF ResultInv

\* The steps of results.
LEMMA ResultKeeps ==
    ASSUME ResultInv, NodesOk(node), NEW n \in Nodes, Result(n)
    PROVE  ResultInv'
BY OfferKeeps, SynchronizeKeeps, UpdateScoreKeeps, UpdateResultKeeps, StoreResultKeeps,
   LeaveUpdateKeeps DEF Result

\* A step that leaves results alone keeps their part, also if it shuts the runtime down.
LEMMA ResultFrame ==
    ASSUME ResultInv, UNCHANGED <<fixed, scores>>,
           runtime' \in {"ready", "down"} <=> runtime \in {"ready", "down"}
    PROVE  ResultInv'
<1>1. /\ scenario' = scenario /\ goal' = goal /\ kind' = kind /\ form' = form /\ update' = update
      /\ lock' = lock /\ nm_score' = nm_score /\ stored' = stored /\ accepted' = accepted
  BY DEF fixed, scores
<1>2. getResultBytes' = getResultBytes /\ \A a, b : better(a, b)' <=> better(a, b)
  BY <1>1 DEF getResultBytes, get_result_bytes, better, should_update_result
<1>3. ResultType' /\ FreshResult'
  BY <1>1 DEF ResultInv, ResultType, FreshResult
<1>4. UpdateInv'
  BY <1>1 DEF ResultInv, UpdateInv
<1>5. ScoreInv'
  BY <1>1, <1>2 DEF ResultInv, ScoreInv
<1> QED
  BY <1>3, <1>4, <1>5 DEF ResultInv

\* The goal is set: from now on the score is one of its type.
LEMMA SetGoalKeeps ==
    ASSUME ResultInv, SetGoal
    PROVE  ResultInv'
<1> DEFINE d == get_default_score(goal, kind)
<1>1. /\ scenario' = scenario /\ goal' = goal /\ kind' = kind /\ form' = form /\ update' = update
      /\ lock' = lock /\ nm_score' = d /\ stored' = stored /\ accepted' = accepted
      /\ runtime = "manager" /\ runtime' = "ready"
  BY DEF SetGoal, fixed
<1>2. d \in score /\ d.kind = kind /\ ~is_nan(d)
  <2>1. goal \in {"MAXIMISE", "MINIMISE"} /\ kind \in score_type
    BY GoalTwo, OffersAssumption DEF ResultInv, UpdateInv
  <2> QED
    BY <2>1, DefaultScore
<1>3. accepted = {} /\ ~stored.found /\ \A n \in Nodes : update[n].at = "idle"
  BY <1>1 DEF ResultInv, FreshResult
<1>4. getResultBytes' = d
  BY <1>1, <1>3 DEF getResultBytes, get_result_bytes
<1> HIDE DEF d
<1>5. ResultType' /\ FreshResult'
  BY <1>1, <1>2 DEF ResultInv, ResultType, FreshResult
<1>6. UpdateInv'
  BY <1>1 DEF ResultInv, UpdateInv
<1>7. ScoreInv'
  BY <1>1, <1>2, <1>3, <1>4 DEF ScoreInv
<1> QED
  BY <1>5, <1>6, <1>7 DEF ResultInv

\* The node manager is created.
LEMMA CreateNodeManagerKeeps ==
    ASSUME ResultInv, CreateNodeManager
    PROVE  ResultInv'
<1> DEFINE d == make("I32", - (Half \div 2))
<1>1. /\ scenario' = scenario /\ goal' = goal /\ kind' = kind /\ form' = form /\ update' = update
      /\ lock' = lock /\ nm_score' = d /\ stored' = stored /\ accepted' = accepted
      /\ runtime = "balancer" /\ runtime' = "manager"
  BY DEF CreateNodeManager, fixed
<1>2. d \in score
  <2>1. "I32" \in score_type /\ "I32" \in Integral /\ - (Half \div 2) \in Int
    BY WidthAssumption DEF score_type, Integral
  <2> QED
    BY <2>1, MakeScore
<1> HIDE DEF d
<1>5. ResultType' /\ FreshResult'
  BY <1>1, <1>2 DEF ResultInv, ResultType, FreshResult
<1>6. UpdateInv'
  BY <1>1 DEF ResultInv, UpdateInv
<1>7. ScoreInv'
  BY <1>1 DEF ScoreInv
<1> QED
  BY <1>5, <1>6, <1>7 DEF ResultInv

-----------------------------------------------------------------------------
(* Worker processes *)

\* The part of the invariant about the worker process.
WorkerOk == worker \in Worker /\ WorkerInv

\* The runnable has its reference while the wrapper or Worker.run share it.
LEMMA SharedOk ==
    ASSUME NEW w \in Worker, w.task # "none" => w.run = "in", worker' = Shared(w)
    PROVE  WorkerOk'
<1> DEFINE r == w.wrapper = "alive" \/ w.run = "in"
<1>1. worker' = [w EXCEPT !.ref = r] /\ r \in BOOLEAN
  BY DEF Shared
<1>2. worker' \in Worker
  <2> HIDE DEF r
  <2> QED
    BY <1>1 DEF Worker
<1>3. /\ worker'.wrapper = w.wrapper /\ worker'.run = w.run /\ worker'.task = w.task
      /\ (worker'.ref <=> r)
  BY <1>1 DEF Worker
<1> QED
  BY <1>2, <1>3 DEF WorkerOk, WorkerInv

\* The steps of a worker process.
LEMMA WorkerKeeps ==
    ASSUME WorkerOk, WorkerProcess
    PROVE  WorkerOk'
<1>0. worker \in Worker /\ (worker.task # "none" => worker.run = "in")
  BY DEF WorkerOk, WorkerInv
<1>1. ASSUME NEW w \in Worker, w.task # "none" => w.run = "in", AtWorker(w) PROVE WorkerOk'
  BY <1>1, SharedOk DEF AtWorker
<1>2. CASE runnableReturnNone
  <2> DEFINE w == gempba_serial_runnable_create(worker)
  <2>1. w \in Worker /\ (w.task # "none" => w.run = "in")
    BY <1>0 DEF gempba_serial_runnable_create, Worker
  <2>2. AtWorker(w)
    BY <1>2 DEF runnableReturnNone
  <2> HIDE DEF w
  <2> QED
    BY <1>1, <2>1, <2>2
<1>3. CASE WorkerRun
  <2> DEFINE w == [worker EXCEPT !.run = "in"]
  <2>1. w \in Worker /\ w.run = "in"
    BY <1>0 DEF Worker
  <2>2. AtWorker(w)
    BY <1>3 DEF WorkerRun
  <2> HIDE DEF w
  <2> QED
    BY <1>1, <2>1, <2>2
<1>4. CASE ReceiveTask
  <2> DEFINE w == [worker EXCEPT !.task = "queued", !.received = @ + 1]
  <2>0. worker.run = "in" /\ worker.received + 1 \in Nat
    BY <1>0, <1>4 DEF Worker, ReceiveTask
  <2>1. w \in Worker /\ w.run = "in"
    BY <1>0, <2>0 DEF Worker
  <2>2. AtWorker(w)
    BY <1>4 DEF ReceiveTask
  <2> HIDE DEF w
  <2> QED
    BY <1>1, <2>1, <2>2
<1>5. CASE TakeSerial
  <2> DEFINE w == [worker EXCEPT !.task = "running"]
  <2>1. w \in Worker /\ w.run = "in"
    BY <1>0, <1>5 DEF Worker, TakeSerial
  <2>2. AtWorker(w)
    BY <1>5 DEF TakeSerial
  <2> HIDE DEF w
  <2> QED
    BY <1>1, <2>1, <2>2
<1>6. CASE SerialReturns
  <2> DEFINE w == [worker EXCEPT !.task = "none"]
  <2>1. w \in Worker /\ w.task = "none"
    BY <1>0 DEF Worker
  <2>2. AtWorker(w)
    BY <1>6 DEF SerialReturns
  <2> HIDE DEF w
  <2> QED
    BY <1>1, <2>1, <2>2
<1>7. CASE WorkerReturns
  <2> DEFINE w == [worker EXCEPT !.run = "after"]
  <2>1. w \in Worker /\ w.task = "none"
    BY <1>0, <1>7 DEF Worker, WorkerReturns, PoolDone
  <2>2. AtWorker(w)
    BY <1>7 DEF WorkerReturns
  <2> HIDE DEF w
  <2> QED
    BY <1>1, <2>1, <2>2
<1>8. CASE CloseSerial
  <2> DEFINE w == [worker EXCEPT !.wrapper = "deleted"]
  <2>1. w \in Worker /\ (w.task # "none" => w.run = "in")
    BY <1>0 DEF Worker
  <2>2. AtWorker(w)
    BY <1>8 DEF CloseSerial
  <2> HIDE DEF w
  <2> QED
    BY <1>1, <2>1, <2>2
<1> QED
  BY <1>2, <1>3, <1>4, <1>5, <1>6, <1>7, <1>8 DEF WorkerProcess

-----------------------------------------------------------------------------
(* The invariant *)

RuntimeOk == runtime \in {"none", "scheduler", "balancer", "manager", "ready", "down"}

\* The invariant in its parts.
LEMMA Parts == IInv <=> RuntimeOk /\ WorkerOk /\ NodesOk(node) /\ CreationOk(node) /\ ResultInv
<1>1. TypeOK <=> RuntimeOk /\ worker \in Worker /\ node \in [Nodes -> Object] /\ ResultType
  BY DEF TypeOK, RuntimeOk, ResultType, Update, At
<1>2. FreshInv <=> /\ FreshResult
                   /\ \A n \in Nodes : runtime \notin {"ready", "down"} => node[n].call = "none" /\ node[n].task = "none"
  BY DEF FreshInv, FreshResult
<1>3. NodesOk(node) <=> /\ node \in [Nodes -> Object]
                        /\ NodeInv
                        /\ \A n \in Nodes : runtime \notin {"ready", "down"} => node[n].call = "none" /\ node[n].task = "none"
  BY DEF NodesOk, ObjectOk, NodeInv
<1>4. CreationInv <=> CreationOk(node)
  BY DEF CreationInv, CreationOk, CreationAt
<1> QED
  BY <1>1, <1>2, <1>3, <1>4 DEF IInv, WorkerOk, ResultInv

\* Nodes that are in order stay so when the runtime goes on.
LEMMA NodesFrame ==
    ASSUME NodesOk(node'), scenario' = scenario,
           runtime' \in {"ready", "down"} \/ runtime \notin {"ready", "down"}
    PROVE  NodesOk(node)'
<1>1. \A n, o : Intact(n, o)' <=> Intact(n, o)
  BY DEF Intact, Owned
<1> QED
  BY <1>1 DEF NodesOk, ObjectOk

\* The initial states.
LEMMA InitOk == ASSUME Init PROVE IInv
<1>1. RuntimeOk
  BY DEF Init, RuntimeOk
<1>2. WorkerOk
  BY DEF Init, WorkerOk, WorkerInv, Worker
<1>3. NodesOk(node) /\ CreationOk(node)
  <2>1. Absent \in Object /\ Absent.call = "none" /\ Absent.task = "none"
    BY DEF Absent, Object, node_state, Call
  <2>2. ~Absent.handle /\ Absent.wrapper = "none" /\ Absent.core = "none" /\ Absent.creator = Main
    BY DEF Absent
  <2> DEFINE a == Absent
  <2>3. a \in Object /\ a.call = "none" /\ a.task = "none" /\ ~a.handle /\ a.wrapper = "none" /\ a.core = "none"
        /\ a.creator = Main /\ Main \notin Nodes
    BY <2>1, <2>2, MainAssumption
  <2>4. node = [n \in Nodes |-> a]
    BY DEF Init
  <2> HIDE DEF a
  <2>5. ASSUME NEW n \in Nodes PROVE ObjectOk(n, a)
    <3>1. Intact(n, a)
      BY <2>3 DEF Intact, Owned
    <3> QED
      BY <2>3, <3>1 DEF ObjectOk
  <2> QED
    BY <2>3, <2>4, <2>5 DEF NodesOk, CreationOk, CreationAt
<1>4. ResultInv
  <2>1. kind \in score_type /\ "I32" \in score_type /\ 0 \in Int
    BY OffersAssumption DEF Init, score_type
  <2> DEFINE z == make(kind, 0)
             y == make("I32", 0)
  <2>2. z \in score /\ z.kind = kind /\ y \in score
    <3>1. ASSUME NEW k \in score_type PROVE - (Patterns(k) \div 2) < 0 /\ 0 < Patterns(k) \div 2
      BY PatternsAre
    <3> QED
      BY <2>1, <3>1, MakeScore
  <2>3. /\ update = [n \in Nodes |-> [at |-> "idle", left |-> MaxOffers, score |-> z]]
        /\ nm_score = y /\ stored = [found |-> FALSE, score |-> y] /\ accepted = {} /\ lock = None
        /\ runtime = "none" /\ goal \in Goals /\ kind \in DOMAIN Offers /\ form \in {"object", "bytes"}
    BY DEF Init
  <2> HIDE DEF z, y
  <2>4. MaxOffers \in 0 .. MaxOffers
    BY CallsAssumption
  <2>5. ResultType
    BY <2>2, <2>3, <2>4 DEF ResultType, Update, At
  <2>6. FreshResult /\ UpdateInv /\ ScoreInv
    BY <2>2, <2>3 DEF FreshResult, UpdateInv, ScoreInv
  <2> QED
    BY <2>5, <2>6 DEF ResultInv
<1> QED
  BY <1>1, <1>2, <1>3, <1>4, Parts

\* What the steps of nodes leave alone.
LEMMA NodeStepFrame ==
    ASSUME NEW n \in Nodes, Java(n) \/ Native(n)
    PROVE  UNCHANGED <<fixed, runtime, worker, scores>>
<1>1. CASE Java(n)
  BY <1>1 DEF Java, CreateDummy, CreateSeed, ReadParent, CreateRefused, NoGlobalRef, tryLocalSubmit, forward, tryRemoteSubmit, getResult,
              Uses, Drop, Close, Collect
<1>2. CASE Native(n)
  BY <1>2 DEF Native, CreateExplicit, CreateSerializable, CreateLazy, Creating, gempba_nm_try_local_submit, gempba_nm_forward, gempba_nm_try_remote_submit,
              gempba_node_get_result, Leave, NoScheduler, SendRemotely, ChannelClosed, SendLocally,
              PoolFull, Run, Skip, Return, RunEnds, Take, TaskReturns, TaskGone, Enter, GoOn, Send, Task
<1> QED
  BY <1>1, <1>2

\* Every step keeps the invariant.
LEMMA NextOk == ASSUME IInv, [Next]_vars PROVE IInv'
<1>0. RuntimeOk /\ WorkerOk /\ NodesOk(node) /\ CreationOk(node) /\ ResultInv
  BY Parts
<1>1. SUFFICES RuntimeOk' /\ WorkerOk' /\ NodesOk(node)' /\ CreationOk(node)' /\ ResultInv'
  <2>1. RuntimeOk' /\ WorkerOk' /\ NodesOk(node)' /\ CreationOk(node)' /\ ResultInv' => IInv'
    BY Parts, PTL
  <2> QED
    BY <2>1
<1>2. ASSUME NEW n \in Nodes, Java(n) \/ Native(n) PROVE RuntimeOk' /\ WorkerOk' /\ NodesOk(node)' /\ CreationOk(node)' /\ ResultInv'
  <2>1. UNCHANGED <<fixed, runtime, worker, scores>>
    BY <1>2, NodeStepFrame
  <2>2. NodesOk(node') /\ CreationOk(node')
    BY <1>0, <1>2, JavaOk, NativeOk, JavaKept, NativeKept
  <2>3. NodesOk(node)'
    BY <2>1, <2>2, NodesFrame DEF fixed
  <2>4. ResultInv'
    BY <1>0, <2>1, ResultFrame
  <2>9. CreationOk(node)'
    BY <2>2
  <2> QED
    BY <1>0, <2>1, <2>9, <2>3, <2>4 DEF RuntimeOk, WorkerOk, WorkerInv
<1>3. ASSUME NEW n \in Nodes, Result(n) PROVE RuntimeOk' /\ WorkerOk' /\ NodesOk(node)' /\ CreationOk(node)' /\ ResultInv'
  <2>1. UNCHANGED <<fixed, runtime, worker, node>>
    BY <1>3 DEF Result, Offer, Synchronize, UpdateScore, StoreResult, LeaveUpdate, UpdateResult
  <2>2. NodesOk(node') /\ CreationOk(node')
    BY <1>0, <2>1
  <2>3. NodesOk(node)'
    BY <2>1, <2>2, NodesFrame DEF fixed
  <2>4. ResultInv'
    BY <1>0, <1>3, ResultKeeps
  <2>9. CreationOk(node)'
    BY <2>2
  <2> QED
    BY <1>0, <2>1, <2>9, <2>3, <2>4 DEF RuntimeOk, WorkerOk, WorkerInv
<1>4. CASE WorkerProcess
  <2>1. UNCHANGED <<fixed, runtime, scores>>
    BY <1>4 DEF WorkerProcess, runnableReturnNone, WorkerRun, ReceiveTask, TakeSerial, SerialReturns,
                WorkerReturns, CloseSerial, AtWorker
  <2>2. NodesOk(node') /\ CreationOk(node')
    <3>1. CASE SerialReturns
      BY <1>0, <3>1, SerialReturnsOk, SerialKept
    <3>2. CASE ~SerialReturns
      <4>1. node' = node
        BY <1>4, <3>2 DEF WorkerProcess, runnableReturnNone, WorkerRun, ReceiveTask, TakeSerial,
                          WorkerReturns, CloseSerial
      <4> QED
        BY <1>0, <4>1
    <3> QED
      BY <3>1, <3>2
  <2>3. NodesOk(node)'
    BY <2>1, <2>2, NodesFrame DEF fixed
  <2>4. ResultInv'
    BY <1>0, <2>1, ResultFrame
  <2>9. CreationOk(node)'
    BY <2>2
  <2> QED
    BY <1>0, <1>4, <2>1, <2>9, <2>3, <2>4, WorkerKeeps DEF RuntimeOk
<1>5. CASE CreateScheduler \/ CreateLoadBalancer \/ Shutdown \/ UNCHANGED vars
  <2>1. /\ UNCHANGED <<fixed, worker, node, scores>>
        /\ \/ runtime \in {"none", "scheduler"} /\ runtime' \in {"scheduler", "balancer"}
           \/ runtime = "ready" /\ runtime' = "down"
           \/ runtime' = runtime
    BY <1>5 DEF CreateScheduler, CreateLoadBalancer, Shutdown, vars, fixed, scores
  <2>2. NodesOk(node') /\ CreationOk(node')
    BY <1>0, <2>1
  <2>3. NodesOk(node)'
    BY <2>1, <2>2, NodesFrame DEF fixed
  <2>4. ResultInv'
    BY <1>0, <2>1, ResultFrame
  <2>5. RuntimeOk'
    BY <1>0, <2>1 DEF RuntimeOk
  <2>9. CreationOk(node)'
    BY <2>2
  <2> QED
    BY <1>0, <2>1, <2>9, <2>3, <2>4, <2>5 DEF WorkerOk, WorkerInv
<1>6. CASE CreateNodeManager \/ SetGoal
  <2>1. /\ UNCHANGED <<fixed, worker, node>>
        /\ runtime \in {"balancer", "manager"} /\ runtime' \in {"manager", "ready"}
    BY <1>6 DEF CreateNodeManager, SetGoal
  <2>2. NodesOk(node') /\ CreationOk(node')
    BY <1>0, <2>1
  <2>3. NodesOk(node)'
    BY <2>1, <2>2, NodesFrame DEF fixed
  <2>4. ResultInv'
    BY <1>0, <1>6, SetGoalKeeps, CreateNodeManagerKeeps
  <2>5. RuntimeOk'
    BY <1>0, <2>1 DEF RuntimeOk
  <2>9. CreationOk(node)'
    BY <2>2
  <2> QED
    BY <1>0, <2>1, <2>9, <2>3, <2>4, <2>5 DEF WorkerOk, WorkerInv
<1> QED
  BY <1>2, <1>3, <1>4, <1>5, <1>6 DEF Next, Stopped

\* The inductive invariant holds: the objects of every node are in order, factories find their
\* parents unless that was their last use, the serial runnable is there for its tasks, and the
\* update of a result is one critical section.
THEOREM Invariance == Spec => []IInv
<1>1. Init => IInv
  BY InitOk
<1>2. IInv /\ [Next]_vars => IInv'
  BY NextOk
<1> QED
  BY <1>1, <1>2, PTL DEF Spec

\* Every state is of its type, whatever the application does.
THEOREM TypeCorrect == Spec => []TypeOK
<1>1. IInv => TypeOK
  BY DEF IInv
<1> QED
  BY <1>1, Invariance, PTL

\* Native code never uses what the Cleaner or the core has deleted: in a submission, in a
\* callback and after it, in the task of a serial runnable, and in getResult and the factories when
\* the node or the parent is used again or is the context of a callback.
THEOREM NativeStaysSafe == Spec => []NativeSafe
<1>1. IInv => NativeSafe
  <2> SUFFICES ASSUME IInv PROVE NativeSafe
    OBVIOUS
  <2>1. worker.task # "none" => worker.ref
    BY DEF IInv, WorkerInv
  <2>2. ASSUME NEW n \in Nodes
        PROVE  /\ node[n].call = "called" => node[n].wrapper = "alive"
               /\ node[n].call = "result" /\ node[n].java = "held" => node[n].wrapper = "alive"
               /\ Running(n) => node[n].data = "alive" /\ node[n].ref
               /\ node[n].call = "running" => node[n].wrapper = "alive"
               /\ node[n].call = "returned" \/ node[n].task # "none" => node[n].data = "alive"
               /\ node[n].handle <=> node[n].wrapper = "alive"
    <3> DEFINE o == node[n]
    <3>1. Intact(n, o)
      BY DEF IInv, NodeInv
    <3> HIDE DEF o
    <3>2. /\ o.call = "called" => o.wrapper = "alive"
          /\ o.call = "result" /\ o.java = "held" => o.wrapper = "alive"
          /\ o.call = "running" \/ o.task = "running" => o.data = "alive" /\ o.ref
          /\ o.call = "running" => o.wrapper = "alive"
          /\ o.call = "returned" \/ o.task # "none" => o.data = "alive"
          /\ o.handle <=> o.wrapper = "alive"
      BY <3>1 DEF Intact, Owned
    <3> QED
      BY <3>2 DEF o, Running
  <2>3. ASSUME NEW n \in Nodes, node[n].call = "creating",
               node[node[n].parent].java = "held" \/ node[n].parent = node[n].creator
        PROVE  node[node[n].parent].wrapper = "alive"
    <3> DEFINE p == node[n].parent
    <3>1. /\ p \in Nodes
          /\ IF p = node[n].creator THEN node[p].call = "running"
             ELSE node[p].creator = node[n].creator /\ (node[p].java = "held" => node[p].handle)
      BY <2>3 DEF IInv, CreationInv
    <3>2. p = node[n].creator \/ node[p].java = "held"
      BY <2>3
    <3> HIDE DEF p
    <3>3. node[p].wrapper = "alive"
      BY <2>2, <3>1, <3>2
    <3> QED
      BY <3>3 DEF p
  <2> QED
    BY <2>1, <2>2, <2>3 DEF NativeSafe
<1> QED
  BY <1>1, Invariance, PTL

\* Outside of tryUpdateResult the score that Java reads is the best that was offered, and the
\* result that Java gets was offered with it, for numbers of every width and type.
THEOREM ResultAgrees == Spec => []ResultMatchesScore
<1>1. IInv => ResultMatchesScore
  <2> SUFFICES ASSUME IInv, runtime = "ready", \A n \in Nodes : update[n].at \in {"idle", "waiting", "bytes"}
      PROVE  /\ is_nan(nm_score) = is_nan(getResultBytes)
             /\ getScore = getValue(getResultBytes.kind, getResultBytes.payload)
             /\ \A s \in accepted : is_nan(s) \/ IF goal = "MAXIMISE" THEN getValue(s.kind, s.payload) <= getScore
                                                 ELSE getValue(s.kind, s.payload) >= getScore
    BY DEF ResultMatchesScore
  <2>1. /\ nm_score \in score /\ accepted \subseteq score /\ nm_score = getResultBytes
        /\ ~is_nan(nm_score) /\ \A s \in accepted : ~better(s, nm_score)
    BY DEF IInv, TypeOK, ScoreInv
  <2>2. /\ getScore = to_long_double(nm_score) /\ to_long_double(nm_score) \in Int
        /\ getValue(nm_score.kind, nm_score.payload) = to_long_double(nm_score)
    BY <2>1, RawSame, ValueInt DEF getScore
  <2>3. ASSUME NEW s \in accepted, ~is_nan(s)
        PROVE  IF goal = "MAXIMISE" THEN getValue(s.kind, s.payload) <= getScore
               ELSE getValue(s.kind, s.payload) >= getScore
    <3>1. getValue(s.kind, s.payload) = to_long_double(s) /\ to_long_double(s) \in Int
      BY <2>1, RawSame, ValueInt
    <3>2. IF goal = "MAXIMISE" THEN ~(to_long_double(nm_score) < to_long_double(s))
          ELSE ~(to_long_double(s) < to_long_double(nm_score))
      BY <2>1, <2>3 DEF better, should_update_result, less
    <3> QED
      BY <2>2, <3>1, <3>2
  <2> QED
    BY <2>1, <2>2, <2>3
<1> QED
  BY <1>1, Invariance, PTL
=============================================================================
