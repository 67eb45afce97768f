--------------------------- MODULE LoadBalancer ---------------------------
(***************************************************************************)
(* The two load balancers of a process, quasi-horizontal and work          *)
(* stealing, with the tree of nodes they keep.                             *)
(*                                                                         *)
(* A pool thread runs the user's function, which creates a node for every  *)
(* branch and gives the nodes to the balancer from left to right, by       *)
(* try_remote_submit, try_local_submit or forward.  A node goes to another *)
(* process, to the pool, or is run by the calling thread, as a nested call *)
(* of the function.  The quasi-horizontal balancer gives away the pending  *)
(* node nearest to the root of the thread's tree first, and keeps the root *)
(* (the thread's cell in m_roots) at the highest node with pending ones.   *)
(*                                                                         *)
(* Only the thread that created a node touches its links.  Threads meet at *)
(* m_recursive_mutex, which every send tries to lock once per round, and   *)
(* at the pool.  So one round of send is one step, and so is what a thread *)
(* does to its own tree in forward.                                        *)
(***************************************************************************)
EXTENDS Integers, Sequences, FiniteSets, SequencesExt

CONSTANTS
    Thread,     \* the threads of the pool
    Item,       \* the calls of the user's function, numbered from 1
    Branches,   \* the calls each of them makes, from left to right
    Lazy,       \* calls whose node has an initializer, which may find them not worthy
    Policies,   \* the balancing policies examined
    Styles      \* the ways the user's function creates its nodes

Seed == 1
None == 0

ASSUME ItemAssumption == Item \subseteq Nat \ {0} /\ Seed \in Item /\ Lazy \subseteq Item
\* Every call but the seed is made by one call, at one place.
ASSUME BranchesAssumption ==
    /\ Branches \in [Item -> Seq(Item)]
    /\ \A i, k \in Item : \A a \in DOMAIN Branches[i], b \in DOMAIN Branches[k] :
         Branches[i][a] = Branches[k][b] => i = k /\ a = b
    /\ \A i \in Item : \A a \in DOMAIN Branches[i] : Branches[i][a] # Seed
ASSUME PoliciesAssumption == Policies \subseteq {"QUASI_HORIZONTAL", "WORK_STEALING"}
\* eager: all nodes of a call before the first is submitted; late: each just before it is
ASSUME StylesAssumption == Styles \subseteq {"eager", "late"}

\* The node of a call is the call's number.  A call that the pool runs has no node to hang
\* its branches on, and creates a dummy one.
Dummy(i) == -i
Node == Item \cup {Dummy(i) : i \in Item}

VARIABLES
    policy, style,
    tree,   \* m_parent, m_children, m_root # nullptr of every node; m_roots of every thread
    state,  \* m_state of the nodes of calls
    cached, \* m_should_branch_cached: the set of values it may still return
    queue,  \* tasks of the pool that no thread has taken
    stack,  \* the calls a thread is in, innermost last
    runs,   \* history: how often each call was run in this process
    threw

vars == <<policy, style, tree, state, cached, queue, stack, runs, threw>>

\* A call in progress: its branches hang on `anchor`, `made` of them have a node, `next` is
\* the one to submit, and `at` says how far the submission of that one is.
Frame == [item : Item, anchor : Node, made : Nat, next : Nat \ {0},
          at : {"user", "remote", "local", "forward"}]

-----------------------------------------------------------------------------
(* The tree of a thread t *)

get_root(tr, t, n) == IF tr.rooted[n] THEN tr.cell[t] ELSE None

\* list::remove of a child; add_child enters none twice.
remove_child(s, n) ==
    IF \E i \in DOMAIN s : s[i] = n THEN RemoveAt(s, CHOOSE i \in DOMAIN s : s[i] = n) ELSE s

Unlinked(children, p, n) ==
    IF p = None THEN children ELSE [children EXCEPT ![p] = remove_child(@, n)]

\* Mutant: the parent keeps the node among its children.
PruneKeepsLink(tr, n) ==
    [tr EXCEPT !.children[n] = <<>>, !.rooted[n] = FALSE, !.parent[n] = None]

prune(tr, n) ==
    [tr EXCEPT !.children = [Unlinked(tr.children, tr.parent[n], n) EXCEPT ![n] = <<>>],
               !.rooted[n] = FALSE,
               !.parent[n] = None]

\* Where the loop of try_correct_root ends.
lowest(tr, n, p) == n = p \/ Len(tr.children[n]) # 1

\* The nodes the loop comes to, from each node on.
Descent(tr, p) ==
    LET line[n \in Node] == IF lowest(tr, n, p) THEN <<n>>
                            ELSE <<n>> \o line[Head(tr.children[n])]
    IN  line

\* make_root for the child that ends the line of only children below the root r, and prune
\* for all above it.  p # None.
try_correct_root(tr, t, p) ==
    LET r == get_root(tr, t, p)
        down == <<r>> \o Descent(tr, p)[Head(tr.children[r])]
        old == Range(Front(down))
        new == Last(down)
    IN  IF r = None \/ (r # None /\ Len(tr.children[r]) # 1) THEN tr
        ELSE [parent   |-> [n \in Node |-> IF n \in old \cup {new} THEN None ELSE tr.parent[n]],
              children |-> [n \in Node |-> IF n \in old THEN <<>> ELSE tr.children[n]],
              rooted   |-> [n \in Node |-> n \notin old /\ tr.rooted[n]],
              cell     |-> [tr.cell EXCEPT ![t] = new]]

\* Mutant: the leftmost child of the root, which is being run.
LeftmostPending(tr, t, p) ==
    LET r == get_root(tr, t, p)
    IN  IF policy # "QUASI_HORIZONTAL" \/ tr.parent[p] \in {None, r} \/ r = None THEN None
        ELSE IF Len(tr.children[r]) < 2 THEN None
        ELSE tr.children[r][1]

\* The node that is given away before p, or None.
root_level_pending(tr, t, p) ==
    LET r == get_root(tr, t, p)
    IN  IF \/ policy # "QUASI_HORIZONTAL"
           \/ tr.parent[p] \in {None, r}
           \/ r = None
           \/ Len(tr.children[r]) < 2
        THEN None
        ELSE tr.children[r][2]

\* prune_and_fix_parent_root_if_needed throws for a node without parent that is not a root.
orphaned(tr, t, p) ==
    policy = "QUASI_HORIZONTAL" /\ tr.parent[p] = None /\ get_root(tr, t, p) # p

\* The tree after p was given away.
prune_and_fix_parent_root_if_needed(tr, t, p) ==
    IF policy = "WORK_STEALING" THEN prune(tr, p)
    ELSE IF get_root(tr, t, p) = p THEN tr
    ELSE try_correct_root(prune(tr, p), t, tr.parent[p])

\* The tree after p was run or found not worthy.
prune_and_correct_root_after_forward(tr, t, p) ==
    IF policy = "WORK_STEALING" \/ tr.parent[p] = None THEN prune(tr, p)
    ELSE try_correct_root(prune(tr, p), t, tr.parent[p])

\* create_dummy: a root of its thread.
create_dummy(tr, t, d) ==
    IF policy = "WORK_STEALING" THEN tr
    ELSE [tr EXCEPT !.cell[t] = d, !.rooted[d] = TRUE]

\* set_parent and add_child, at the creation of the nodes ns.
set_parent(tr, t, ns, p) ==
    [tr EXCEPT !.parent = [n \in Node |-> IF n \in Range(ns) THEN p ELSE tr.parent[n]],
               !.children[p] = @ \o ns,
               !.rooted = [n \in Node |-> IF n \in Range(ns) THEN tr.cell[t] # None
                                          ELSE tr.rooted[n]]]

-----------------------------------------------------------------------------
(* The threads *)

Top(t) == Last(stack[t])
Current(t) == Branches[Top(t).item][Top(t).next]

\* The call on top of t's stack goes on as frame f.
GoOn(t, f) == stack' = [stack EXCEPT ![t] = Append(Front(@), f)]
Submitted(f) == [f EXCEPT !.next = @ + 1, !.at = "user"]

\* The user's function submits its next branch at `place`, or is sent there by the balancer.
\* A node that is_consumed() is only forwarded: try_local_submit and try_remote_submit throw
\* for it by contract.
Submitting(t, place) ==
    /\ ~threw
    /\ stack[t] # <<>>
    /\ Top(t).next <= Top(t).made
    /\ \/ Top(t).at = place
       \/ Top(t).at = "user" /\ (place = "forward" \/ state[Current(t)] = "UNUSED")

Throws ==
    /\ threw' = TRUE
    /\ UNCHANGED <<policy, style, tree, state, cached, queue, stack, runs>>

is_thread_pool_full == \A t \in Thread : stack[t] # <<>>

\* Another thread may hold m_recursive_mutex.
Contended(t) == \E u \in Thread \ {t} : stack[u] # <<>>

delegated_state(n, how) == IF how = "local" THEN "PUSHED" ELSE "SENT_TO_ANOTHER_PROCESS"

\* should_branch, then delegate_locally, delegate_remotely or DISCARDED.
Delegate(n, how) ==
    \E worthy \in cached[n] :
        /\ cached' = [cached EXCEPT ![n] = {worthy}]
        /\ state' = [state EXCEPT ![n] = IF worthy THEN delegated_state(n, how) ELSE "DISCARDED"]
        /\ queue' = IF worthy /\ how = "local" THEN Append(queue, n) ELSE queue

\* Mutant: send returns after a node of the root's level.
SendOneRound(t, how) ==
    LET p == Current(t)
        top == root_level_pending(tree, t, p)
        n == IF top # None THEN top ELSE p
    IN  /\ tree' = IF top # None THEN try_correct_root(prune(tree, top), t, p)
                   ELSE prune_and_fix_parent_root_if_needed(tree, t, p)
        /\ Delegate(n, how)
        /\ GoOn(t, Submitted(Top(t)))
        /\ UNCHANGED <<policy, style, runs, threw>>

\* One round of send with the mutex held: a node of the root's level, and another round,
\* or the current node.
Send(t, how) ==
    LET p == Current(t)
        top == root_level_pending(tree, t, p)
        n == IF top # None THEN top ELSE p
    IN  IF state[n] # "UNUSED" \/ (top = None /\ orphaned(tree, t, p))
        THEN Throws
        ELSE /\ tree' = IF top # None THEN try_correct_root(prune(tree, top), t, p)
                        ELSE prune_and_fix_parent_root_if_needed(tree, t, p)
             /\ Delegate(n, how)
             /\ GoOn(t, IF top # None THEN [Top(t) EXCEPT !.at = how] ELSE Submitted(Top(t)))
             /\ UNCHANGED <<policy, style, runs, threw>>

\* Mutant: a node that finds no place in the pool is tried remotely again, and so on until
\* it is taken.
TryAgain(t, place) ==
    /\ GoOn(t, [Top(t) EXCEPT !.at = IF place = "local" THEN "local" ELSE "remote"])
    /\ UNCHANGED <<policy, style, tree, state, cached, queue, runs, threw>>

GiveUp(t, place) ==
    /\ GoOn(t, [Top(t) EXCEPT !.at = place])
    /\ UNCHANGED <<policy, style, tree, state, cached, queue, runs, threw>>

\* try_remote_submit: the scheduler's channel is open, or it is not and the node is
\* submitted locally.
SendRemotely(t) == Submitting(t, "remote") /\ Send(t, "remote")
ChannelClosed(t) == Submitting(t, "remote") /\ GiveUp(t, "local")

\* try_local_submit: there is an idle thread, or there is none - or the mutex is taken - and
\* the node is forwarded.
SendLocally(t) == Submitting(t, "local") /\ ~is_thread_pool_full /\ Send(t, "local")
PoolFull(t) ==
    /\ Submitting(t, "local")
    /\ is_thread_pool_full \/ Contended(t)
    /\ GiveUp(t, "forward")

\* A call of i begins on thread t.
Call(i, anchor) == [item |-> i, anchor |-> anchor, made |-> 0, next |-> 1, at |-> "user"]

\* Mutant: forward does not look at the state of the node.
Unconsumed(n) == TRUE

unused(n) == state[n] = "UNUSED"

\* run() throws for a consumed node and calls the function with the node as parent.
Run(t, p) ==
    IF state[p] # "UNUSED" THEN Throws
    ELSE /\ stack' = [stack EXCEPT ![t] = Append(@, Call(p, p))]
         /\ runs' = [runs EXCEPT ![p] = @ + 1]
         /\ cached' = [cached EXCEPT ![p] = {TRUE}]
         /\ UNCHANGED <<policy, style, tree, state, queue, threw>>

\* The node is consumed or not worthy.
Skip(t, p) ==
    /\ GoOn(t, Submitted(Top(t)))
    /\ cached' = IF unused(p) THEN [cached EXCEPT ![p] = {FALSE}] ELSE cached
    /\ tree' = prune_and_correct_root_after_forward(tree, t, p)
    /\ UNCHANGED <<policy, style, state, queue, runs, threw>>

forward(t) ==
    /\ Submitting(t, "forward")
    /\ LET p == Current(t) IN
         \/ unused(p) /\ TRUE \in cached[p] /\ Run(t, p)
         \/ (~unused(p) \/ FALSE \in cached[p]) /\ Skip(t, p)

\* Nodes are created for all branches or for the next one.
Create(t) ==
    /\ ~threw
    /\ stack[t] # <<>>
    /\ LET f == Top(t)
           last == IF style = "eager" THEN Len(Branches[f.item]) ELSE f.next
           new == SubSeq(Branches[f.item], f.next, last)
       IN  /\ f.made < f.next
           /\ f.next <= Len(Branches[f.item])
           /\ tree' = set_parent(tree, t, new, f.anchor)
           /\ GoOn(t, [f EXCEPT !.made = last])
    /\ UNCHANGED <<policy, style, state, cached, queue, runs, threw>>

\* The call returns.  After a nested one run() marks the node and forward prunes it.
Return(t) ==
    /\ ~threw
    /\ stack[t] # <<>>
    /\ Top(t).next > Len(Branches[Top(t).item])
    /\ IF Len(stack[t]) = 1
       THEN /\ stack' = [stack EXCEPT ![t] = <<>>]
            /\ UNCHANGED <<tree, state>>
       ELSE LET p == Top(t).item
                outer == stack[t][Len(stack[t]) - 1]
            IN  /\ state' = [state EXCEPT ![p] = "FORWARDED"]
                /\ tree' = prune_and_correct_root_after_forward(tree, t, p)
                /\ stack' = [stack EXCEPT ![t] = Append(Front(Front(@)), Submitted(outer))]
    /\ UNCHANGED <<policy, style, cached, queue, runs, threw>>

\* An idle thread takes a task and calls the function without a parent node.
Take(t) ==
    /\ ~threw
    /\ stack[t] = <<>>
    /\ queue # <<>>
    /\ LET i == Head(queue) IN
         /\ stack' = [stack EXCEPT ![t] = <<Call(i, Dummy(i))>>]
         /\ runs' = [runs EXCEPT ![i] = @ + 1]
         /\ tree' = IF Branches[i] = <<>> THEN tree ELSE create_dummy(tree, t, Dummy(i))
    /\ queue' = Tail(queue)
    /\ UNCHANGED <<policy, style, state, cached, threw>>

-----------------------------------------------------------------------------

\* A runnable has handed the seed to the pool with force_local_submit.
Init ==
    /\ policy \in Policies
    /\ style \in Styles
    /\ tree = [parent |-> [n \in Node |-> None], children |-> [n \in Node |-> <<>>],
               rooted |-> [n \in Node |-> FALSE], cell |-> [t \in Thread |-> None]]
    /\ state = [i \in Item |-> "UNUSED"]
    /\ cached = [i \in Item |-> IF i \in Lazy THEN BOOLEAN ELSE {TRUE}]
    /\ queue = <<Seed>>
    /\ stack = [t \in Thread |-> <<>>]
    /\ runs = [i \in Item |-> 0]
    /\ threw = FALSE

PoolThread(t) ==
    \/ Take(t)
    \/ Create(t)
    \/ SendRemotely(t)
    \/ ChannelClosed(t)
    \/ SendLocally(t)
    \/ PoolFull(t)
    \/ forward(t)
    \/ Return(t)

\* is_done
is_done == queue = <<>> /\ \A t \in Thread : stack[t] = <<>>

Finished == is_done /\ UNCHANGED vars

Next == (\E t \in Thread : PoolThread(t)) \/ Finished

Spec == Init /\ [][Next]_vars

\* Pool threads take tasks while there are any, and the user's function goes on: some
\* thread moves as long as the pool is not done.  This is weak fairness of Next with its
\* ENABLED written out, since some thread can move exactly while the pool is not done (the
\* run checks deadlock); no thread is promised anything by itself.
FairSpec == Spec /\ ([]<>is_done \/ []<><<TRUE>>_vars)

-----------------------------------------------------------------------------
(* Properties *)

Tree == [parent : [Node -> Node \cup {None}], children : [Node -> Seq(Item)],
         rooted : [Node -> BOOLEAN], cell : [Thread -> Node \cup {None}]]
node_state == {"UNUSED", "FORWARDED", "PUSHED", "DISCARDED", "SENT_TO_ANOTHER_PROCESS"}

TypeOK ==
    /\ policy \in Policies /\ style \in Styles
    /\ tree \in Tree
    /\ state \in [Item -> node_state]
    /\ cached \in [Item -> SUBSET BOOLEAN]
    /\ queue \in Seq(Item)
    /\ stack \in [Thread -> Seq(Frame)]
    /\ runs \in [Item -> Nat]
    /\ threw \in BOOLEAN

\* No balancer is handed a consumed node by its own bookkeeping, finds a node without
\* root and parent, or looks for a second child that is not there.
NoThrow == ~threw

\* A call is run at most once in this process, and not at all if it was sent to another or
\* found not worthy: the thread that goes on with a node's siblings skips those that were
\* given away from deeper levels meanwhile.
RunsOnce ==
    \A i \in Item :
        /\ runs[i] <= 1
        /\ runs[i] = 1 => state[i] \notin {"DISCARDED", "SENT_TO_ANOTHER_PROCESS"}

\* The tree is well-formed, and the two directions of its links agree, whichever nodes were
\* pruned or made roots.
LinksAgree ==
    /\ TypeOK
    /\ \A n \in Node :
         /\ tree.parent[n] # None => n \in Range(tree.children[tree.parent[n]])
         /\ \A c \in Range(tree.children[n]) : tree.parent[c] = n
         /\ Cardinality(Range(tree.children[n])) = Len(tree.children[n])

\* Every worthy branch of a call that was run is run here or sent away by the time the pool
\* is done, however the tree was pruned in between.
NothingDropped ==
    is_done => \A i \in Item : runs[i] = 1 => \A c \in Range(Branches[i]) :
        \/ runs[c] = 1
        \/ state[c] = "SENT_TO_ANOTHER_PROCESS"
        \/ cached[c] = {FALSE}

\* The nodes of a thread that are created and waiting, by the level of their call.
PendingAt(t, k) ==
    LET f == stack[t][k]
        first == IF k = Len(stack[t]) THEN f.next ELSE f.next + 1
    IN  {j \in first .. f.made : state[Branches[f.item][j]] = "UNUSED"}

\* "selects work near the root of the recursion tree": the quasi-horizontal balancer gives
\* away the leftmost waiting node of the outermost call that has one.
NearestToRoot ==
    [][\A t \in Thread : \A k \in 1 .. Len(stack[t]) : \A j \in PendingAt(t, k) :
         LET given == Branches[stack[t][k].item][j] IN
         policy = "QUASI_HORIZONTAL" /\ state'[given] \in
             {"PUSHED", "SENT_TO_ANOTHER_PROCESS", "DISCARDED"} =>
                /\ \A m \in 1 .. k - 1 : PendingAt(t, m) = {}
                /\ \A h \in PendingAt(t, k) : j <= h]_vars

\* The pool becomes idle.
Completion == <>is_done

-----------------------------------------------------------------------------
(* The inductive invariant *)

\* The k-th call of a stack: nodes are created and submitted from left to right, and the
\* call waits for the one above it, which is the branch it submitted last.
Placed(sty, st, s, k) ==
    LET f == s[k]
        b == Branches[f.item]
    IN  /\ f.made <= Len(b) /\ f.next <= f.made + 1
        /\ f.anchor = IF k = 1 THEN Dummy(f.item) ELSE f.item
        /\ IF sty = "late" THEN f.made <= f.next ELSE f.made \in {0, Len(b)}
        /\ f.at # "user" \/ k < Len(s) => f.next <= f.made /\ st[b[f.next]] = "UNUSED"
        /\ k < Len(s) => s[k + 1].item = b[f.next]

\* No call is in two places.
Apart(stk) == \A t, u \in Thread : \A k \in DOMAIN stk[t], l \in DOMAIN stk[u] :
    stk[u][l].item = stk[t][k].item => u = t /\ l = k

StackInv ==
    /\ \A t \in Thread : \A k \in DOMAIN stack[t] : Placed(style, state, stack[t], k)
    /\ Apart(stack)

InProgress(i) == \E t \in Thread : \E k \in DOMAIN stack[t] : stack[t][k].item = i

\* Nothing remains to be done here for the branch c of a call.
Resolved(c) ==
    \/ runs[c] = 1
    \/ state[c] = "SENT_TO_ANOTHER_PROCESS"
    \/ cached[c] = {FALSE}
    \/ c \in Range(queue)

\* What was run: a call waits in the pool once and before it is run; the branches of a call
\* that was not run are untouched; those of one that has returned are resolved.
CallInv ==
    /\ \A x \in DOMAIN queue :
         /\ runs[queue[x]] = 0
         /\ state[queue[x]] = IF queue[x] = Seed THEN "UNUSED" ELSE "PUSHED"
         /\ \A y \in DOMAIN queue : queue[x] = queue[y] => x = y
    /\ \A i \in Item :
         /\ runs[i] \in {0, 1}
         /\ runs[i] = 1 => state[i] \notin {"DISCARDED", "SENT_TO_ANOTHER_PROCESS"}
         /\ runs[i] = 0 => \A c \in Range(Branches[i]) : state[c] = "UNUSED" /\ runs[c] = 0
         /\ InProgress(i) => runs[i] = 1
         /\ runs[i] = 1 /\ ~InProgress(i) => \A c \in Range(Branches[i]) : Resolved(c)

\* The same for a call in progress: its branches are resolved up to the current one, and
\* behind it if they were given away.
BranchInv == \A t \in Thread : \A k \in DOMAIN stack[t] :
    LET f == stack[t][k] IN
    \A j \in DOMAIN Branches[f.item] :
        LET c == Branches[f.item][j] IN
        /\ j > f.made => state[c] = "UNUSED"
        /\ j >= f.next /\ state[c] = "UNUSED" /\ (k = Len(stack[t]) \/ j # f.next) => runs[c] = 0
        /\ j < f.next \/ state[c] # "UNUSED" => Resolved(c)

\* The branches of f that have a node and were neither submitted nor given away; one of
\* them may be running.
Kids(st, f) ==
    {c \in Item : st[c] = "UNUSED" /\ \E j \in DOMAIN Branches[f.item] :
                    f.next <= j /\ j <= f.made /\ c = Branches[f.item][j]}

\* s holds branches of i from left to right.
Ascending(s, i) ==
    \A x, y \in DOMAIN s : \A j, k \in DOMAIN Branches[i] :
        x < y /\ s[x] = Branches[i][j] /\ s[y] = Branches[i][k] => j < k

\* The nodes of f's branches hang on its node, or the only one was made a root.
Linked(tr, st, f) ==
    /\ Range(tr.children[f.anchor]) = Kids(st, f)
    /\ Ascending(tr.children[f.anchor], f.item)
    /\ \A c \in Kids(st, f) : tr.parent[c] = f.anchor
Cut(tr, st, f) ==
    /\ tr.children[f.anchor] = <<>>
    /\ \E c \in Item : Kids(st, f) = {c} /\ tr.parent[c] = None

\* The node that was made a root and is not run yet is the one its thread holds.
HeldRoot(tr, st, t, f) == \A c \in Kids(st, f) : tr.cell[t] = c /\ tr.rooted[c]

\* The nodes of every call in progress.
Hung(tr, st, stk) == \A t \in Thread : \A k \in DOMAIN stk[t] :
    \/ Linked(tr, st, stk[t][k])
    \/ /\ Cut(tr, st, stk[t][k])
       /\ policy = "QUASI_HORIZONTAL" /\ k = Len(stk[t]) => HeldRoot(tr, st, t, stk[t][k])

\* Only nodes of calls in progress have children, and a node is a child of its parent.
Anchored(tr, stk) == \A n \in Node :
    /\ tr.children[n] # <<>> => \E t \in Thread : \E k \in DOMAIN stk[t] : stk[t][k].anchor = n
    /\ tr.parent[n] # None => n \in Range(tr.children[tr.parent[n]])

\* The root a thread holds has no parent.  It was created for a call that was run, by no
\* other thread.
Home(tr, rn, stk) == \A t \in Thread : tr.cell[t] # None =>
    /\ tr.parent[tr.cell[t]] = None
    /\ \E i \in Item :
         /\ rn[i] = 1 /\ (tr.cell[t] = Dummy(i) \/ tr.cell[t] \in Range(Branches[i]))
         /\ \A u \in Thread : \A k \in DOMAIN stk[u] : stk[u][k].item = i =>
              u = t /\ \A j \in DOMAIN Branches[i] : tr.cell[t] = Branches[i][j] => j <= stk[u][k].made

\* A thread with branches to submit holds a root, and its nodes that do not run yet know it.
Known(tr, st, stk) == policy = "QUASI_HORIZONTAL" => \A t \in Thread :
    /\ stk[t] # <<>> /\ Branches[stk[t][1].item] # <<>> => tr.cell[t] # None
    /\ \A k \in DOMAIN stk[t] : \A c \in Kids(st, stk[t][k]) :
         k = Len(stk[t]) \/ c # stk[t][k + 1].item => tr.rooted[c]

IInv ==
    /\ TypeOK
    /\ NoThrow
    /\ StackInv
    /\ CallInv
    /\ BranchInv
    /\ Hung(tree, state, stack)
    /\ Anchored(tree, stack)
    /\ Home(tree, runs, stack)
    /\ Known(tree, state, stack)
=============================================================================
