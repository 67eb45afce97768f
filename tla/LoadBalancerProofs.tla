------------------------- MODULE LoadBalancerProofs -------------------------
(***************************************************************************)
(* Proofs about the load balancers, for any number of threads, any tree of *)
(* calls, finite or not, and every choice the user's function makes.       *)
(*                                                                         *)
(* IInv (LoadBalancer) is inductive.  Its parts are of three kinds:        *)
(*   - what the stacks are (StackInv, packaged for the tree as Shape): a   *)
(*     call waits for the branch it submitted, and none is in two places;  *)
(*   - what was done with every call (CallInv, BranchInv): it waits in the *)
(*     pool, was run, or was given away, once;                             *)
(*   - what the tree is (TreeInv: Hung, Anchored, Home, Known): the        *)
(*     children of a node in use are the unused branches of its call       *)
(*     (Kids), from left to right, or the only one was made a root.        *)
(* So the tree, which balancers change through pointers, is at any time    *)
(* determined by the stacks up to which nodes have been cut off.           *)
(*                                                                         *)
(* The loop of try_correct_root goes down a line of only children, which   *)
(* Descent computes by recursion.  IsWalk says what the line is without    *)
(* recursion.  A node's depth in its stack bounds how far the loop can go  *)
(* (LoopEnds), so every node has one line (WalkExists, by a node of least  *)
(* rank that has none), and Descent is it (DescentWalk).  It runs along    *)
(* the stack (LoopOnStack): lowering the root cuts off calls that have     *)
(* nothing left to give away.                                              *)
(*                                                                         *)
(* Every change of the tree is said once as a relation between two trees   *)
(* (Lowered, Pruned, Hanging), with a lemma that it keeps TreeInv; every   *)
(* change of a stack is Replaced: a frame in place n, those below it kept. *)
(* Then there is one lemma per action.                                     *)
(***************************************************************************)
EXTENDS LoadBalancer, FiniteSetTheorems, SequenceTheorems, NaturalsInduction,
        WellFoundedInduction, TLAPS

\* A set of naturals that is not empty has a least element.
LEMMA Least ==
    ASSUME NEW S \in SUBSET Nat, S # {}
    PROVE  \E x \in S : \A y \in S : x <= y
<1> DEFINE R == {ss \in Nat \X Nat : ss[1] < ss[2]}
<1>0. IsWellFoundedOn(R, Nat)
  BY NatLessThanWellFounded, Zenon DEF OpToRel
<1> HIDE DEF R
<1>1. PICK x \in S : \A y \in S : ~(<<y, x>> \in R)
  BY <1>0, WFMin
<1>2. ASSUME NEW y \in S PROVE x <= y
  <2>1. <<y, x>> \in Nat \X Nat /\ <<y, x>> \notin R
    BY <1>1
  <2> QED
    BY <2>1 DEF R
<1> QED
  BY <1>1, <1>2

-----------------------------------------------------------------------------
(* The calls and their nodes *)

\* The nodes of calls, the dummies and None are apart from one another.
LEMMA Nodes ==
    /\ Item \subseteq Int /\ None \notin Item /\ None \notin Node /\ Item \subseteq Node
    /\ \A i \in Item : Dummy(i) \in Node /\ Dummy(i) \notin Item /\ Dummy(i) # None
    /\ \A i, k \in Item : Dummy(i) = Dummy(k) => i = k
    /\ \A n \in Node : n \notin Item => \E i \in Item : n = Dummy(i)
<1>1. Item \subseteq Nat \ {0}
  BY ItemAssumption
<1>2. \A i \in Item : Dummy(i) \in Int /\ Dummy(i) < 0
  BY <1>1 DEF Dummy
<1>3. \A i, k \in Item : Dummy(i) = Dummy(k) => i = k
  BY <1>1 DEF Dummy
<1>4. \A i \in Item : Dummy(i) \in Node
  BY DEF Node
<1> QED
  BY <1>1, <1>2, <1>3, <1>4 DEF Node, None

\* A call is a branch of one call, at one place.
LEMMA Forest ==
    ASSUME NEW i \in Item, NEW k \in Item, NEW c,
           c \in Range(Branches[i]), c \in Range(Branches[k])
    PROVE  i = k
<1>1. PICK a \in DOMAIN Branches[i] : c = Branches[i][a]
  BY DEF Range
<1>2. PICK b \in DOMAIN Branches[k] : c = Branches[k][b]
  BY DEF Range
<1> QED
  BY <1>1, <1>2, BranchesAssumption

\* The branches of a call are calls, at the places from 1 to their number.
LEMMA BranchesOf ==
    ASSUME NEW i \in Item
    PROVE  /\ Branches[i] \in Seq(Item) /\ Len(Branches[i]) \in Nat
           /\ DOMAIN Branches[i] = 1 .. Len(Branches[i])
           /\ \A j \in 1 .. Len(Branches[i]) : /\ Branches[i][j] \in Item
                                              /\ Branches[i][j] \in Range(Branches[i])
           /\ \A c \in Range(Branches[i]) : c \in Item /\ \E j \in 1 .. Len(Branches[i]) :
                                                              c = Branches[i][j]
           /\ \A a, b \in 1 .. Len(Branches[i]) : Branches[i][a] = Branches[i][b] => a = b
<1>1. Branches[i] \in Seq(Item)
  BY BranchesAssumption
<1>2. Len(Branches[i]) \in Nat /\ DOMAIN Branches[i] = 1 .. Len(Branches[i])
  BY <1>1
<1>3. \A j \in 1 .. Len(Branches[i]) : Branches[i][j] \in Item
  BY <1>1
<1>4. \A a, b \in 1 .. Len(Branches[i]) : Branches[i][a] = Branches[i][b] => a = b
  BY <1>2, BranchesAssumption
<1> QED
  BY <1>1, <1>2, <1>3, <1>4 DEF Range

-----------------------------------------------------------------------------
(* Removing a child *)

\* A branch between two places of the list.
LEMMA BranchAt ==
    ASSUME NEW i \in Item, NEW lo \in 1 .. Len(Branches[i]), NEW hi \in lo .. Len(Branches[i]), NEW j \in lo .. hi
    PROVE  /\ j \in 1 .. Len(Branches[i]) /\ j \in DOMAIN Branches[i]
           /\ Branches[i][j] \in Item /\ Branches[i][j] \in Range(Branches[i])
<1>1. Len(Branches[i]) \in Nat /\ DOMAIN Branches[i] = 1 .. Len(Branches[i])
  BY BranchesOf
<1>2. j \in 1 .. Len(Branches[i])
  BY <1>1
<1> QED
  BY <1>1, <1>2, BranchesOf

\* The empty list.
LEMMA EmptyList ==
    /\ \A s \in Seq(Item) : <<>> \o s = s
    /\ \A c : c \notin Range(<<>>)
<1>1. \A s \in Seq(Item) : <<>> \o s = s
  OBVIOUS
<1>2. \A c : c \notin Range(<<>>)
  BY DEF Range
<1> QED
  BY <1>1, <1>2

\* remove_child takes one element out of a list without repetitions and keeps the order.
LEMMA RemoveChild ==
    ASSUME NEW s \in Seq(Item), NEW n,
           \A x, y \in DOMAIN s : s[x] = s[y] => x = y
    PROVE  /\ remove_child(s, n) \in Seq(Item)
           /\ Range(remove_child(s, n)) = Range(s) \ {n}
           /\ \A x, y \in DOMAIN remove_child(s, n) : x < y =>
                \E a, b \in DOMAIN s : /\ a < b /\ remove_child(s, n)[x] = s[a]
                                       /\ remove_child(s, n)[y] = s[b]
<1>1. CASE ~\E i \in DOMAIN s : s[i] = n
  BY <1>1 DEF remove_child, Range
<1>2. CASE \E i \in DOMAIN s : s[i] = n
  <2> DEFINE i == CHOOSE i \in DOMAIN s : s[i] = n
             q == remove_child(s, n)
  <2>1. i \in DOMAIN s /\ s[i] = n
    BY <1>2
  <2>2. q = SubSeq(s, 1, i - 1) \o SubSeq(s, i + 1, Len(s))
    BY <1>2 DEF remove_child, RemoveAt
  <2> HIDE DEF i, q
  <2>3. i \in 1 .. Len(s) /\ Len(s) \in Nat
    BY <2>1
  <2> DEFINE l == SubSeq(s, 1, i - 1)
             r == SubSeq(s, i + 1, Len(s))
  <2>4. l \in Seq(Item) /\ Len(l) = i - 1 /\ \A j \in 1 .. i - 1 : l[j] = s[j]
    BY <2>3
  <2>5. r \in Seq(Item) /\ Len(r) = Len(s) - i /\ \A j \in 1 .. Len(s) - i : r[j] = s[i + j]
    BY <2>3
  <2>6. q = l \o r
    BY <2>2
  <2> HIDE DEF l, r
  <2>7. /\ q \in Seq(Item) /\ Len(q) = Len(s) - 1 /\ DOMAIN q = 1 .. Len(s) - 1
        /\ \A j \in 1 .. Len(s) - 1 : q[j] = IF j < i THEN s[j] ELSE s[j + 1]
    <3>1. /\ q \in Seq(Item) /\ Len(q) = Len(l) + Len(r)
          /\ \A j \in 1 .. Len(l) + Len(r) : q[j] = IF j <= Len(l) THEN l[j] ELSE r[j - Len(l)]
      BY <2>4, <2>5, <2>6, ConcatProperties, ZenonT(40)
    <3>2. Len(l) + Len(r) = Len(s) - 1
      BY <2>3, <2>4, <2>5
    <3>3. ASSUME NEW j \in 1 .. Len(s) - 1 PROVE q[j] = IF j < i THEN s[j] ELSE s[j + 1]
      <4>1. q[j] = IF j <= i - 1 THEN l[j] ELSE r[j - (i - 1)]
        BY <3>1, <3>2, <2>4
      <4>2. CASE j < i
        BY <4>1, <4>2, <2>3, <2>4
      <4>3. CASE ~(j < i)
        <5>1. j - (i - 1) \in 1 .. Len(s) - i /\ i + (j - (i - 1)) = j + 1 /\ ~(j <= i - 1)
          BY <4>3, <2>3
        <5> QED
          BY <4>1, <4>3, <5>1, <2>5
      <4> QED
        BY <4>2, <4>3
    <3> QED
      BY <3>1, <3>2, <3>3
  <2>8. Range(q) = Range(s) \ {n}
    <3>1. ASSUME NEW j \in 1 .. Len(s) - 1 PROVE q[j] \in Range(s) /\ q[j] # n
      <4> DEFINE k == IF j < i THEN j ELSE j + 1
      <4>1. k \in DOMAIN s /\ k # i /\ q[j] = s[k]
        BY <2>3, <2>7
      <4> QED
        BY <4>1, <2>1 DEF Range
    <3>2. ASSUME NEW j \in 1 .. Len(s), s[j] # n PROVE s[j] \in Range(q)
      <4>1. CASE j < i
        <5>1. j \in 1 .. Len(s) - 1 /\ q[j] = s[j]
          BY <4>1, <2>3, <2>7
        <5> QED
          BY <5>1, <2>7 DEF Range
      <4>2. CASE j > i
        <5>1. j - 1 \in 1 .. Len(s) - 1 /\ q[j - 1] = s[j]
          BY <4>2, <2>3, <2>7
        <5> QED
          BY <5>1, <2>7 DEF Range
      <4> QED
        BY <4>1, <4>2, <3>2, <2>1, <2>3
    <3> QED
      BY <3>1, <3>2, <2>7 DEF Range
  <2>9. ASSUME NEW x \in DOMAIN q, NEW y \in DOMAIN q, x < y
        PROVE \E a, b \in DOMAIN s : a < b /\ q[x] = s[a] /\ q[y] = s[b]
    <3> DEFINE a == IF x < i THEN x ELSE x + 1
               b == IF y < i THEN y ELSE y + 1
    <3>1. a \in DOMAIN s /\ b \in DOMAIN s /\ a < b /\ q[x] = s[a] /\ q[y] = s[b]
      BY <2>3, <2>7, <2>9
    <3> QED
      BY <3>1
  <2> QED
    BY <2>7, <2>8, <2>9 DEF q
<1> QED
  BY <1>1, <1>2

\* An ascending list has no repetitions.
LEMMA AscendingDistinct ==
    ASSUME NEW s \in Seq(Item), NEW i \in Item, Ascending(s, i), Range(s) \subseteq Range(Branches[i])
    PROVE  \A x, y \in DOMAIN s : s[x] = s[y] => x = y
<1> SUFFICES ASSUME NEW x \in DOMAIN s, NEW y \in DOMAIN s, s[x] = s[y], x # y PROVE FALSE
  OBVIOUS
<1>1. s[x] \in Range(Branches[i])
  BY DEF Range
<1>2. PICK j \in DOMAIN Branches[i] : s[x] = Branches[i][j]
  BY <1>1 DEF Range
<1>3. x \in Int /\ y \in Int /\ j \in Int
  BY BranchesOf
<1>4. /\ x < y /\ s[x] = Branches[i][j] /\ s[y] = Branches[i][j] => j < j
      /\ y < x /\ s[y] = Branches[i][j] /\ s[x] = Branches[i][j] => j < j
  BY Zenon DEF Ascending
<1>5. ~(x < y) /\ ~(y < x)
  BY <1>2, <1>3, <1>4
<1> QED
  BY <1>3, <1>5

\* Removing a child from an ascending list.
LEMMA RemoveAscending ==
    ASSUME NEW s \in Seq(Item), NEW i \in Item, Ascending(s, i), Range(s) \subseteq Range(Branches[i]),
           NEW n
    PROVE  /\ remove_child(s, n) \in Seq(Item)
           /\ Range(remove_child(s, n)) = Range(s) \ {n}
           /\ Ascending(remove_child(s, n), i)
<1>1. \A x, y \in DOMAIN s : s[x] = s[y] => x = y
  BY AscendingDistinct
<1> DEFINE q == remove_child(s, n)
<1>2. /\ q \in Seq(Item) /\ Range(q) = Range(s) \ {n}
      /\ \A x, y \in DOMAIN q : x < y => \E a, b \in DOMAIN s : a < b /\ q[x] = s[a] /\ q[y] = s[b]
  BY <1>1, RemoveChild
<1> HIDE DEF q
<1>3. Ascending(q, i)
  BY <1>2 DEF Ascending
<1> QED
  BY <1>2, <1>3 DEF q

-----------------------------------------------------------------------------
(* The loop of try_correct_root *)

\* d are the nodes that the loop comes to from n on.
IsWalk(tr, p, d, n) ==
    /\ d \in Seq(Node) /\ d # <<>> /\ d[1] = n
    /\ \A i \in 1 .. Len(d) - 1 : ~lowest(tr, d[i], p) /\ d[i + 1] = Head(tr.children[d[i]])
    /\ lowest(tr, d[Len(d)], p)

\* The loop comes to nodes of lower and lower rank: it ends.
Ranked(tr, p, rank) ==
    /\ rank \in [Node -> Nat]
    /\ \A n \in Node : ~lowest(tr, n, p) =>
         Head(tr.children[n]) \in Node /\ rank[Head(tr.children[n])] < rank[n]

\* The loop ends at once where it may.
LEMMA WalkEnds ==
    ASSUME NEW tr, NEW p, NEW n \in Node, lowest(tr, n, p)
    PROVE  /\ IsWalk(tr, p, <<n>>, n)
           /\ \A d : IsWalk(tr, p, d, n) => d = <<n>>
<1>1. IsWalk(tr, p, <<n>>, n)
  BY DEF IsWalk
<1>2. ASSUME NEW d, IsWalk(tr, p, d, n) PROVE d = <<n>>
  <2>1. /\ d \in Seq(Node) /\ d # <<>> /\ d[1] = n
        /\ \A i \in 1 .. Len(d) - 1 : ~lowest(tr, d[i], p)
    BY <1>2 DEF IsWalk
  <2>2. Len(d) \in Nat \ {0}
    BY <2>1
  <2>3. ~(1 \in 1 .. Len(d) - 1)
    BY <2>1
  <2>4. Len(d) = 1
    BY <2>2, <2>3
  <2> QED
    BY <2>1, <2>4
<1> QED
  BY <1>1, <1>2

\* Elsewhere it goes on from the only child.
LEMMA WalkGoesOn ==
    ASSUME NEW tr, NEW p, NEW n \in Node, ~lowest(tr, n, p), NEW d,
           IsWalk(tr, p, d, Head(tr.children[n]))
    PROVE  IsWalk(tr, p, <<n>> \o d, n)
<1> DEFINE e == <<n>> \o d
<1>1. /\ d \in Seq(Node) /\ d # <<>> /\ d[1] = Head(tr.children[n])
      /\ \A i \in 1 .. Len(d) - 1 : ~lowest(tr, d[i], p) /\ d[i + 1] = Head(tr.children[d[i]])
      /\ lowest(tr, d[Len(d)], p)
  BY DEF IsWalk
<1>2. /\ e \in Seq(Node) /\ Len(e) = Len(d) + 1 /\ Len(d) \in Nat \ {0} /\ e[1] = n
      /\ \A i \in 1 .. Len(d) : e[i + 1] = d[i]
  <2>1. <<n>> \in Seq(Node) /\ Len(<<n>>) = 1
    OBVIOUS
  <2>2. /\ e \in Seq(Node) /\ Len(e) = 1 + Len(d)
        /\ \A i \in 1 .. 1 + Len(d) : e[i] = IF i <= 1 THEN <<n>>[i] ELSE d[i - 1]
    BY <1>1, <2>1, ConcatProperties
  <2> HIDE DEF e
  <2>3. Len(d) \in Nat \ {0}
    BY <1>1
  <2>4. e[1] = n
    BY <2>2, <2>3
  <2>5. ASSUME NEW i \in 1 .. Len(d) PROVE e[i + 1] = d[i]
    <3>1. i + 1 \in 1 .. 1 + Len(d) /\ ~(i + 1 <= 1) /\ (i + 1) - 1 = i
      BY <2>3
    <3> QED
      BY <3>1, <2>2
  <2> QED
    BY <2>2, <2>3, <2>4, <2>5
<1> HIDE DEF e
<1>3. ASSUME NEW i \in 1 .. Len(e) - 1
      PROVE ~lowest(tr, e[i], p) /\ e[i + 1] = Head(tr.children[e[i]])
  <2>1. CASE i = 1
    <3>1. e[i] = n /\ e[i + 1] = d[1]
      BY <2>1, <1>2
    <3> QED
      BY <3>1, <1>1
  <2>2. CASE i # 1
    <3>1. i - 1 \in 1 .. Len(d) - 1 /\ i - 1 \in 1 .. Len(d) /\ i \in 1 .. Len(d)
      BY <2>2, <1>2
    <3>2. e[(i - 1) + 1] = d[i - 1] /\ e[i + 1] = d[i]
      BY <3>1, <1>2
    <3>3. (i - 1) + 1 = i
      BY <3>1
    <3> QED
      BY <3>1, <3>2, <3>3, <1>1
  <2> QED
    BY <2>1, <2>2
<1>4. e[Len(e)] = d[Len(d)]
  BY <1>2
<1>5. e # <<>>
  BY <1>2
<1> QED
  BY <1>1, <1>2, <1>3, <1>4, <1>5 DEF IsWalk, e

\* And the rest of the way is the way from there.
LEMMA WalkRest ==
    ASSUME NEW tr, NEW p, NEW n \in Node, ~lowest(tr, n, p), NEW d, IsWalk(tr, p, d, n)
    PROVE  IsWalk(tr, p, Tail(d), Head(tr.children[n])) /\ d = <<n>> \o Tail(d)
<1>1. /\ d \in Seq(Node) /\ d # <<>> /\ d[1] = n
      /\ \A i \in 1 .. Len(d) - 1 : ~lowest(tr, d[i], p) /\ d[i + 1] = Head(tr.children[d[i]])
      /\ lowest(tr, d[Len(d)], p)
  BY DEF IsWalk
<1>2. Len(d) \in Nat /\ Len(d) >= 2
  BY <1>1
<1> DEFINE e == Tail(d)
<1>3. e \in Seq(Node) /\ Len(e) = Len(d) - 1 /\ \A i \in 1 .. Len(d) - 1 : e[i] = d[i + 1]
  BY <1>1, <1>2
<1> HIDE DEF e
<1>4. e # <<>> /\ e[1] = Head(tr.children[n])
  <2>1. 1 \in 1 .. Len(d) - 1
    BY <1>2
  <2>2. d[1 + 1] = Head(tr.children[d[1]])
    BY <1>1, <2>1
  <2> QED
    BY <2>1, <2>2, <1>1, <1>2, <1>3
<1>5. ASSUME NEW i \in 1 .. Len(e) - 1
      PROVE ~lowest(tr, e[i], p) /\ e[i + 1] = Head(tr.children[e[i]])
  <2>1. i \in 1 .. Len(d) - 1 /\ i + 1 \in 1 .. Len(d) - 1
    BY <1>2, <1>3
  <2>2. e[i] = d[i + 1] /\ e[i + 1] = d[(i + 1) + 1]
    BY <2>1, <1>3
  <2> QED
    BY <2>1, <2>2, <1>1
<1>6. lowest(tr, e[Len(e)], p)
  <2>1. Len(d) - 1 \in 1 .. Len(d) - 1 /\ (Len(d) - 1) + 1 = Len(d)
    BY <1>2
  <2>2. e[Len(d) - 1] = d[Len(d)]
    BY <1>3, <2>1
  <2> QED
    BY <1>1, <1>3, <2>2
<1>7. d = <<n>> \o e
  <2> DEFINE w == <<n>> \o e
  <2>1. w \in Seq(Node) /\ Len(w) = Len(d) /\ \A i \in 1 .. Len(d) : w[i] = IF i <= 1 THEN n ELSE e[i - 1]
    BY <1>2, <1>3
  <2> HIDE DEF w
  <2>2. ASSUME NEW i \in 1 .. Len(d) PROVE w[i] = d[i]
    <3>1. CASE i = 1
      BY <3>1, <2>1, <1>1
    <3>2. CASE i # 1
      <4>1. i - 1 \in 1 .. Len(d) - 1 /\ (i - 1) + 1 = i /\ ~(i <= 1)
        BY <3>2, <1>2
      <4> QED
        BY <4>1, <2>1, <1>3
    <3> QED
      BY <3>1, <3>2
  <2>3. w = d
    BY <2>1, <2>2, <1>1, SeqEqual
  <2> QED
    BY <2>3 DEF w
<1> QED
  BY <1>3, <1>4, <1>5, <1>6, <1>7 DEF IsWalk, e

\* From every node the loop goes one way to an end.
LEMMA WalkExists ==
    ASSUME NEW tr, NEW p, NEW rank, Ranked(tr, p, rank)
    PROVE  \A n \in Node : /\ \E d : IsWalk(tr, p, d, n)
                           /\ \A d, e : IsWalk(tr, p, d, n) /\ IsWalk(tr, p, e, n) => d = e
<1> DEFINE Ok(n) == /\ \E d : IsWalk(tr, p, d, n)
                    /\ \A d, e : IsWalk(tr, p, d, n) /\ IsWalk(tr, p, e, n) => d = e
           Bad == {n \in Node : ~Ok(n)}
           S == {rank[n] : n \in Bad}
<1>1. rank \in [Node -> Nat]
  BY DEF Ranked
<1>2. ASSUME NEW n \in Bad, \A m \in Bad : rank[n] <= rank[m] PROVE FALSE
  <2> n \in Node
    OBVIOUS
  <2>1. CASE lowest(tr, n, p)
    BY <2>1, WalkEnds, Zenon
  <2>2. CASE ~lowest(tr, n, p)
    <3> DEFINE h == Head(tr.children[n])
    <3>1. h \in Node /\ rank[h] < rank[n]
      BY <2>2 DEF Ranked
    <3> HIDE DEF h
    <3>2. rank[h] \in Nat /\ rank[n] \in Nat
      BY <1>1, <3>1
    <3>3. h \notin Bad
      BY <3>1, <3>2, <1>2
    <3>4. Ok(h)
      BY <3>1, <3>3
    <3>5. \E d : IsWalk(tr, p, d, n)
      <4>1. PICK d : IsWalk(tr, p, d, h)
        BY <3>4
      <4> QED
        BY <4>1, <2>2, WalkGoesOn, Zenon DEF h
    <3>6. ASSUME NEW d, NEW e, IsWalk(tr, p, d, n), IsWalk(tr, p, e, n) PROVE d = e
      <4>1. ASSUME NEW c, IsWalk(tr, p, c, n)
            PROVE  IsWalk(tr, p, Tail(c), h) /\ c = <<n>> \o Tail(c)
        BY <2>2, <4>1, WalkRest DEF h
      <4>2. Tail(d) = Tail(e)
        BY <4>1, <3>4, <3>6, Zenon
      <4> DEFINE rest(c) == Tail(c)
                 line(r) == <<n>> \o r
      <4>3. d = line(rest(d)) /\ e = line(rest(e)) /\ rest(d) = rest(e)
        BY <4>1, <4>2, <3>6
      <4> HIDE DEF rest, line
      <4> QED
        BY <4>3
    <3> QED
      BY <3>5, <3>6, Zenon
  <2> QED
    BY <2>1, <2>2
<1> HIDE DEF Ok
<1>3. Bad = {}
  <2> SUFFICES ASSUME Bad # {} PROVE FALSE
    OBVIOUS
  <2>1. S \in SUBSET Nat /\ S # {}
    BY <1>1
  <2>2. PICK x \in S : \A y \in S : x <= y
    BY <2>1, Least
  <2>3. PICK n \in Bad : x = rank[n]
    BY <2>2
  <2>4. \A m \in Bad : rank[n] <= rank[m]
    BY <2>2, <2>3
  <2> QED
    BY <2>4, <1>2
<1>4. \A n \in Node : Ok(n)
  BY <1>3
<1> QED
  BY <1>4 DEF Ok

\* What Descent(tr, p) satisfies.
Descends(f, tr, p) ==
    f = [n \in Node |-> IF lowest(tr, n, p) THEN <<n>> ELSE <<n>> \o f[Head(tr.children[n])]]

\* Descent is well defined if the loop ends.
LEMMA DescentDefined ==
    ASSUME NEW tr, NEW p, NEW g, Descends(g, tr, p)
    PROVE  Descends(Descent(tr, p), tr, p)
<1> DEFINE P(f) == f = [n \in Node |-> IF lowest(tr, n, p) THEN <<n>>
                                       ELSE <<n>> \o f[Head(tr.children[n])]]
<1>1. Descent(tr, p) = CHOOSE f : P(f)
  BY Zenon DEF Descent
<1>2. P(g)
  BY DEF Descends
<1>3. P(CHOOSE f : P(f))
  BY <1>2, Zenon
<1>4. P(Descent(tr, p))
  BY <1>1, <1>3, Zenon
<1> QED
  BY <1>4 DEF Descends

\* Descent holds the way of the loop from every node on.
LEMMA DescentWalk ==
    ASSUME NEW tr, NEW p, NEW rank, Ranked(tr, p, rank)
    PROVE  \A n \in Node : IsWalk(tr, p, Descent(tr, p)[n], n)
<1> DEFINE g == [n \in Node |-> CHOOSE d : IsWalk(tr, p, d, n)]
<1>1. \A n \in Node : IsWalk(tr, p, g[n], n)
  <2> TAKE n \in Node
  <2>1. \E d : IsWalk(tr, p, d, n)
    BY WalkExists, Zenon
  <2>2. IsWalk(tr, p, CHOOSE d : IsWalk(tr, p, d, n), n)
    BY <2>1, Zenon
  <2>3. g[n] = CHOOSE d : IsWalk(tr, p, d, n)
    OBVIOUS
  <2> QED
    BY <2>2, <2>3, Zenon
<1>2. ASSUME NEW n \in Node
      PROVE g[n] = IF lowest(tr, n, p) THEN <<n>> ELSE <<n>> \o g[Head(tr.children[n])]
  <2> HIDE DEF g
  <2>1. CASE lowest(tr, n, p)
    <3>1. g[n] = <<n>>
      BY <2>1, <1>1, WalkEnds, Zenon
    <3> QED
      BY <2>1, <3>1
  <2>2. CASE ~lowest(tr, n, p)
    <3> DEFINE h == Head(tr.children[n])
    <3>1. h \in Node
      BY <2>2 DEF Ranked
    <3>2. IsWalk(tr, p, g[h], h)
      BY <3>1, <1>1
    <3>3. IsWalk(tr, p, <<n>> \o g[h], n)
      BY <2>2, <3>2, WalkGoesOn, Zenon
    <3>4. g[n] = <<n>> \o g[h]
      BY <3>3, <1>1, WalkExists, Zenon
    <3> QED
      BY <2>2, <3>4
  <2> QED
    BY <2>1, <2>2
<1>3. DOMAIN g = Node /\ g = [n \in Node |-> g[n]]
  OBVIOUS
<1> HIDE DEF g
<1>4. Descends(g, tr, p)
  BY <1>2, <1>3 DEF Descends
<1> DEFINE f == Descent(tr, p)
<1>5. Descends(f, tr, p)
  BY <1>4, DescentDefined, Zenon
<1> HIDE DEF f
<1>6. /\ \A n \in Node : lowest(tr, n, p) => f[n] = <<n>>
      /\ \A n \in Node : ~lowest(tr, n, p) => f[n] = <<n>> \o f[Head(tr.children[n])]
  <2> DEFINE F == [n \in Node |-> IF lowest(tr, n, p) THEN <<n>>
                                  ELSE <<n>> \o f[Head(tr.children[n])]]
  <2>1. f = F
    BY <1>5 DEF Descends
  <2>2. /\ \A n \in Node : lowest(tr, n, p) => F[n] = <<n>>
        /\ \A n \in Node : ~lowest(tr, n, p) => F[n] = <<n>> \o f[Head(tr.children[n])]
    OBVIOUS
  <2> HIDE DEF F
  <2> QED
    BY <2>1, <2>2
<1> DEFINE Bad == {n \in Node : ~IsWalk(tr, p, f[n], n)}
           S == {rank[n] : n \in Bad}
<1>7. rank \in [Node -> Nat]
  BY DEF Ranked
<1>8. ASSUME NEW n \in Bad, \A m \in Bad : rank[n] <= rank[m] PROVE FALSE
  <2> n \in Node
    OBVIOUS
  <2>1. CASE lowest(tr, n, p)
    BY <2>1, <1>6, WalkEnds
  <2>2. CASE ~lowest(tr, n, p)
    <3> DEFINE h == Head(tr.children[n])
    <3>1. h \in Node /\ rank[h] < rank[n]
      BY <2>2 DEF Ranked
    <3>2. f[n] = <<n>> \o f[h]
      BY <2>2, <1>6
    <3> HIDE DEF h
    <3>3. rank[h] \in Nat /\ rank[n] \in Nat
      BY <1>7, <3>1
    <3>4. h \notin Bad
      BY <3>1, <3>3, <1>8
    <3>5. IsWalk(tr, p, f[h], h)
      BY <3>1, <3>4
    <3>6. IsWalk(tr, p, <<n>> \o f[h], n)
      BY <2>2, <3>5, WalkGoesOn, Zenon DEF h
    <3> QED
      BY <3>2, <3>6
  <2> QED
    BY <2>1, <2>2
<1>9. Bad = {}
  <2> SUFFICES ASSUME Bad # {} PROVE FALSE
    OBVIOUS
  <2>1. S \in SUBSET Nat /\ S # {}
    BY <1>7
  <2>2. PICK x \in S : \A y \in S : x <= y
    BY <2>1, Least
  <2>3. PICK n \in Bad : x = rank[n]
    BY <2>2
  <2>4. \A m \in Bad : rank[n] <= rank[m]
    BY <2>2, <2>3
  <2> QED
    BY <2>4, <1>8
<1> QED
  BY <1>9 DEF f

-----------------------------------------------------------------------------
(* The shape of the stacks *)

\* What StackInv says of the stacks, whatever else is in a frame: every call but the
\* outermost is a branch of the one below it.
Shape(st, stk) ==
    /\ stk \in [Thread -> Seq(Frame)] /\ st \in [Item -> node_state]
    /\ \A t \in Thread : \A k \in DOMAIN stk[t] :
         /\ stk[t][k].anchor = IF k = 1 THEN Dummy(stk[t][k].item) ELSE stk[t][k].item
         /\ k < Len(stk[t]) => stk[t][k + 1].item \in Kids(st, stk[t][k])
         /\ \A u \in Thread : \A l \in DOMAIN stk[u] :
              stk[u][l].item = stk[t][k].item => u = t /\ l = k

\* The frames of a stack.
LEMMA Frames ==
    ASSUME NEW st, NEW stk, Shape(st, stk), NEW t \in Thread
    PROVE  /\ stk[t] \in Seq(Frame) /\ Len(stk[t]) \in Nat /\ DOMAIN stk[t] = 1 .. Len(stk[t])
           /\ \A k \in 1 .. Len(stk[t]) :
                /\ stk[t][k] \in Frame /\ stk[t][k].item \in Item /\ stk[t][k].anchor \in Node
                /\ stk[t][k].made \in Nat /\ stk[t][k].next \in Nat /\ stk[t][k].next >= 1
                /\ k = 1 => stk[t][k].anchor = Dummy(stk[t][k].item)
                /\ k # 1 => stk[t][k].anchor = stk[t][k].item
                /\ k < Len(stk[t]) => stk[t][k + 1].item \in Kids(st, stk[t][k])
                /\ \A u \in Thread : \A l \in DOMAIN stk[u] :
                     stk[u][l].item = stk[t][k].item => u = t /\ l = k
<1>1. stk[t] \in Seq(Frame)
  BY DEF Shape
<1>2. \A k \in 1 .. Len(stk[t]) : stk[t][k] \in Frame
  BY <1>1
<1>3. Len(stk[t]) \in Nat /\ DOMAIN stk[t] = 1 .. Len(stk[t])
  BY <1>1
<1>4. \A k \in 1 .. Len(stk[t]) :
        /\ stk[t][k].item \in Item /\ stk[t][k].anchor \in Node
        /\ stk[t][k].made \in Nat /\ stk[t][k].next \in Nat /\ stk[t][k].next >= 1
  BY <1>2 DEF Frame
<1>5. \A k \in 1 .. Len(stk[t]) :
        /\ k = 1 => stk[t][k].anchor = Dummy(stk[t][k].item)
        /\ k # 1 => stk[t][k].anchor = stk[t][k].item
        /\ k < Len(stk[t]) => stk[t][k + 1].item \in Kids(st, stk[t][k])
        /\ \A u \in Thread : \A l \in DOMAIN stk[u] :
             stk[u][l].item = stk[t][k].item => u = t /\ l = k
  BY <1>3, Zenon DEF Shape
<1> QED
  BY <1>1, <1>2, <1>3, <1>4, <1>5, ZenonT(40)

\* The innermost call of a thread that has one.
LEMMA TopFrame ==
    ASSUME NEW st, NEW stk, Shape(st, stk), NEW t \in Thread, stk[t] # <<>>
    PROVE  /\ Len(stk[t]) \in Nat /\ Len(stk[t]) >= 1 /\ Len(stk[t]) \in 1 .. Len(stk[t])
           /\ stk[t][Len(stk[t])] \in Frame
<1>1. stk[t] \in Seq(Frame) /\ Len(stk[t]) \in Nat
  BY Frames
<1>2. Len(stk[t]) >= 1
  BY <1>1
<1> QED
  BY <1>1, <1>2

\* The waiting branches of a call are branches of it.
LEMMA KidsOf ==
    ASSUME NEW st, NEW f \in Frame, NEW c \in Kids(st, f)
    PROVE  c \in Item /\ c \in Node /\ c \in Range(Branches[f.item]) /\ st[c] = "UNUSED"
<1>1. f.item \in Item /\ f.next \in Nat /\ f.next >= 1 /\ f.made \in Nat
  BY DEF Frame
<1>2. c \in Item /\ st[c] = "UNUSED" /\ \E j \in DOMAIN Branches[f.item] : c = Branches[f.item][j]
  BY DEF Kids
<1>3. c \in Node
  BY <1>2, Nodes
<1> QED
  BY <1>1, <1>2, <1>3 DEF Range

\* Two frames have different anchors.
LEMMA AnchorsDiffer ==
    ASSUME NEW st, NEW stk, Shape(st, stk), NEW t \in Thread, NEW k \in 1 .. Len(stk[t]),
           NEW u \in Thread, NEW l \in 1 .. Len(stk[u]), stk[t][k].anchor = stk[u][l].anchor
    PROVE  t = u /\ k = l
<1>1. k \in 1 .. Len(stk[t]) /\ l \in 1 .. Len(stk[u])
  BY Frames
<1>3. /\ stk[t][k].item \in Item /\ stk[u][l].item \in Item
      /\ k = 1 => stk[t][k].anchor = Dummy(stk[t][k].item)
      /\ k # 1 => stk[t][k].anchor = stk[t][k].item
      /\ l = 1 => stk[u][l].anchor = Dummy(stk[u][l].item)
      /\ l # 1 => stk[u][l].anchor = stk[u][l].item
  BY <1>1, Frames
<1>2. stk[t][k].item = stk[u][l].item
  BY <1>3, Nodes
<1> QED
  BY <1>1, <1>2, Frames

\* A branch of a call that is in progress itself is the next frame.
LEMMA BranchRuns ==
    ASSUME NEW st, NEW stk, Shape(st, stk), NEW t \in Thread, NEW k \in 1 .. Len(stk[t]),
           NEW u \in Thread, NEW l \in 1 .. Len(stk[u]),
           stk[u][l].anchor \in Range(Branches[stk[t][k].item])
    PROVE  u = t /\ l = k + 1 /\ stk[u][l].item = stk[u][l].anchor
<1> DEFINE c == stk[u][l].anchor
<1>0. c \in Range(Branches[stk[t][k].item]) /\ stk[u][l].anchor = c
  OBVIOUS
<1> HIDE DEF c
<1>1. stk[t][k].item \in Item /\ k \in Int /\ l \in 1 .. Len(stk[u]) /\ Len(stk[u]) \in Nat
  BY Frames
<1>2. c \in Item
  BY <1>0, <1>1, BranchesOf
<1>3. l # 1 /\ stk[u][l].item = c
  <2>1. /\ stk[u][l].item \in Item
        /\ l = 1 => stk[u][l].anchor = Dummy(stk[u][l].item)
        /\ l # 1 => stk[u][l].anchor = stk[u][l].item
    BY <1>1, Frames
  <2> QED
    BY <2>1, <1>0, <1>2, Nodes
<1> DEFINE j == l - 1
<1>4. j \in DOMAIN stk[u] /\ j < Len(stk[u]) /\ j + 1 = l
  BY <1>1, <1>3, Frames
<1> HIDE DEF j
<1>5. c \in Kids(st, stk[u][j]) /\ stk[u][j] \in Frame
  BY <1>3, <1>4, Frames, SMTT(30)
<1>6. c \in Range(Branches[stk[u][j].item]) /\ stk[u][j].item \in Item
  BY <1>5, KidsOf, <1>4, Frames
<1>7. stk[u][j].item = stk[t][k].item
  BY <1>0, <1>1, <1>6, Forest
<1>8. u = t /\ j = k
  BY <1>1, <1>4, <1>7, Frames
<1> QED
  BY <1>0, <1>3, <1>4, <1>8

-----------------------------------------------------------------------------
(* The tree and the stacks *)

\* The element of a set with a single one.
LEMMA Only ==
    ASSUME NEW S, NEW v, S = {v}
    PROVE  (CHOOSE x \in S : TRUE) = v
<1>1. \E x \in S : TRUE
  OBVIOUS
<1>2. (CHOOSE x \in S : TRUE) \in S
  BY <1>1, Zenon
<1> QED
  BY <1>2

\* A list of one element is not empty.
LEMMA LenOne ==
    ASSUME NEW s, Len(s) = 1
    PROVE  s # <<>>
OBVIOUS

\* The fields of a tree.
LEMMA TreeFields ==
    ASSUME NEW tr \in Tree
    PROVE  /\ tr.parent \in [Node -> Node \cup {None}] /\ tr.children \in [Node -> Seq(Item)]
           /\ tr.rooted \in [Node -> BOOLEAN] /\ tr.cell \in [Thread -> Node \cup {None}]
           /\ tr = [parent |-> tr.parent, children |-> tr.children,
                    rooted |-> tr.rooted, cell |-> tr.cell]
BY DEF Tree

\* A node with children is the anchor of a frame, and its children are those of the frame.
LEMMA ChildrenOf ==
    ASSUME NEW st, NEW stk, Shape(st, stk), NEW tr, Hung(tr, st, stk), Anchored(tr, stk),
           NEW x \in Node, tr.children[x] # <<>>
    PROVE  \E u \in Thread : \E k \in 1 .. Len(stk[u]) :
              x = stk[u][k].anchor /\ Linked(tr, st, stk[u][k])
<1>1. PICK u \in Thread : \E k \in DOMAIN stk[u] : stk[u][k].anchor = x
  BY DEF Anchored
<1>2. PICK k \in DOMAIN stk[u] : stk[u][k].anchor = x
  BY <1>1
<1>3. ~Cut(tr, st, stk[u][k])
  BY <1>2 DEF Cut
<1>4. Linked(tr, st, stk[u][k])
  BY <1>3 DEF Hung
<1>5. k \in 1 .. Len(stk[u])
  BY Frames
<1> QED
  BY <1>2, <1>4, <1>5

\* The k-th call of u has one waiting branch h, and the next call is that one.
Sole(st, stk, u, k, h) ==
    /\ Kids(st, stk[u][k]) = {h} /\ h \in Item /\ h \in Node
    /\ h \in Range(Branches[stk[u][k].item])
    /\ k < Len(stk[u]) => stk[u][k + 1].anchor = h /\ stk[u][k + 1].item = h
    /\ k = Len(stk[u]) => \A v \in Thread : \A l \in DOMAIN stk[v] : stk[v][l].anchor # h

\* An only child of a frame's anchor.
LEMMA OnlyChild ==
    ASSUME NEW st, NEW stk, Shape(st, stk), NEW tr \in Tree, NEW u \in Thread,
           NEW k \in 1 .. Len(stk[u]), Linked(tr, st, stk[u][k]),
           Len(tr.children[stk[u][k].anchor]) = 1
    PROVE  Sole(st, stk, u, k, Head(tr.children[stk[u][k].anchor]))
<1> DEFINE f == stk[u][k]
           h == Head(tr.children[f.anchor])
<1>1. f \in Frame /\ f.anchor \in Node /\ Len(stk[u]) \in Nat /\ f.item \in Item
  BY Frames
<1>2. tr.children[f.anchor] \in Seq(Item)
  BY <1>1, TreeFields
<1>3. Range(tr.children[f.anchor]) = {h}
  BY <1>2 DEF Range
<1>4. Kids(st, f) = {h}
  BY <1>3 DEF Linked
<1> HIDE DEF f, h
<1>5. h \in Item /\ h \in Node /\ h \in Range(Branches[f.item])
  BY <1>1, <1>4, KidsOf
<1>6. ASSUME k < Len(stk[u]) PROVE stk[u][k + 1].anchor = h /\ stk[u][k + 1].item = h
  <2>1. k + 1 \in 1 .. Len(stk[u]) /\ k + 1 # 1
    BY <1>1, <1>6
  <2>2. stk[u][k + 1].item \in Kids(st, f) /\ stk[u][k + 1].anchor = stk[u][k + 1].item
    BY <2>1, <1>6, Frames DEF f
  <2> QED
    BY <2>2, <1>4
<1>7. ASSUME k = Len(stk[u]), NEW v \in Thread, NEW l \in DOMAIN stk[v], stk[v][l].anchor = h PROVE FALSE
  <2>1. k \in DOMAIN stk[u] /\ l \in 1 .. Len(stk[v])
    BY Frames
  <2>3. h \in Range(Branches[stk[u][k].item])
    BY <1>5 DEF f
  <2>4. stk[v][l].anchor = h
    BY <1>7
  <2>2. v = u /\ l = k + 1
    BY <2>1, <2>3, <2>4, BranchRuns
  <2> QED
    BY <2>1, <2>2, <1>1, <1>7
<1> QED
  BY <1>4, <1>5, <1>6, <1>7 DEF f, h, Sole

\* The loop of try_correct_root ends: it goes down the stack of one thread.
LEMMA LoopEnds ==
    ASSUME NEW st, NEW stk, Shape(st, stk), NEW tr \in Tree, Hung(tr, st, stk), Anchored(tr, stk),
           NEW p
    PROVE  \E rank : Ranked(tr, p, rank)
<1> DEFINE Depths(x) == {d \in Nat : \E u \in Thread : \E k \in DOMAIN stk[u] :
                            stk[u][k].anchor = x /\ d = Len(stk[u]) - k + 1}
           rank == [x \in Node |-> IF Depths(x) = {} THEN 0 ELSE CHOOSE d \in Depths(x) : TRUE]
<1>1. ASSUME NEW u \in Thread, NEW k \in 1 .. Len(stk[u])
      PROVE  Depths(stk[u][k].anchor) = {Len(stk[u]) - k + 1}
  <2>1. Len(stk[u]) - k + 1 \in Nat /\ k \in DOMAIN stk[u]
    BY Frames
  <2>2. ASSUME NEW v \in Thread, NEW l \in DOMAIN stk[v], stk[v][l].anchor = stk[u][k].anchor
        PROVE  v = u /\ l = k
    <3>1. l \in 1 .. Len(stk[v])
      BY Frames
    <3> QED
      BY <3>1, <2>2, AnchorsDiffer
  <2> QED
    BY <2>1, <2>2
<1>2. ASSUME NEW u \in Thread, NEW k \in 1 .. Len(stk[u])
      PROVE  rank[stk[u][k].anchor] = Len(stk[u]) - k + 1
  <2>1. stk[u][k].anchor \in Node
    BY Frames
  <2>4. rank[stk[u][k].anchor] = CHOOSE d \in Depths(stk[u][k].anchor) : TRUE
    BY <2>1, <1>1
  <2>5. (CHOOSE d \in Depths(stk[u][k].anchor) : TRUE) = Len(stk[u]) - k + 1
    BY <1>1, Only
  <2> QED
    BY <2>4, <2>5
<1>3. rank \in [Node -> Nat]
  <2>1. \A x \in Node : Depths(x) # {} => (CHOOSE d \in Depths(x) : TRUE) \in Depths(x)
    OBVIOUS
  <2>2. \A x \in Node : Depths(x) \subseteq Nat
    OBVIOUS
  <2> HIDE DEF Depths
  <2> QED
    BY <2>1, <2>2
<1>4. ASSUME NEW x \in Node, \A u \in Thread : \A k \in DOMAIN stk[u] : stk[u][k].anchor # x
      PROVE  rank[x] = 0
  <2>1. Depths(x) = {}
    BY <1>4
  <2> QED
    BY <2>1
<1> HIDE DEF rank, Depths
<1>5. ASSUME NEW x \in Node, ~lowest(tr, x, p)
      PROVE  Head(tr.children[x]) \in Node /\ rank[Head(tr.children[x])] < rank[x]
  <2>1. Len(tr.children[x]) = 1 /\ tr.children[x] \in Seq(Item)
    BY <1>5, TreeFields DEF lowest
  <2>2. tr.children[x] # <<>>
    BY <2>1, LenOne
  <2>3. PICK u \in Thread : \E k \in 1 .. Len(stk[u]) :
              x = stk[u][k].anchor /\ Linked(tr, st, stk[u][k])
    BY <2>2, ChildrenOf
  <2>4. PICK k \in 1 .. Len(stk[u]) : x = stk[u][k].anchor /\ Linked(tr, st, stk[u][k])
    BY <2>3
  <2> DEFINE h == Head(tr.children[x])
  <2>5. /\ h \in Node
        /\ k < Len(stk[u]) => stk[u][k + 1].anchor = h
        /\ k = Len(stk[u]) => \A v \in Thread : \A l \in DOMAIN stk[v] : stk[v][l].anchor # h
    <3>1. Sole(st, stk, u, k, h)
      BY <2>1, <2>4, OnlyChild
    <3> QED
      BY <3>1 DEF Sole
  <2> HIDE DEF h
  <2>6. rank[x] = Len(stk[u]) - k + 1 /\ Len(stk[u]) \in Nat
    BY <2>4, <1>2, Frames
  <2>7. CASE k < Len(stk[u])
    <3>1. k + 1 \in 1 .. Len(stk[u])
      BY <2>6, <2>7
    <3>2. rank[h] = Len(stk[u]) - (k + 1) + 1
      BY <3>1, <2>5, <2>7, <1>2
    <3> QED
      BY <3>2, <2>5, <2>6 DEF h
  <2>8. CASE k = Len(stk[u])
    <3>1. rank[h] = 0
      BY <2>5, <2>8, <1>4
    <3> QED
      BY <3>1, <2>5, <2>6, <2>8 DEF h
  <2> QED
    BY <2>6, <2>7, <2>8
<1>6. Ranked(tr, p, rank)
  BY <1>3, <1>5 DEF Ranked
<1> QED
  BY <1>6

-----------------------------------------------------------------------------
(* What try_correct_root does *)

\* The root of t goes from the node of its m-th call to the only child of the l-th, and the
\* nodes above it are pruned.
Lowering(tr, stk, t, m, l) ==
    LET old == {stk[t][k].anchor : k \in m .. l}
        new == Head(tr.children[stk[t][l].anchor])
    IN  [parent   |-> [n \in Node |-> IF n \in old \cup {new} THEN None ELSE tr.parent[n]],
         children |-> [n \in Node |-> IF n \in old THEN <<>> ELSE tr.children[n]],
         rooted   |-> [n \in Node |-> n \notin old /\ tr.rooted[n]],
         cell     |-> [tr.cell EXCEPT ![t] = new]]

\* The root of t is the node of its m-th call, which has one child, as those to the l-th.
OneBelow(tr, stk, t, m, l) ==
    /\ tr.cell[t] = stk[t][m].anchor
    /\ \A k \in m .. l : Len(tr.children[stk[t][k].anchor]) = 1

\* d is a line of only children.
OnlyChildren(tr, d) == \A i \in 1 .. Len(d) - 1 :
    Len(tr.children[d[i]]) = 1 /\ d[i + 1] = Head(tr.children[d[i]])

\* d goes along the stack of t, from the m-th call on, to a branch of one of its calls.
AlongStack(stk, t, m, d) == \A i \in 1 .. Len(d) - 1 :
    m + i - 1 <= Len(stk[t]) /\ d[i] = stk[t][m + i - 1].anchor

\* The nodes that the loop comes to are those of the calls of a stack, and at last the only
\* child of the one above.
LEMMA LoopOnStack ==
    ASSUME NEW st, NEW stk, Shape(st, stk), NEW tr \in Tree, Hung(tr, st, stk), Anchored(tr, stk),
           NEW t \in Thread, NEW m \in 1 .. Len(stk[t]), NEW d \in Seq(Node), Len(d) >= 2,
           d[1] = stk[t][m].anchor, OnlyChildren(tr, d)
    PROVE  AlongStack(stk, t, m, d)
<1> DEFINE n == Len(stk[t])
           Ok(i) == m + i - 1 <= n /\ d[i] = stk[t][m + i - 1].anchor
           S == {i \in 1 .. Len(d) - 1 : ~Ok(i)}
<1>0. n \in Nat /\ Len(d) \in Nat /\ m \in 1 .. n
  BY Frames
<1>1. Ok(1)
  <2>1. m + 1 - 1 = m
    BY <1>0
  <2> QED
    BY <2>1, <1>0
<1>2. ASSUME NEW i \in S, \A j \in S : i <= j PROVE FALSE
  <2>1. i \in 1 .. Len(d) - 1 /\ ~Ok(i) /\ i # 1
    BY <1>1
  <2> DEFINE j == i - 1
  <2>2. j \in 1 .. Len(d) - 1 /\ j + 1 = i /\ ~(i <= j)
    BY <2>1, <1>0
  <2> HIDE DEF j
  <2>3. j \notin S
    BY <2>2, <1>2
  <2>4. m + j - 1 <= n /\ d[j] = stk[t][m + j - 1].anchor
    BY <2>2, <2>3
  <2> DEFINE k == m + j - 1
  <2>5. k \in 1 .. n /\ m + i - 1 = k + 1 /\ k <= n /\ d[j] = stk[t][k].anchor
    BY <2>2, <2>4, <1>0
  <2> HIDE DEF k, n
  <2>6. /\ Len(tr.children[stk[t][k].anchor]) = 1 /\ d[i] = Head(tr.children[stk[t][k].anchor])
    <3>1. Len(tr.children[d[j]]) = 1 /\ d[j + 1] = Head(tr.children[d[j]])
      BY <2>2 DEF OnlyChildren
    <3> QED
      BY <3>1, <2>2, <2>5
  <2>7. Linked(tr, st, stk[t][k])
    <3>1. tr.children[stk[t][k].anchor] # <<>>
      BY <2>6, LenOne
    <3>2. ~Cut(tr, st, stk[t][k])
      BY <3>1 DEF Cut
    <3>3. k \in DOMAIN stk[t]
      BY <2>5, Frames DEF n
    <3> QED
      BY <3>2, <3>3 DEF Hung
  <2>8. /\ k < n => stk[t][k + 1].anchor = d[i]
        /\ k = n => \A v \in Thread : \A l \in DOMAIN stk[v] : stk[v][l].anchor # d[i]
    <3> DEFINE h == Head(tr.children[stk[t][k].anchor])
    <3>1. k \in 1 .. Len(stk[t])
      BY <2>5 DEF n
    <3>2. /\ k < Len(stk[t]) => stk[t][k + 1].anchor = h
          /\ k = Len(stk[t]) => \A v \in Thread : \A l \in DOMAIN stk[v] : stk[v][l].anchor # h
      <4>1. Sole(st, stk, t, k, h)
        BY <3>1, <2>6, <2>7, OnlyChild
      <4> QED
        BY <4>1 DEF Sole
    <3>3. d[i] = h
      BY <2>6
    <3> HIDE DEF h
    <3> QED
      BY <3>2, <3>3 DEF n
  <2>9. CASE k < n
    <3>1. stk[t][m + i - 1].anchor = d[i]
      BY <2>9, <2>8, <2>5
    <3>2. m + i - 1 <= n
      BY <2>9, <2>5, <1>0
    <3> QED
      BY <3>1, <3>2, <2>1
  <2>10. CASE k = n
    <3>1. \A v \in Thread : \A l \in DOMAIN stk[v] : stk[v][l].anchor # d[i]
      BY <2>8, <2>10
    <3>2. d[i] \in Node
      BY <2>1
    <3>3. tr.children[d[i]] = <<>>
      BY <3>1, <3>2 DEF Anchored
    <3>4. Len(tr.children[d[i]]) = 1
      BY <2>1 DEF OnlyChildren
    <3> QED
      BY <3>3, <3>4, LenOne
  <2> QED
    BY <2>5, <2>9, <2>10, <1>0
<1>3. S = {}
  <2> SUFFICES ASSUME S # {} PROVE FALSE
    OBVIOUS
  <2>1. S \in SUBSET Nat
    BY <1>0
  <2>2. PICK x \in S : \A y \in S : x <= y
    BY <2>1, Least
  <2> QED
    BY <2>2, <1>2
<1> QED
  BY <1>3 DEF AlongStack

\* The root a thread holds is the anchor of a frame of its own, if it has children.
LEMMA RootIsOwn ==
    ASSUME NEW st, NEW stk, Shape(st, stk), NEW tr \in Tree, Hung(tr, st, stk), Anchored(tr, stk),
           NEW rn, Home(tr, rn, stk), NEW t \in Thread,
           tr.cell[t] # None, tr.children[tr.cell[t]] # <<>>
    PROVE  \E m \in 1 .. Len(stk[t]) : tr.cell[t] = stk[t][m].anchor /\ Linked(tr, st, stk[t][m])
<1> DEFINE r == tr.cell[t]
<1>1. r \in Node
  BY TreeFields
<1>2. PICK u \in Thread : \E k \in 1 .. Len(stk[u]) : r = stk[u][k].anchor /\ Linked(tr, st, stk[u][k])
  BY <1>1, ChildrenOf
<1>3. PICK k \in 1 .. Len(stk[u]) : r = stk[u][k].anchor /\ Linked(tr, st, stk[u][k])
  BY <1>2
<1>4. PICK i \in Item : /\ r = Dummy(i) \/ r \in Range(Branches[i])
                        /\ \A v \in Thread : \A l \in DOMAIN stk[v] : stk[v][l].item = i => v = t
  BY DEF Home
<1> HIDE DEF r
<1>5. /\ stk[u][k].item \in Item /\ k \in DOMAIN stk[u] /\ Len(stk[u]) \in Nat
      /\ k = 1 => stk[u][k].anchor = Dummy(stk[u][k].item)
      /\ k # 1 => stk[u][k].anchor = stk[u][k].item
  BY Frames
<1>6. u = t
  <2>1. CASE k = 1
    <3>1. r \notin Range(Branches[i])
      <4>1. Range(Branches[i]) \subseteq Item
        BY BranchesOf
      <4>2. r = Dummy(stk[u][k].item)
        BY <2>1, <1>3, <1>5
      <4> QED
        BY <4>1, <4>2, <1>5, Nodes
    <3>2. i = stk[u][k].item
      BY <3>1, <2>1, <1>3, <1>4, <1>5, Nodes
    <3> QED
      BY <3>2, <1>4, <1>5
  <2>2. CASE k # 1
    <3> DEFINE j == k - 1
    <3>1. j \in 1 .. Len(stk[u]) /\ j < Len(stk[u]) /\ j + 1 = k
      BY <2>2, <1>5
    <3> HIDE DEF j
    <3>2. stk[u][j + 1].item \in Kids(st, stk[u][j]) /\ stk[u][j] \in Frame /\ j \in DOMAIN stk[u]
      BY <3>1, Frames
    <3>3. r \in Kids(st, stk[u][j])
      BY <3>1, <3>2, <2>2, <1>3, <1>5
    <3>4. r \in Range(Branches[stk[u][j].item]) /\ r \in Item /\ stk[u][j].item \in Item
      BY <3>2, <3>3, KidsOf DEF Frame
    <3>5. r \in Range(Branches[i])
      BY <3>4, <1>4, Nodes
    <3>6. stk[u][j].item = i
      BY <3>4, <3>5, Forest
    <3> QED
      BY <3>2, <3>6, <1>4
  <2> QED
    BY <2>1, <2>2
<1> QED
  BY <1>3, <1>6 DEF r

\* Correcting the root of a thread does nothing or lowers it along the stack.
LEMMA CorrectLowers ==
    ASSUME NEW st, NEW stk, Shape(st, stk), NEW tr \in Tree, Hung(tr, st, stk), Anchored(tr, stk),
           NEW rn, Home(tr, rn, stk), NEW t \in Thread, NEW p
    PROVE  \/ try_correct_root(tr, t, p) = tr
           \/ \E m \in 1 .. Len(stk[t]) : \E l \in m .. Len(stk[t]) :
                /\ OneBelow(tr, stk, t, m, l)
                /\ try_correct_root(tr, t, p) = Lowering(tr, stk, t, m, l)
<1> DEFINE r == get_root(tr, t, p)
           d == Descent(tr, p)[Head(tr.children[r])]
           down == <<r>> \o d
<1>1. CASE r = None \/ (r # None /\ Len(tr.children[r]) # 1)
  BY <1>1 DEF try_correct_root
<1>2. CASE r # None /\ Len(tr.children[r]) = 1
  <2>1. r = tr.cell[t] /\ tr.cell[t] # None
    BY <1>2 DEF get_root
  <2>2. try_correct_root(tr, t, p) =
          [parent   |-> [n \in Node |-> IF n \in Range(Front(down)) \cup {Last(down)} THEN None ELSE tr.parent[n]],
           children |-> [n \in Node |-> IF n \in Range(Front(down)) THEN <<>> ELSE tr.children[n]],
           rooted   |-> [n \in Node |-> n \notin Range(Front(down)) /\ tr.rooted[n]],
           cell     |-> [tr.cell EXCEPT ![t] = Last(down)]]
    BY <1>2, Zenon DEF try_correct_root
  <2>3. Len(tr.children[r]) = 1
    BY <1>2
  <2> HIDE DEF r
  <2>4. PICK m \in 1 .. Len(stk[t]) : r = stk[t][m].anchor /\ Linked(tr, st, stk[t][m])
    BY <2>1, <2>3, LenOne, RootIsOwn
  <2>5. r \in Node /\ Len(stk[t]) \in Nat
    BY <2>4, Frames
  <2> DEFINE h == Head(tr.children[r])
  <2>6. h \in Node
    BY <2>3, <2>4, OnlyChild DEF Sole
  <2>7. IsWalk(tr, p, d, h)
    <3>1. PICK rank : Ranked(tr, p, rank)
      BY LoopEnds
    <3> QED
      BY <3>1, <2>6, DescentWalk
  <2> HIDE DEF h, d
  <2>8. /\ d \in Seq(Node) /\ d # <<>> /\ d[1] = h
        /\ \A i \in 1 .. Len(d) - 1 : Len(tr.children[d[i]]) = 1 /\ d[i + 1] = Head(tr.children[d[i]])
    BY <2>7 DEF IsWalk, lowest
  <2>9. /\ down \in Seq(Node) /\ Len(down) = Len(d) + 1 /\ Len(d) \in Nat \ {0} /\ down[1] = r
        /\ \A i \in 1 .. Len(d) : down[i + 1] = d[i]
    <3>1. <<r>> \in Seq(Node) /\ Len(<<r>>) = 1
      BY <2>5
    <3>2. /\ down \in Seq(Node) /\ Len(down) = 1 + Len(d)
          /\ \A i \in 1 .. 1 + Len(d) : down[i] = IF i <= 1 THEN <<r>>[i] ELSE d[i - 1]
      BY <2>8, <3>1, ConcatProperties
    <3> HIDE DEF down
    <3>3. Len(d) \in Nat \ {0}
      BY <2>8
    <3>4. down[1] = r
      BY <3>2, <3>3
    <3>5. ASSUME NEW i \in 1 .. Len(d) PROVE down[i + 1] = d[i]
      <4>1. i + 1 \in 1 .. 1 + Len(d) /\ ~(i + 1 <= 1) /\ (i + 1) - 1 = i
        BY <3>3
      <4> QED
        BY <4>1, <3>2
    <3> QED
      BY <3>2, <3>3, <3>4, <3>5
  <2> HIDE DEF down
  <2>10. ASSUME NEW i \in 1 .. Len(down) - 1
         PROVE  Len(tr.children[down[i]]) = 1 /\ down[i + 1] = Head(tr.children[down[i]])
    <3>1. CASE i = 1
      <4>1. down[i] = r /\ down[i + 1] = h
        BY <3>1, <2>8, <2>9
      <4> QED
        BY <4>1, <2>3 DEF h
    <3>2. CASE i # 1
      <4>1. i - 1 \in 1 .. Len(d) - 1 /\ i - 1 \in 1 .. Len(d) /\ i \in 1 .. Len(d)
        BY <3>2, <2>9
      <4>2. down[(i - 1) + 1] = d[i - 1] /\ down[i + 1] = d[i]
        BY <4>1, <2>9
      <4>3. (i - 1) + 1 = i
        BY <4>1
      <4> QED
        BY <4>1, <4>2, <4>3, <2>8
    <3> QED
      BY <3>1, <3>2
  <2> DEFINE L == Len(down)
             l == m + L - 2
             old == {stk[t][k].anchor : k \in m .. l}
  <2>11. L \in Nat /\ L >= 2 /\ L - 1 \in 1 .. L - 1 /\ (L - 1) + 1 = L
    BY <2>9
  <2>12. \A i \in 1 .. L - 1 : m + i - 1 <= Len(stk[t]) /\ down[i] = stk[t][m + i - 1].anchor
    <3>1. OnlyChildren(tr, down)
      BY <2>10 DEF OnlyChildren
    <3>2. down[1] = stk[t][m].anchor /\ Len(down) >= 2 /\ down \in Seq(Node)
      BY <2>4, <2>9, <2>11
    <3>3. AlongStack(stk, t, m, down)
      BY <3>1, <3>2, LoopOnStack
    <3> QED
      BY <3>3 DEF AlongStack
  <2>13. l \in m .. Len(stk[t]) /\ down[L - 1] = stk[t][l].anchor
    <3>1. m + (L - 1) - 1 = l
      BY <2>11
    <3>2. m + (L - 1) - 1 <= Len(stk[t]) /\ down[L - 1] = stk[t][m + (L - 1) - 1].anchor
      BY <2>11, <2>12
    <3> QED
      BY <3>1, <3>2, <2>5, <2>11
  <2>14. Last(down) = Head(tr.children[stk[t][l].anchor])
    <3>1. down[L] = Head(tr.children[down[L - 1]])
      BY <2>10, <2>11
    <3> QED
      BY <3>1, <2>13 DEF Last
  <2>15. Range(Front(down)) = old
    <3> DEFINE fr == Front(down)
    <3>1. fr \in Seq(Node) /\ DOMAIN fr = 1 .. L - 1 /\ \A i \in 1 .. L - 1 : fr[i] = down[i]
      <4>1. fr = SubSeq(down, 1, L - 1)
        BY DEF Front
      <4> QED
        BY <4>1, <2>9, <2>11
    <3> HIDE DEF fr
    <3>2. Range(fr) = {down[i] : i \in 1 .. L - 1}
      BY <3>1 DEF Range
    <3>3. ASSUME NEW i \in 1 .. L - 1 PROVE down[i] \in old
      <4>1. m + i - 1 \in m .. l
        BY <2>11
      <4> QED
        BY <4>1, <2>12
    <3>4. ASSUME NEW k \in m .. l PROVE \E i \in 1 .. L - 1 : stk[t][k].anchor = down[i]
      <4>1. k - m + 1 \in 1 .. L - 1 /\ m + (k - m + 1) - 1 = k
        BY <2>11
      <4>2. down[k - m + 1] = stk[t][m + (k - m + 1) - 1].anchor
        BY <4>1, <2>12
      <4> QED
        BY <4>1, <4>2
    <3>5. {down[i] : i \in 1 .. L - 1} = old
      BY <3>3, <3>4
    <3> QED
      BY <3>2, <3>5 DEF fr
  <2>16. try_correct_root(tr, t, p) = Lowering(tr, stk, t, m, l)
    BY <2>2, <2>14, <2>15 DEF Lowering
  <2>17. \A k \in m .. l : Len(tr.children[stk[t][k].anchor]) = 1
    <3> TAKE k \in m .. l
    <3>1. k - m + 1 \in 1 .. L - 1 /\ m + (k - m + 1) - 1 = k
      BY <2>11
    <3>2. down[k - m + 1] = stk[t][m + (k - m + 1) - 1].anchor
      BY <3>1, <2>12
    <3>3. Len(tr.children[down[k - m + 1]]) = 1
      BY <3>1, <2>10
    <3> QED
      BY <3>1, <3>2, <3>3
  <2>18. OneBelow(tr, stk, t, m, l)
    BY <2>1, <2>4, <2>17 DEF OneBelow
  <2> QED
    BY <2>13, <2>16, <2>18
<1> QED
  BY <1>1, <1>2

\* The calls in progress were run.
Running(rn, stk) == \A t \in Thread : \A k \in DOMAIN stk[t] : rn[stk[t][k].item] = 1

\* The parts of the invariant that are about the tree.
TreeInv(tr, st, stk, rn) ==
    /\ tr \in Tree
    /\ Hung(tr, st, stk)
    /\ Anchored(tr, stk)
    /\ Home(tr, rn, stk)
    /\ Known(tr, st, stk)

\* The root of t is `new`, and the nodes `old` above it are pruned.
Lowered(tr, tr2, t, old, new) ==
    /\ tr2 \in Tree
    /\ \A x \in Node : /\ x \in old => tr2.children[x] = <<>> /\ ~tr2.rooted[x]
                       /\ x \notin old => /\ tr2.children[x] = tr.children[x]
                                          /\ tr2.rooted[x] <=> tr.rooted[x]
                       /\ x \in old \/ x = new => tr2.parent[x] = None
                       /\ x \notin old /\ x # new => tr2.parent[x] = tr.parent[x]
    /\ tr2.cell[t] = new /\ \A u \in Thread : u # t => tr2.cell[u] = tr.cell[u]

\* The tree after the root was lowered, field by field.
LEMMA LoweringFields ==
    ASSUME NEW tr \in Tree, NEW stk, NEW t \in Thread, NEW m, NEW l,
           Head(tr.children[stk[t][l].anchor]) \in Node
    PROVE  Lowered(tr, Lowering(tr, stk, t, m, l), t, {stk[t][k].anchor : k \in m .. l},
                   Head(tr.children[stk[t][l].anchor]))
<1> DEFINE old == {stk[t][k].anchor : k \in m .. l}
           new == Head(tr.children[stk[t][l].anchor])
           tr2 == Lowering(tr, stk, t, m, l)
<1>0. new \in Node
  OBVIOUS
<1> HIDE DEF old, new, tr2
<1> DEFINE pa == [n \in Node |-> IF n \in old \cup {new} THEN None ELSE tr.parent[n]]
           ch == [n \in Node |-> IF n \in old THEN <<>> ELSE tr.children[n]]
           ro == [n \in Node |-> n \notin old /\ tr.rooted[n]]
           ce == [tr.cell EXCEPT ![t] = new]
<1>1. tr2 = [parent |-> pa, children |-> ch, rooted |-> ro, cell |-> ce]
  BY DEF Lowering, old, new, tr2
<1>2. /\ tr.parent \in [Node -> Node \cup {None}] /\ tr.children \in [Node -> Seq(Item)]
      /\ tr.rooted \in [Node -> BOOLEAN] /\ tr.cell \in [Thread -> Node \cup {None}]
  BY TreeFields
<1>3. /\ pa \in [Node -> Node \cup {None}] /\ ch \in [Node -> Seq(Item)]
      /\ ro \in [Node -> BOOLEAN] /\ ce \in [Thread -> Node \cup {None}]
  <2>1. pa \in [Node -> Node \cup {None}]
    BY <1>2
  <2>2. ch \in [Node -> Seq(Item)]
    BY <1>2
  <2>3. ro \in [Node -> BOOLEAN]
    OBVIOUS
  <2>4. ce \in [Thread -> Node \cup {None}]
    BY <1>0, <1>2
  <2> QED
    BY <2>1, <2>2, <2>3, <2>4
<1>4. \A x \in Node : /\ x \in old => ch[x] = <<>> /\ ~ro[x]
                      /\ x \notin old => ch[x] = tr.children[x] /\ (ro[x] <=> tr.rooted[x])
                      /\ x \in old \/ x = new => pa[x] = None
                      /\ x \notin old /\ x # new => pa[x] = tr.parent[x]
  OBVIOUS
<1>5. ce[t] = new /\ \A u \in Thread : u # t => ce[u] = tr.cell[u]
  BY <1>2
<1> HIDE DEF pa, ch, ro, ce
<1>6. tr2.parent = pa /\ tr2.children = ch /\ tr2.rooted = ro /\ tr2.cell = ce
  BY <1>1
<1>7. tr2 \in Tree
  BY <1>1, <1>3 DEF Tree
<1> QED
  BY <1>4, <1>5, <1>6, <1>7 DEF Lowered, old, new, tr2

\* Lowering the root keeps the tree in order.
LEMMA LoweringKeeps ==
    ASSUME NEW st, NEW stk, Shape(st, stk), NEW tr, NEW rn, TreeInv(tr, st, stk, rn),
           Running(rn, stk), policy = "QUASI_HORIZONTAL", NEW t \in Thread,
           NEW m \in 1 .. Len(stk[t]), NEW l \in m .. Len(stk[t]), OneBelow(tr, stk, t, m, l)
    PROVE  TreeInv(Lowering(tr, stk, t, m, l), st, stk, rn)
<1> DEFINE n == Len(stk[t])
           a(k) == stk[t][k].anchor
           h(k) == Head(tr.children[a(k)])
           old == {a(k) : k \in m .. l}
           new == h(l)
           tr2 == Lowering(tr, stk, t, m, l)
<1>1. /\ tr \in Tree /\ Hung(tr, st, stk) /\ Anchored(tr, stk) /\ Home(tr, rn, stk)
      /\ Known(tr, st, stk)
  BY DEF TreeInv
<1>2. n \in Nat /\ m \in 1 .. n /\ l \in m .. n /\ \A k \in m .. l : k \in 1 .. n /\ k \in DOMAIN stk[t]
  BY Frames
<1>3. ASSUME NEW k \in m .. l
      PROVE  /\ a(k) \in Node /\ Linked(tr, st, stk[t][k]) /\ Kids(st, stk[t][k]) = {h(k)}
             /\ h(k) \in Item /\ h(k) \in Node /\ h(k) \in Range(Branches[stk[t][k].item])
             /\ k < n => a(k + 1) = h(k) /\ stk[t][k + 1].item = h(k)
             /\ k = n => \A v \in Thread : \A j \in DOMAIN stk[v] : stk[v][j].anchor # h(k)
  <2>1. k \in 1 .. Len(stk[t]) /\ k \in DOMAIN stk[t]
    BY <1>2
  <2>2. Len(tr.children[a(k)]) = 1
    BY DEF OneBelow
  <2>3. Linked(tr, st, stk[t][k])
    <3>1. ~Cut(tr, st, stk[t][k])
      BY <2>2, LenOne DEF Cut
    <3> QED
      BY <2>1, <3>1, <1>1 DEF Hung
  <2>4. a(k) \in Node
    BY <2>1, Frames
  <2> QED
    <3>1. Sole(st, stk, t, k, h(k))
      BY <1>1, <2>1, <2>2, <2>3, OnlyChild
    <3> HIDE DEF a, h, n
    <3>2. n = Len(stk[t]) /\ a(k + 1) = stk[t][k + 1].anchor
      BY DEF n, a
    <3> QED
      BY <3>1, <3>2, <2>3, <2>4 DEF Sole
<1>4. l \in m .. l /\ m \in m .. l
  BY <1>2
<1>5. new \in Node /\ new \in Item
  BY <1>3, <1>4
<1>6. /\ tr2 \in Tree
      /\ \A x \in Node : /\ x \in old => tr2.children[x] = <<>> /\ ~tr2.rooted[x]
                         /\ x \notin old => /\ tr2.children[x] = tr.children[x]
                                            /\ tr2.rooted[x] <=> tr.rooted[x]
                         /\ x \in old \/ x = new => tr2.parent[x] = None
                         /\ x \notin old /\ x # new => tr2.parent[x] = tr.parent[x]
      /\ tr2.cell[t] = new /\ \A u \in Thread : u # t => tr2.cell[u] = tr.cell[u]
  <2>1. Lowered(tr, tr2, t, old, new)
    BY <1>1, <1>5, LoweringFields
  <2> QED
    BY <2>1 DEF Lowered
<1> HIDE DEF tr2, new, h
<1>7. tr.cell[t] = a(m) /\ tr.parent[a(m)] = None
  <2>1. tr.cell[t] = a(m) /\ a(m) # None
    BY <1>3, <1>4, Nodes DEF OneBelow
  <2> QED
    BY <2>1, <1>1 DEF Home
\* A node of an old root among the branches of a call is that of the next call of t.
<1>8. ASSUME NEW u \in Thread, NEW k \in 1 .. Len(stk[u]), NEW c \in Kids(st, stk[u][k]), c \in old
      PROVE  u = t /\ k + 1 \in m .. l /\ k < n /\ stk[t][k + 1].item = c /\ a(k + 1) = c
  <2>1. PICK j \in m .. l : c = a(j)
    BY <1>8
  <2>2. c \in Range(Branches[stk[u][k].item])
    BY <1>8, Frames, KidsOf
  <2>3. j \in 1 .. Len(stk[t])
    BY <1>2
  <2>4. t = u /\ j = k + 1 /\ stk[t][j].item = stk[t][j].anchor
    BY <2>1, <2>2, <2>3, BranchRuns
  <2> QED
    BY <2>1, <2>3, <2>4, <1>2
\* The new root among the branches of a call is one of the l-th.
<1>9. ASSUME NEW u \in Thread, NEW k \in 1 .. Len(stk[u]), new \in Range(Branches[stk[u][k].item])
      PROVE  u = t /\ k = l
  <2>1. new \in Range(Branches[stk[t][l].item]) /\ stk[t][l].item \in Item /\ l \in 1 .. Len(stk[t])
    BY <1>3, <1>4, <1>2, Frames DEF new
  <2>2. stk[u][k].item \in Item /\ k \in DOMAIN stk[u]
    BY Frames
  <2>3. stk[u][k].item = stk[t][l].item
    BY <2>1, <2>2, <1>9, Forest
  <2> QED
    BY <2>1, <2>2, <2>3, Frames
<1>10. Hung(tr2, st, stk)
  <2> SUFFICES ASSUME NEW u \in Thread, NEW k \in DOMAIN stk[u]
               PROVE  \/ Linked(tr2, st, stk[u][k])
                      \/ /\ Cut(tr2, st, stk[u][k])
                         /\ k = Len(stk[u]) => HeldRoot(tr2, st, u, stk[u][k])
    BY DEF Hung
  <2> DEFINE f == stk[u][k]
  <2>1. k \in 1 .. Len(stk[u]) /\ f \in Frame /\ f.anchor \in Node /\ f.item \in Item
    BY Frames
  <2>2. CASE u = t /\ k \in m .. l
    <3>1. f.anchor \in old /\ Kids(st, f) = {h(k)} /\ h(k) \in Item /\ h(k) \in Node
      BY <2>2, <1>3
    <3>2. tr2.children[f.anchor] = <<>>
      BY <2>1, <3>1, <1>6
    <3>3. h(k) \in old \/ h(k) = new
      <4>1. CASE k = l
        BY <4>1 DEF new
      <4>2. CASE k # l
        <5>1. k + 1 \in m .. l /\ k < n
          BY <4>2, <2>2, <1>2
        <5>2. a(k + 1) = h(k)
          BY <5>1, <2>2, <1>3
        <5> QED
          BY <5>1, <5>2
      <4> QED
        BY <4>1, <4>2
    <3>4. tr2.parent[h(k)] = None
      BY <3>1, <3>3, <1>6
    <3>5. Cut(tr2, st, f)
      BY <3>1, <3>2, <3>4 DEF Cut
    <3>6. ASSUME k = Len(stk[u]) PROVE HeldRoot(tr2, st, u, f)
      <4>1. k = l /\ k = n
        BY <3>6, <2>2, <1>2
      <4>2. h(k) = new /\ tr2.cell[u] = h(k)
        BY <4>1, <2>2, <1>6 DEF new
      <4>3. h(k) \notin old
        <5>1. \A v \in Thread : \A j \in DOMAIN stk[v] : stk[v][j].anchor # h(k)
          BY <4>1, <2>2, <1>3
        <5> QED
          BY <5>1, <1>2
      <4>4. tr.rooted[h(k)]
        BY <3>1, <3>6, <1>1 DEF Known
      <4>5. tr2.rooted[h(k)]
        BY <4>3, <4>4, <3>1, <1>6
      <4> QED
        BY <4>2, <4>5, <3>1 DEF HeldRoot
    <3> QED
      BY <3>5, <3>6
  <2>3. CASE ~(u = t /\ k \in m .. l)
    <3>1. f.anchor \notin old
      <4> SUFFICES ASSUME NEW j \in m .. l, f.anchor = a(j) PROVE FALSE
        OBVIOUS
      <4>1. j \in 1 .. Len(stk[t])
        BY <1>2
      <4>2. u = t /\ k = j
        BY <2>1, <4>1, AnchorsDiffer
      <4> QED
        BY <4>2, <2>3
    <3>2. tr2.children[f.anchor] = tr.children[f.anchor]
      BY <3>1, <2>1, <1>6
    <3>3. CASE Linked(tr, st, f)
      <4>1. ASSUME NEW c \in Kids(st, f) PROVE tr2.parent[c] = f.anchor
        <5>1. c \in Node /\ c \in Range(Branches[f.item]) /\ tr.parent[c] = f.anchor
          BY <2>1, <3>3, KidsOf DEF Linked
        <5>2. c # new
          <6> SUFFICES ASSUME c = new PROVE FALSE
            OBVIOUS
          <6>1. u = t /\ k = l
            BY <5>1, <2>1, <1>9
          <6> QED
            BY <6>1, <1>4, <2>3
        <5>3. c \notin old
          <6> SUFFICES ASSUME c \in old PROVE FALSE
            OBVIOUS
          <6>1. u = t /\ k + 1 \in m .. l /\ a(k + 1) = c
            BY <2>1, <1>8
          <6>2. k + 1 = m
            BY <6>1, <2>1, <2>3, <1>2
          <6>3. tr.parent[c] = None
            BY <6>1, <6>2, <1>7
          <6> QED
            BY <6>3, <5>1, <2>1, Nodes
        <5> QED
          BY <5>1, <5>2, <5>3, <1>6
      <4>2. Linked(tr2, st, f)
        BY <3>2, <3>3, <4>1 DEF Linked
      <4> QED
        BY <4>2
    <3>4. CASE Cut(tr, st, f) /\ (k = Len(stk[u]) => HeldRoot(tr, st, u, f))
      <4>1. Cut(tr2, st, f)
        <5>1. PICK c \in Item : Kids(st, f) = {c} /\ tr.parent[c] = None
          BY <3>4 DEF Cut
        <5>2. tr2.parent[c] = None
          BY <5>1, <1>6, Nodes
        <5> QED
          BY <5>1, <5>2, <3>2, <3>4 DEF Cut
      <4>2. ASSUME k = Len(stk[u]), NEW c \in Kids(st, f) PROVE tr2.cell[u] = c /\ tr2.rooted[c]
        <5>1. tr.cell[u] = c /\ tr.rooted[c] /\ c \in Node
          BY <4>2, <3>4, <2>1, KidsOf DEF HeldRoot
        <5>2. c \notin old
          <6> SUFFICES ASSUME c \in old PROVE FALSE
            OBVIOUS
          <6>1. u = t /\ k < n
            BY <2>1, <1>8
          <6> QED
            BY <6>1, <4>2, <1>2
        <5>3. u # t
          <6> SUFFICES ASSUME u = t PROVE FALSE
            OBVIOUS
          <6>1. c = a(m)
            BY <5>1, <1>7
          <6> QED
            BY <6>1, <5>2, <1>4
        <5> QED
          BY <5>1, <5>2, <5>3, <1>6
      <4> QED
        BY <4>1, <4>2 DEF HeldRoot
    <3> QED
      BY <3>3, <3>4, <1>1 DEF Hung
  <2> QED
    BY <2>2, <2>3
<1>11. Anchored(tr2, stk)
  <2> SUFFICES ASSUME NEW x \in Node
               PROVE  /\ tr2.children[x] # <<>> => \E u \in Thread : \E k \in DOMAIN stk[u] : stk[u][k].anchor = x
                      /\ tr2.parent[x] # None => x \in Range(tr2.children[tr2.parent[x]])
    BY DEF Anchored
  <2>1. tr2.children[x] # <<>> => tr.children[x] # <<>>
    BY <1>6
  <2>2. tr2.children[x] # <<>> => \E u \in Thread : \E k \in DOMAIN stk[u] : stk[u][k].anchor = x
    BY <2>1, <1>1 DEF Anchored
  <2>3. ASSUME tr2.parent[x] # None PROVE x \in Range(tr2.children[tr2.parent[x]])
    <3> DEFINE q == tr.parent[x]
    <3>1. x \notin old /\ x # new /\ tr2.parent[x] = q
      BY <2>3, <1>6
    <3>2. q \in Node /\ q # None
      BY <2>3, <3>1, <1>1, TreeFields
    <3>3. x \in Range(tr.children[q])
      BY <3>2, <1>1 DEF Anchored
    <3>4. q \notin old
      <4> SUFFICES ASSUME NEW k \in m .. l, q = a(k) PROVE FALSE
        OBVIOUS
      <4>1. x = h(k)
        <5>1. Range(tr.children[a(k)]) = {h(k)}
          BY <1>3 DEF Linked
        <5> QED
          BY <5>1, <3>3
      <4>2. CASE k = l
        BY <4>1, <4>2, <3>1 DEF new
      <4>3. CASE k # l
        <5>1. k + 1 \in m .. l /\ k < n
          BY <4>3, <1>2
        <5>2. a(k + 1) = h(k)
          BY <5>1, <1>3
        <5> QED
          BY <5>1, <5>2, <4>1, <3>1
      <4> QED
        BY <4>2, <4>3
    <3> QED
      BY <3>1, <3>2, <3>3, <3>4, <1>6
  <2> QED
    BY <2>2, <2>3
<1>12. Home(tr2, rn, stk)
  <2> SUFFICES ASSUME NEW u \in Thread, tr2.cell[u] # None
               PROVE  /\ tr2.parent[tr2.cell[u]] = None
                      /\ \E i \in Item :
                           /\ rn[i] = 1 /\ (tr2.cell[u] = Dummy(i) \/ tr2.cell[u] \in Range(Branches[i]))
                           /\ \A v \in Thread : \A k \in DOMAIN stk[v] : stk[v][k].item = i =>
                                v = u /\ \A j \in DOMAIN Branches[i] :
                                            tr2.cell[u] = Branches[i][j] => j <= stk[v][k].made
    BY DEF Home
  <2>1. CASE u = t
    <3> DEFINE i == stk[t][l].item
    <3>1. tr2.cell[u] = new /\ tr2.parent[new] = None
      BY <2>1, <1>5, <1>6
    <3>2. i \in Item /\ rn[i] = 1 /\ l \in 1 .. Len(stk[t]) /\ l \in DOMAIN stk[t] /\ stk[t][l] \in Frame
      BY <1>2, <1>4, Frames DEF Running
    <3>3. new \in Range(Branches[i]) /\ new \in Kids(st, stk[t][l])
      BY <1>3, <1>4 DEF new
    <3>4. ASSUME NEW v \in Thread, NEW k \in DOMAIN stk[v], stk[v][k].item = i PROVE v = t /\ k = l
      BY <3>2, <3>4, Frames
    <3>5. ASSUME NEW j \in DOMAIN Branches[i], new = Branches[i][j] PROVE j <= stk[t][l].made
      <4>1. PICK w \in DOMAIN Branches[i] : w <= stk[t][l].made /\ new = Branches[i][w]
        BY <3>3 DEF Kids
      <4>2. w = j
        <5>1. w \in 1 .. Len(Branches[i]) /\ j \in 1 .. Len(Branches[i])
          BY <3>2, BranchesOf
        <5> HIDE DEF i
        <5>2. Branches[i][w] = Branches[i][j]
          BY <3>5, <4>1
        <5> QED
          BY <3>2, <5>1, <5>2, BranchesOf
      <4> QED
        BY <4>1, <4>2
    <3> HIDE DEF i
    <3>6. \A v \in Thread : \A k \in DOMAIN stk[v] : stk[v][k].item = i =>
             v = u /\ \A j \in DOMAIN Branches[i] : tr2.cell[u] = Branches[i][j] => j <= stk[v][k].made
      BY <2>1, <3>1, <3>4, <3>5
    <3> QED
      BY <3>1, <3>2, <3>3, <3>6
  <2>2. CASE u # t
    <3>1. tr2.cell[u] = tr.cell[u] /\ tr.cell[u] # None
      BY <2>2, <1>6
    <3>2. tr.cell[u] \in Node
      BY <3>1, <1>1, TreeFields
    <3>3. tr.parent[tr.cell[u]] = None
      BY <3>1, <1>1 DEF Home
    <3>4. tr2.parent[tr2.cell[u]] = None
      BY <3>1, <3>2, <3>3, <1>6
    <3> QED
      BY <3>1, <3>4, <1>1 DEF Home
  <2> QED
    BY <2>1, <2>2
<1>13. Known(tr2, st, stk)
  <2> SUFFICES ASSUME NEW u \in Thread
               PROVE  /\ stk[u] # <<>> /\ Branches[stk[u][1].item] # <<>> => tr2.cell[u] # None
                      /\ \A k \in DOMAIN stk[u] : \A c \in Kids(st, stk[u][k]) :
                           k = Len(stk[u]) \/ c # stk[u][k + 1].item => tr2.rooted[c]
    BY DEF Known
  <2>1. stk[u] # <<>> /\ Branches[stk[u][1].item] # <<>> => tr2.cell[u] # None
    <3>1. CASE u = t
      BY <3>1, <1>5, <1>6, Nodes
    <3>2. CASE u # t
      BY <3>2, <1>1, <1>6 DEF Known
    <3> QED
      BY <3>1, <3>2
  <2>2. ASSUME NEW k \in DOMAIN stk[u], NEW c \in Kids(st, stk[u][k]),
               k = Len(stk[u]) \/ c # stk[u][k + 1].item
        PROVE  tr2.rooted[c]
    <3>1. k \in 1 .. Len(stk[u]) /\ c \in Node
      BY Frames, KidsOf
    <3>2. c \notin old
      <4> SUFFICES ASSUME c \in old PROVE FALSE
        OBVIOUS
      <4>1. u = t /\ k < n /\ stk[t][k + 1].item = c
        BY <3>1, <1>8
      <4> QED
        BY <4>1, <2>2, <1>2
    <3>3. tr.rooted[c]
      BY <2>2, <1>1 DEF Known
    <3> QED
      BY <3>1, <3>2, <3>3, <1>6
  <2> QED
    BY <2>1, <2>2
<1> QED
  BY <1>6, <1>10, <1>11, <1>12, <1>13 DEF TreeInv, tr2

\* Correcting a root keeps the tree in order.
LEMMA CorrectKeeps ==
    ASSUME NEW st, NEW stk, Shape(st, stk), NEW tr, NEW rn, TreeInv(tr, st, stk, rn),
           Running(rn, stk), policy = "QUASI_HORIZONTAL", NEW t \in Thread, NEW p
    PROVE  TreeInv(try_correct_root(tr, t, p), st, stk, rn)
<1>1. tr \in Tree /\ Hung(tr, st, stk) /\ Anchored(tr, stk) /\ Home(tr, rn, stk)
  BY DEF TreeInv
<1>2. CASE try_correct_root(tr, t, p) = tr
  BY <1>2
<1>3. ASSUME NEW m \in 1 .. Len(stk[t]), NEW l \in m .. Len(stk[t]), OneBelow(tr, stk, t, m, l),
             try_correct_root(tr, t, p) = Lowering(tr, stk, t, m, l)
      PROVE  TreeInv(try_correct_root(tr, t, p), st, stk, rn)
  BY <1>3, LoweringKeeps
<1> QED
  BY <1>1, <1>2, <1>3, CorrectLowers

-----------------------------------------------------------------------------
(* What prune does *)

\* The node p of a branch of t's m-th call is no longer waiting.  The stacks are the same
\* otherwise, or the call of p was the innermost one and has returned.
Fewer(st, stk, st2, stk2, t, m, p) ==
    /\ m \in 1 .. Len(stk[t]) /\ p \in Range(Branches[stk[t][m].item])
    /\ \A u \in Thread : /\ Len(stk2[u]) <= Len(stk[u])
                         /\ Len(stk2[u]) = Len(stk[u]) \/ (u = t /\ Len(stk2[t]) = m)
    /\ Len(stk2[t]) # Len(stk[t]) => Len(stk[t]) = m + 1 /\ stk[t][m + 1].item = p
    /\ \A u \in Thread : \A k \in 1 .. Len(stk2[u]) :
         /\ stk2[u][k].item = stk[u][k].item /\ stk2[u][k].anchor = stk[u][k].anchor
         /\ stk2[u][k].made = stk[u][k].made
         /\ Kids(st2, stk2[u][k]) = Kids(st, stk[u][k]) \ {p}

\* The tree without p, which has no children.
Pruned(tr, tr2, p) ==
    /\ tr2 \in Tree
    /\ \A x \in Node : /\ tr2.children[x] = IF x = tr.parent[p] THEN remove_child(tr.children[x], p)
                                            ELSE tr.children[x]
                       /\ tr2.parent[x] = IF x = p THEN None ELSE tr.parent[x]
                       /\ x # p => (tr2.rooted[x] <=> tr.rooted[x])
    /\ tr2.cell = tr.cell

\* prune takes a node without children out of the tree, if its parent's list is in order.
LEMMA PruneFields ==
    ASSUME NEW tr \in Tree, NEW p \in Node, tr.children[p] = <<>>, tr.parent[p] # p,
           tr.parent[p] # None => remove_child(tr.children[tr.parent[p]], p) \in Seq(Item)
    PROVE  Pruned(tr, prune(tr, p), p)
<1> DEFINE q == tr.parent[p]
           un == Unlinked(tr.children, q, p)
           ch == [un EXCEPT ![p] = <<>>]
           ro == [tr.rooted EXCEPT ![p] = FALSE]
           pa == [tr.parent EXCEPT ![p] = None]
           tr2 == prune(tr, p)
<1>1. /\ tr.parent \in [Node -> Node \cup {None}] /\ tr.children \in [Node -> Seq(Item)]
      /\ tr.rooted \in [Node -> BOOLEAN] /\ tr.cell \in [Thread -> Node \cup {None}]
      /\ tr = [parent |-> tr.parent, children |-> tr.children,
               rooted |-> tr.rooted, cell |-> tr.cell]
  BY TreeFields
<1>2. tr2 = [parent |-> pa, children |-> ch, rooted |-> ro, cell |-> tr.cell]
  <2>1. tr2 = [tr EXCEPT !.children = ch, !.rooted[p] = FALSE, !.parent[p] = None]
    BY Zenon DEF prune
  <2> HIDE DEF ch, tr2
  <2> QED
    BY <2>1, <1>1 DEF Tree
<1>3. un \in [Node -> Seq(Item)] /\ \A x \in Node : un[x] = IF x = q THEN remove_child(tr.children[x], p)
                                                           ELSE tr.children[x]
  <2>1. CASE q = None
    BY <2>1, <1>1, Nodes DEF Unlinked
  <2>2. CASE q # None
    <3>1. un = [tr.children EXCEPT ![q] = remove_child(tr.children[q], p)]
      BY <2>2 DEF Unlinked
    <3>2. q \in Node /\ remove_child(tr.children[q], p) \in Seq(Item)
      BY <2>2, <1>1
    <3> HIDE DEF un, q
    <3> QED
      BY <3>1, <3>2, <1>1
  <2> QED
    BY <2>1, <2>2
<1> HIDE DEF un
<1>4. ch \in [Node -> Seq(Item)] /\ \A x \in Node : ch[x] = IF x = q THEN remove_child(tr.children[x], p)
                                                           ELSE tr.children[x]
  <2>1. /\ \A x \in Node : x # p => ch[x] = un[x]
        /\ ch[p] = <<>> /\ <<>> \in Seq(Item) /\ ch \in [Node -> Seq(Item)]
    BY <1>3
  <2> QED
    BY <2>1, <1>3
<1>5. /\ ro \in [Node -> BOOLEAN] /\ \A x \in Node : x # p => (ro[x] <=> tr.rooted[x])
      /\ pa \in [Node -> Node \cup {None}]
      /\ \A x \in Node : pa[x] = IF x = p THEN None ELSE tr.parent[x]
  BY <1>1
<1> HIDE DEF ch, ro, pa, tr2
<1>6. tr2.parent = pa /\ tr2.children = ch /\ tr2.rooted = ro /\ tr2.cell = tr.cell
  BY <1>2
<1>7. tr2 \in Tree
  BY <1>1, <1>2, <1>4, <1>5 DEF Tree
<1> QED
  BY <1>4, <1>5, <1>6, <1>7 DEF Pruned, tr2

\* The parent of a branch's node is the anchor of its call.
LEMMA ParentOf ==
    ASSUME NEW st, NEW stk, Shape(st, stk), NEW tr \in Tree, Hung(tr, st, stk), Anchored(tr, stk),
           NEW t \in Thread, NEW m \in 1 .. Len(stk[t]),
           NEW p, p \in Range(Branches[stk[t][m].item]), tr.parent[p] # None
    PROVE  tr.parent[p] = stk[t][m].anchor /\ Linked(tr, st, stk[t][m]) /\ p \in Kids(st, stk[t][m])
<1> DEFINE q == tr.parent[p]
<1>1. stk[t][m].item \in Item
  BY Frames
<1>2. p \in Item /\ p \in Node
  BY <1>1, BranchesOf, Nodes
<1>3. q \in Node /\ p \in Range(tr.children[q])
  BY <1>2, TreeFields DEF Anchored
<1>4. tr.children[q] # <<>>
  BY <1>3 DEF Range
<1> HIDE DEF q
<1>5. PICK u \in Thread : \E k \in 1 .. Len(stk[u]) : q = stk[u][k].anchor /\ Linked(tr, st, stk[u][k])
  BY <1>3, <1>4, ChildrenOf
<1>6. PICK k \in 1 .. Len(stk[u]) : q = stk[u][k].anchor /\ Linked(tr, st, stk[u][k])
  BY <1>5
<1>7. p \in Kids(st, stk[u][k])
  BY <1>3, <1>6 DEF Linked
<1>8. p \in Range(Branches[stk[u][k].item]) /\ stk[u][k].item \in Item /\ k \in DOMAIN stk[u]
  BY <1>7, Frames, KidsOf
<1>9. stk[u][k].item = stk[t][m].item
  BY <1>1, <1>8, Forest
<1>10. u = t /\ k = m
  BY <1>8, <1>9, Frames
<1> QED
  BY <1>6, <1>7, <1>10 DEF q

\* A tree without the node of a branch that is no longer waiting is in order.
LEMMA PrunedKeeps ==
    ASSUME NEW st, NEW stk, Shape(st, stk), NEW tr, NEW rn, TreeInv(tr, st, stk, rn),
           NEW st2, NEW stk2, Shape(st2, stk2), NEW t \in Thread, NEW m, NEW p,
           Fewer(st, stk, st2, stk2, t, m, p), tr.children[p] = <<>>,
           NEW tr2, Pruned(tr, tr2, p)
    PROVE  TreeInv(tr2, st2, stk2, rn)
<1> DEFINE q == tr.parent[p]
<1>1. /\ tr \in Tree /\ Hung(tr, st, stk) /\ Anchored(tr, stk) /\ Home(tr, rn, stk)
      /\ Known(tr, st, stk)
  BY DEF TreeInv
<1>2. /\ m \in 1 .. Len(stk[t]) /\ m \in DOMAIN stk[t] /\ p \in Range(Branches[stk[t][m].item])
      /\ stk[t][m] \in Frame /\ stk[t][m].item \in Item /\ stk[t][m].anchor \in Node
      /\ Len(stk[t]) \in Nat /\ p \in Item /\ p \in Node
  <2>1. m \in 1 .. Len(stk[t]) /\ p \in Range(Branches[stk[t][m].item])
    BY DEF Fewer
  <2>2. /\ stk[t][m] \in Frame /\ stk[t][m].item \in Item /\ stk[t][m].anchor \in Node
        /\ Len(stk[t]) \in Nat /\ m \in DOMAIN stk[t]
    BY <2>1, Frames
  <2> QED
    BY <2>1, <2>2, BranchesOf, Nodes
<1>3. /\ tr2 \in Tree /\ tr2.cell = tr.cell
      /\ \A x \in Node : /\ x = q => tr2.children[x] = remove_child(tr.children[x], p)
                         /\ x # q => tr2.children[x] = tr.children[x]
                         /\ x = p => tr2.parent[x] = None
                         /\ x # p => tr2.parent[x] = tr.parent[x]
                         /\ x # p => (tr2.rooted[x] <=> tr.rooted[x])
  BY DEF Pruned
<1>4. ASSUME q # None
      PROVE  /\ q = stk[t][m].anchor /\ Linked(tr, st, stk[t][m]) /\ p \in Kids(st, stk[t][m])
             /\ Range(remove_child(tr.children[q], p)) = Range(tr.children[q]) \ {p}
             /\ Ascending(remove_child(tr.children[q], p), stk[t][m].item)
  <2>1. q = stk[t][m].anchor /\ Linked(tr, st, stk[t][m]) /\ p \in Kids(st, stk[t][m])
    BY <1>1, <1>2, <1>4, ParentOf
  <2>2. tr.children[q] \in Seq(Item) /\ Ascending(tr.children[q], stk[t][m].item)
    BY <2>1, <1>1, <1>2, TreeFields DEF Linked
  <2>3. Range(tr.children[q]) \subseteq Range(Branches[stk[t][m].item])
    BY <2>1, <1>2, KidsOf DEF Linked
  <2> HIDE DEF q
  <2> QED
    BY <2>1, <2>2, <2>3, <1>2, RemoveAscending
<1> HIDE DEF q
\* The frames of the two stacks.
<1>5. ASSUME NEW u \in Thread, NEW k \in DOMAIN stk2[u]
      PROVE  /\ k \in 1 .. Len(stk2[u]) /\ k \in 1 .. Len(stk[u]) /\ k \in DOMAIN stk[u]
             /\ Len(stk2[u]) \in Nat /\ Len(stk[u]) \in Nat
             /\ stk[u][k] \in Frame /\ stk[u][k].anchor \in Node /\ stk[u][k].item \in Item
             /\ stk2[u][k].item = stk[u][k].item /\ stk2[u][k].anchor = stk[u][k].anchor
             /\ stk2[u][k].made = stk[u][k].made
             /\ Kids(st2, stk2[u][k]) = Kids(st, stk[u][k]) \ {p}
  <2>1. k \in 1 .. Len(stk2[u]) /\ Len(stk2[u]) \in Nat /\ Len(stk[u]) \in Nat /\ Len(stk2[u]) <= Len(stk[u])
    BY Frames DEF Fewer
  <2>2. k \in 1 .. Len(stk[u])
    BY <2>1
  <2>3. k \in DOMAIN stk[u] /\ stk[u][k] \in Frame /\ stk[u][k].anchor \in Node /\ stk[u][k].item \in Item
    BY <2>2, Frames
  <2>4. /\ stk2[u][k].item = stk[u][k].item /\ stk2[u][k].anchor = stk[u][k].anchor
        /\ stk2[u][k].made = stk[u][k].made
        /\ Kids(st2, stk2[u][k]) = Kids(st, stk[u][k]) \ {p}
    BY <2>1, Zenon DEF Fewer
  <2> QED
    BY <2>1, <2>2, <2>3, <2>4
\* The innermost call was it before, or p has just returned to it.
<1>6. ASSUME NEW u \in Thread, NEW k \in DOMAIN stk2[u], k = Len(stk2[u]), k # Len(stk[u])
      PROVE  u = t /\ k = m /\ Len(stk[t]) = m + 1 /\ stk[t][m + 1].item = p /\ p \in Kids(st, stk[t][m])
  <2>1. u = t /\ k = m
    BY <1>6 DEF Fewer
  <2>2. Len(stk[t]) = m + 1 /\ stk[t][m + 1].item = p
    BY <1>6, <2>1 DEF Fewer
  <2>3. m < Len(stk[t])
    BY <2>2, <1>2
  <2> QED
    BY <2>1, <2>2, <2>3, <1>2, Frames
\* p is a branch of the m-th call of t and of no other.
<1>7. ASSUME NEW u \in Thread, NEW k \in 1 .. Len(stk[u]), p \in Range(Branches[stk[u][k].item])
      PROVE  u = t /\ k = m
  <2>1. stk[u][k].item \in Item /\ k \in DOMAIN stk[u]
    BY Frames
  <2>2. stk[u][k].item = stk[t][m].item
    BY <2>1, <1>2, <1>7, Forest
  <2> QED
    BY <2>1, <2>2, <1>2, Frames
<1>8. q # p
  <2> SUFFICES ASSUME q = p PROVE FALSE
    OBVIOUS
  <2>1. q # None
    BY <1>2, Nodes
  <2>2. stk[t][m].anchor = p
    BY <2>1, <1>4
  <2>3. m = m + 1
    BY <2>2, <1>2, BranchRuns
  <2> QED
    BY <2>3, <1>2
<1>10. Hung(tr2, st2, stk2)
  <2> SUFFICES ASSUME NEW u \in Thread, NEW k \in DOMAIN stk2[u]
               PROVE  \/ Linked(tr2, st2, stk2[u][k])
                      \/ /\ Cut(tr2, st2, stk2[u][k])
                         /\ policy = "QUASI_HORIZONTAL" /\ k = Len(stk2[u]) => HeldRoot(tr2, st2, u, stk2[u][k])
    BY DEF Hung
  <2> DEFINE f == stk[u][k]
             g == stk2[u][k]
  <2>1. /\ k \in 1 .. Len(stk[u]) /\ k \in DOMAIN stk[u] /\ f \in Frame /\ f.anchor \in Node /\ f.item \in Item
        /\ g.item = f.item /\ g.anchor = f.anchor /\ Kids(st2, g) = Kids(st, f) \ {p}
    BY <1>5
  <2>2. \/ Linked(tr, st, f)
        \/ /\ Cut(tr, st, f)
           /\ policy = "QUASI_HORIZONTAL" /\ k = Len(stk[u]) => HeldRoot(tr, st, u, f)
    BY <2>1, <1>1 DEF Hung
  <2>3. \A c \in Kids(st, f) : c \in Node /\ c \in Item /\ c \in Range(Branches[f.item])
    BY <2>1, KidsOf
  <2>4. p \in Kids(st, f) => u = t /\ k = m
    BY <2>1, <2>3, <1>7
  <2> HIDE DEF f, g
  <2>5. CASE Linked(tr, st, f)
    <3>1. Range(tr.children[f.anchor]) = Kids(st, f) /\ Ascending(tr.children[f.anchor], f.item)
          /\ \A c \in Kids(st, f) : tr.parent[c] = f.anchor
      BY <2>5 DEF Linked
    <3>2. \A c \in Kids(st2, g) : tr2.parent[c] = f.anchor
      BY <3>1, <2>1, <2>3, <1>3
    <3>3. Range(tr2.children[f.anchor]) = Kids(st2, g) /\ Ascending(tr2.children[f.anchor], f.item)
      <4>1. CASE p \in Kids(st, f)
        <5>1. q = f.anchor
          BY <4>1, <3>1 DEF q
        <5>2. q # None /\ f = stk[t][m]
          BY <5>1, <2>1, <2>4, <4>1, Nodes DEF f
        <5> QED
          BY <5>1, <5>2, <3>1, <2>1, <1>3, <1>4
      <4>2. CASE p \notin Kids(st, f)
        <5>1. f.anchor # q
          <6> SUFFICES ASSUME f.anchor = q PROVE FALSE
            OBVIOUS
          <6>1. q # None
            BY <2>1, Nodes
          <6>2. stk[u][k].anchor = stk[t][m].anchor
            BY <6>1, <1>4 DEF f
          <6>3. u = t /\ k = m
            BY <6>2, <2>1, <1>2, AnchorsDiffer
          <6> QED
            BY <6>1, <6>3, <1>4, <4>2 DEF f
        <5> QED
          BY <5>1, <4>2, <3>1, <2>1, <1>3
      <4> QED
        BY <4>1, <4>2
    <3>4. Linked(tr2, st2, g)
      BY <3>2, <3>3, <2>1 DEF Linked
    <3> QED
      BY <3>4 DEF g
  <2>6. CASE Cut(tr, st, f) /\ (policy = "QUASI_HORIZONTAL" /\ k = Len(stk[u]) => HeldRoot(tr, st, u, f))
    <3>1. PICK c \in Item : Kids(st, f) = {c} /\ tr.parent[c] = None
      BY <2>6 DEF Cut
    <3>2. tr.children[f.anchor] = <<>>
      BY <2>6 DEF Cut
    <3>3. f.anchor # q
      <4> SUFFICES ASSUME f.anchor = q PROVE FALSE
        OBVIOUS
      <4>1. q # None
        BY <2>1, Nodes
      <4>2. p \in Range(tr.children[q])
        BY <4>1, <1>4 DEF Linked
      <4> QED
        BY <4>2, <3>2 DEF Range
    <3>4. tr2.children[f.anchor] = <<>>
      BY <3>2, <3>3, <2>1, <1>3
    <3>5. CASE c = p
      <4>1. Kids(st2, g) = {}
        BY <3>1, <3>5, <2>1
      <4>2. Range(tr2.children[g.anchor]) = {} /\ Ascending(tr2.children[g.anchor], g.item)
        BY <3>4, <2>1 DEF Range, Ascending
      <4>3. Linked(tr2, st2, g)
        BY <4>1, <4>2 DEF Linked
      <4> QED
        BY <4>3 DEF g
    <3>6. CASE c # p
      <4>1. Kids(st2, g) = {c} /\ p \notin Kids(st, f)
        BY <3>1, <3>6, <2>1
      <4>2. c \in Node /\ tr2.parent[c] = None
        BY <3>1, <3>6, <2>3, <1>3
      <4>3. Cut(tr2, st2, g)
        BY <4>1, <4>2, <3>4, <2>1 DEF Cut
      <4>4. ASSUME policy = "QUASI_HORIZONTAL", k = Len(stk2[u]) PROVE HeldRoot(tr2, st2, u, g)
        <5>1. k = Len(stk[u])
          <6> SUFFICES ASSUME k # Len(stk[u]) PROVE FALSE
            OBVIOUS
          <6> QED
            BY <4>1, <4>4, <1>6 DEF f
        <5>2. tr.cell[u] = c /\ tr.rooted[c]
          BY <5>1, <4>4, <3>1, <2>6 DEF HeldRoot
        <5>3. tr2.cell[u] = c /\ tr2.rooted[c]
          BY <5>2, <4>2, <3>6, <1>3
        <5> QED
          BY <5>3, <4>1 DEF HeldRoot
      <4> QED
        BY <4>3, <4>4 DEF g
    <3> QED
      BY <3>5, <3>6
  <2> QED
    BY <2>2, <2>5, <2>6
<1>11. Anchored(tr2, stk2)
  <2> SUFFICES ASSUME NEW x \in Node
               PROVE  /\ tr2.children[x] # <<>> => \E u \in Thread : \E k \in DOMAIN stk2[u] : stk2[u][k].anchor = x
                      /\ tr2.parent[x] # None => x \in Range(tr2.children[tr2.parent[x]])
    BY DEF Anchored
  <2>1. ASSUME tr2.children[x] # <<>>
        PROVE \E u \in Thread : \E k \in DOMAIN stk2[u] : stk2[u][k].anchor = x
    <3>1. x # p
      BY <2>1, <1>3, <1>8
    <3>2. tr.children[x] # <<>>
      <4>1. CASE x = q
        <5>1. p \in Range(tr.children[q])
          BY <4>1, <1>4, Nodes DEF Linked
        <5> QED
          BY <4>1, <5>1 DEF Range
      <4>2. CASE x # q
        BY <4>2, <2>1, <1>3
      <4> QED
        BY <4>1, <4>2
    <3>3. PICK u \in Thread : \E k \in DOMAIN stk[u] : stk[u][k].anchor = x
      BY <3>2, <1>1 DEF Anchored
    <3>4. PICK k \in DOMAIN stk[u] : stk[u][k].anchor = x
      BY <3>3
    <3>5. /\ k \in 1 .. Len(stk[u]) /\ Len(stk[u]) \in Nat /\ Len(stk2[u]) \in Nat
          /\ DOMAIN stk2[u] = 1 .. Len(stk2[u]) /\ (k # 1 => stk[u][k].anchor = stk[u][k].item)
      BY Frames
    <3>6. k <= Len(stk2[u])
      <4> SUFFICES ASSUME k > Len(stk2[u]) PROVE FALSE
        BY <3>5
      <4>1. Len(stk2[u]) # Len(stk[u])
        BY <3>5
      <4>2. u = t /\ Len(stk2[t]) = m /\ Len(stk[t]) = m + 1 /\ stk[t][m + 1].item = p
        BY <4>1 DEF Fewer
      <4>3. k = m + 1 /\ k # 1
        BY <4>2, <3>5, <1>2
      <4> QED
        BY <4>2, <4>3, <3>1, <3>4, <3>5
    <3>7. k \in 1 .. Len(stk2[u])
      BY <3>5, <3>6
    <3>8. stk2[u][k].anchor = stk[u][k].anchor
      BY <3>7 DEF Fewer
    <3> QED
      BY <3>4, <3>5, <3>7, <3>8
  <2>2. ASSUME tr2.parent[x] # None PROVE x \in Range(tr2.children[tr2.parent[x]])
    <3> DEFINE y == tr.parent[x]
    <3>1. x # p /\ tr2.parent[x] = y /\ y # None
      BY <2>2, <1>3
    <3>2. y \in Node /\ x \in Range(tr.children[y])
      BY <3>1, <1>1, TreeFields DEF Anchored
    <3> HIDE DEF y
    <3>3. CASE y = q
      BY <3>1, <3>2, <3>3, <1>3, <1>4
    <3>4. CASE y # q
      BY <3>1, <3>2, <3>4, <1>3
    <3> QED
      BY <3>3, <3>4
  <2> QED
    BY <2>1, <2>2
<1>12. Home(tr2, rn, stk2)
  <2> SUFFICES ASSUME NEW u \in Thread, tr2.cell[u] # None
               PROVE  /\ tr2.parent[tr2.cell[u]] = None
                      /\ \E i \in Item :
                           /\ rn[i] = 1 /\ (tr2.cell[u] = Dummy(i) \/ tr2.cell[u] \in Range(Branches[i]))
                           /\ \A v \in Thread : \A k \in DOMAIN stk2[v] : stk2[v][k].item = i =>
                                v = u /\ \A j \in DOMAIN Branches[i] :
                                            tr2.cell[u] = Branches[i][j] => j <= stk2[v][k].made
    BY DEF Home
  <2>1. tr2.cell[u] = tr.cell[u] /\ tr.cell[u] # None /\ tr.cell[u] \in Node
    BY <1>1, <1>3, TreeFields
  <2>2. tr2.parent[tr2.cell[u]] = None
    BY <2>1, <1>1, <1>3 DEF Home
  <2>3. PICK i \in Item :
          /\ rn[i] = 1 /\ (tr.cell[u] = Dummy(i) \/ tr.cell[u] \in Range(Branches[i]))
          /\ \A v \in Thread : \A k \in DOMAIN stk[v] : stk[v][k].item = i =>
               v = u /\ \A j \in DOMAIN Branches[i] : tr.cell[u] = Branches[i][j] => j <= stk[v][k].made
    BY <2>1, <1>1 DEF Home
  <2>4. ASSUME NEW v \in Thread, NEW k \in DOMAIN stk2[v], stk2[v][k].item = i
        PROVE  v = u /\ \A j \in DOMAIN Branches[i] : tr2.cell[u] = Branches[i][j] => j <= stk2[v][k].made
    <3>1. k \in DOMAIN stk[v] /\ stk[v][k].item = i /\ stk2[v][k].made = stk[v][k].made
      BY <2>4, <1>5
    <3> QED
      BY <3>1, <2>1, <2>3
  <2> QED
    BY <2>1, <2>2, <2>3, <2>4
<1>13. Known(tr2, st2, stk2)
  <2> SUFFICES ASSUME policy = "QUASI_HORIZONTAL", NEW u \in Thread
               PROVE  /\ stk2[u] # <<>> /\ Branches[stk2[u][1].item] # <<>> => tr2.cell[u] # None
                      /\ \A k \in DOMAIN stk2[u] : \A c \in Kids(st2, stk2[u][k]) :
                           k = Len(stk2[u]) \/ c # stk2[u][k + 1].item => tr2.rooted[c]
    BY DEF Known
  <2>1. ASSUME stk2[u] # <<>>, Branches[stk2[u][1].item] # <<>> PROVE tr2.cell[u] # None
    <3>1. 1 \in DOMAIN stk2[u] /\ stk2[u] \in Seq(Frame)
      BY <2>1, Frames
    <3>2. stk2[u][1].item = stk[u][1].item /\ 1 \in 1 .. Len(stk[u]) /\ Len(stk[u]) \in Nat
      BY <3>1, <1>5
    <3>3. stk[u] # <<>>
      BY <3>2
    <3>4. tr.cell[u] # None
      BY <3>2, <3>3, <2>1, <1>1 DEF Known
    <3> QED
      BY <3>4, <1>3
  <2>2. ASSUME NEW k \in DOMAIN stk2[u], NEW c \in Kids(st2, stk2[u][k]),
               k = Len(stk2[u]) \/ c # stk2[u][k + 1].item
        PROVE  tr2.rooted[c]
    <3>1. /\ k \in DOMAIN stk[u] /\ c \in Kids(st, stk[u][k]) /\ c # p /\ c \in Node
          /\ k \in 1 .. Len(stk2[u]) /\ Len(stk2[u]) \in Nat
      BY <1>5, KidsOf, ZenonT(40)
    <3>2. k = Len(stk[u]) \/ c # stk[u][k + 1].item
      <4>1. CASE k = Len(stk2[u])
        <5>1. CASE k = Len(stk[u])
          BY <5>1
        <5>2. CASE k # Len(stk[u])
          BY <4>1, <5>2, <1>6, <3>1
        <5> QED
          BY <5>1, <5>2
      <4>2. CASE k # Len(stk2[u])
        <5>1. k + 1 \in DOMAIN stk2[u]
          BY <4>2, <3>1, Frames
        <5>2. stk2[u][k + 1].item = stk[u][k + 1].item
          BY <5>1, <1>5
        <5> QED
          BY <5>2, <4>2, <2>2
      <4> QED
        BY <4>1, <4>2
    <3>3. tr.rooted[c]
      BY <3>1, <3>2, <1>1 DEF Known
    <3> QED
      BY <3>1, <3>3, <1>3
  <2> QED
    BY <2>1, <2>2
<1> QED
  BY <1>3, <1>10, <1>11, <1>12, <1>13 DEF TreeInv

\* Taking the node of a branch out of the tree keeps it in order, with or without correcting
\* the root after it.
LEMMA PruneKeeps ==
    ASSUME NEW st, NEW stk, Shape(st, stk), NEW tr, NEW rn, TreeInv(tr, st, stk, rn),
           NEW st2, NEW stk2, Shape(st2, stk2), NEW t \in Thread, NEW m, NEW p,
           Fewer(st, stk, st2, stk2, t, m, p), tr.children[p] = <<>>, Running(rn, stk2)
    PROVE  /\ TreeInv(prune(tr, p), st2, stk2, rn)
           /\ tr.parent[p] = None => TreeInv(tr, st2, stk2, rn)
<1>1. /\ tr \in Tree /\ Hung(tr, st, stk) /\ Anchored(tr, stk)
  BY DEF TreeInv
<1>2. /\ m \in 1 .. Len(stk[t]) /\ p \in Range(Branches[stk[t][m].item])
  BY DEF Fewer
<1>3. stk[t][m].item \in Item /\ stk[t][m].anchor \in Node /\ stk[t][m] \in Frame
  BY <1>2, Frames
<1>4. p \in Item /\ p \in Node
  BY <1>2, <1>3, BranchesOf, Nodes
<1>5. tr.parent[p] # p
  <2> SUFFICES ASSUME tr.parent[p] = p PROVE FALSE
    OBVIOUS
  <2>1. tr.parent[p] # None
    BY <1>4, Nodes
  <2>2. stk[t][m].anchor = p
    BY <2>1, <1>1, <1>2, ParentOf
  <2>3. m = m + 1
    BY <2>2, <1>2, BranchRuns
  <2> QED
    BY <2>3, <1>2
<1>6. ASSUME tr.parent[p] # None PROVE remove_child(tr.children[tr.parent[p]], p) \in Seq(Item)
  <2> DEFINE q == tr.parent[p]
  <2>1. q = stk[t][m].anchor /\ Linked(tr, st, stk[t][m])
    BY <1>6, <1>1, <1>2, ParentOf
  <2>2. tr.children[q] \in Seq(Item) /\ Ascending(tr.children[q], stk[t][m].item)
    BY <2>1, <1>1, <1>3, TreeFields DEF Linked
  <2>3. Range(tr.children[q]) \subseteq Range(Branches[stk[t][m].item])
    BY <2>1, <1>3, KidsOf DEF Linked
  <2> HIDE DEF q
  <2>4. remove_child(tr.children[q], p) \in Seq(Item)
    BY <2>2, <2>3, <1>3, RemoveAscending
  <2> QED
    BY <2>4 DEF q
<1>7. Pruned(tr, prune(tr, p), p)
  BY <1>1, <1>4, <1>5, <1>6, PruneFields
<1>8. TreeInv(prune(tr, p), st2, stk2, rn)
  BY <1>7, PrunedKeeps
<1>9. ASSUME tr.parent[p] = None PROVE TreeInv(tr, st2, stk2, rn)
  <2>1. Pruned(tr, tr, p)
    BY <1>1, <1>9, Nodes DEF Pruned
  <2> QED
    BY <2>1, PrunedKeeps
<1> QED
  BY <1>8, <1>9

\* The tree after a node was given away.
LEMMA FixKeeps ==
    ASSUME NEW st, NEW stk, Shape(st, stk), NEW tr, NEW rn, TreeInv(tr, st, stk, rn),
           NEW st2, NEW stk2, Shape(st2, stk2), NEW t \in Thread, NEW m, NEW p,
           Fewer(st, stk, st2, stk2, t, m, p), tr.children[p] = <<>>, Running(rn, stk2),
           policy \in {"QUASI_HORIZONTAL", "WORK_STEALING"}
    PROVE  TreeInv(prune_and_fix_parent_root_if_needed(tr, t, p), st2, stk2, rn)
<1>1. TreeInv(prune(tr, p), st2, stk2, rn) /\ (tr.parent[p] = None => TreeInv(tr, st2, stk2, rn))
  BY PruneKeeps
<1>2. CASE policy = "WORK_STEALING"
  BY <1>1, <1>2 DEF prune_and_fix_parent_root_if_needed
<1>3. CASE policy # "WORK_STEALING" /\ get_root(tr, t, p) = p
  <2>1. m \in 1 .. Len(stk[t]) /\ p \in Range(Branches[stk[t][m].item])
    BY DEF Fewer
  <2>2. stk[t][m].item \in Item
    BY <2>1, Frames
  <2>3. p # None
    BY <2>1, <2>2, BranchesOf, Nodes
  <2>4. tr.cell[t] = p
    BY <1>3, <2>3 DEF get_root
  <2>5. tr.parent[p] = None
    BY <2>3, <2>4 DEF TreeInv, Home
  <2>6. prune_and_fix_parent_root_if_needed(tr, t, p) = tr
    BY <1>3 DEF prune_and_fix_parent_root_if_needed
  <2> QED
    BY <2>5, <2>6, <1>1
<1>4. CASE policy # "WORK_STEALING" /\ get_root(tr, t, p) # p
  <2>1. policy = "QUASI_HORIZONTAL"
    BY <1>4
  <2>2. prune_and_fix_parent_root_if_needed(tr, t, p) = try_correct_root(prune(tr, p), t, tr.parent[p])
    BY <1>4 DEF prune_and_fix_parent_root_if_needed
  <2>3. TreeInv(try_correct_root(prune(tr, p), t, tr.parent[p]), st2, stk2, rn)
    BY <1>1, <2>1, CorrectKeeps
  <2> QED
    BY <2>2, <2>3
<1> QED
  BY <1>2, <1>3, <1>4

\* The tree after a node was run or found not worthy.
LEMMA AfterForwardKeeps ==
    ASSUME NEW st, NEW stk, Shape(st, stk), NEW tr, NEW rn, TreeInv(tr, st, stk, rn),
           NEW st2, NEW stk2, Shape(st2, stk2), NEW t \in Thread, NEW m, NEW p,
           Fewer(st, stk, st2, stk2, t, m, p), tr.children[p] = <<>>, Running(rn, stk2),
           policy \in {"QUASI_HORIZONTAL", "WORK_STEALING"}
    PROVE  TreeInv(prune_and_correct_root_after_forward(tr, t, p), st2, stk2, rn)
<1>1. TreeInv(prune(tr, p), st2, stk2, rn)
  BY PruneKeeps
<1>2. CASE policy = "WORK_STEALING" \/ tr.parent[p] = None
  BY <1>1, <1>2 DEF prune_and_correct_root_after_forward
<1>3. CASE ~(policy = "WORK_STEALING" \/ tr.parent[p] = None)
  <2>1. policy = "QUASI_HORIZONTAL"
    BY <1>3
  <2>2. prune_and_correct_root_after_forward(tr, t, p) = try_correct_root(prune(tr, p), t, tr.parent[p])
    BY <1>3 DEF prune_and_correct_root_after_forward
  <2>3. TreeInv(try_correct_root(prune(tr, p), t, tr.parent[p]), st2, stk2, rn)
    BY <1>1, <2>1, CorrectKeeps
  <2> QED
    BY <2>2, <2>3
<1> QED
  BY <1>2, <1>3

-----------------------------------------------------------------------------
(* The stacks of the specification *)

\* The policies and styles.
LEMMA PolicyStyle ==
    ASSUME policy \in Policies, style \in Styles
    PROVE  policy \in {"QUASI_HORIZONTAL", "WORK_STEALING"} /\ style \in {"eager", "late"}
BY PoliciesAssumption, StylesAssumption

\* The branch that a call submits is waiting.
LEMMA NextIsKid ==
    ASSUME NEW st, NEW f \in Frame, f.next <= f.made, f.made <= Len(Branches[f.item]),
           st[Branches[f.item][f.next]] = "UNUSED"
    PROVE  Branches[f.item][f.next] \in Kids(st, f)
<1>1. f.item \in Item /\ f.next \in Nat /\ f.next >= 1 /\ f.made \in Nat
  BY DEF Frame
<1>2. f.next \in 1 .. Len(Branches[f.item]) /\ f.next \in DOMAIN Branches[f.item]
  BY <1>1, BranchesOf
<1>3. Branches[f.item][f.next] \in Item
  BY <1>1, <1>2, BranchesOf
<1> QED
  BY <1>1, <1>2, <1>3 DEF Kids

\* Stacks whose calls are placed have the shape that the tree needs.
LEMMA PlacedShape ==
    ASSUME NEW sty, NEW st \in [Item -> node_state], NEW stk \in [Thread -> Seq(Frame)],
           \A t \in Thread : \A k \in DOMAIN stk[t] : Placed(sty, st, stk[t], k),
           Apart(stk)
    PROVE  Shape(st, stk)
<1>1. ASSUME NEW t \in Thread, NEW k \in DOMAIN stk[t]
      PROVE  /\ stk[t][k].anchor = IF k = 1 THEN Dummy(stk[t][k].item) ELSE stk[t][k].item
             /\ k < Len(stk[t]) => stk[t][k + 1].item \in Kids(st, stk[t][k])
  <2> DEFINE f == stk[t][k]
  <2>1. Placed(sty, st, stk[t], k)
    OBVIOUS
  <2>2. f \in Frame
    OBVIOUS
  <2>3. /\ f.anchor = IF k = 1 THEN Dummy(f.item) ELSE f.item
        /\ f.made <= Len(Branches[f.item])
        /\ k < Len(stk[t]) => /\ f.next <= f.made /\ st[Branches[f.item][f.next]] = "UNUSED"
                              /\ stk[t][k + 1].item = Branches[f.item][f.next]
    BY <2>1 DEF Placed
  <2> HIDE DEF f
  <2>4. k < Len(stk[t]) => stk[t][k + 1].item \in Kids(st, f)
    BY <2>2, <2>3, NextIsKid
  <2> QED
    BY <2>3, <2>4 DEF f
<1>2. \A t, u \in Thread : \A k \in DOMAIN stk[t], l \in DOMAIN stk[u] :
        stk[u][l].item = stk[t][k].item => u = t /\ l = k
  BY DEF Apart
<1> QED
  BY <1>1, <1>2 DEF Shape

\* The invariant in the form that the lemmas about the tree take.
LEMMA Parts ==
    ASSUME IInv
    PROVE  /\ TypeOK /\ ~threw /\ StackInv /\ CallInv /\ BranchInv
           /\ policy \in {"QUASI_HORIZONTAL", "WORK_STEALING"} /\ style \in {"eager", "late"}
           /\ Shape(state, stack) /\ Running(runs, stack) /\ TreeInv(tree, state, stack, runs)
<1>1. Shape(state, stack)
  BY PlacedShape DEF IInv, TypeOK, StackInv
<1>2. Running(runs, stack)
  <2> SUFFICES ASSUME NEW t \in Thread, NEW k \in DOMAIN stack[t] PROVE runs[stack[t][k].item] = 1
    BY DEF Running
  <2>1. k \in 1 .. Len(stack[t])
    BY <1>1, Frames
  <2>2. stack[t][k].item \in Item /\ InProgress(stack[t][k].item)
    BY <2>1, <1>1, Frames DEF InProgress
  <2> QED
    BY <2>2 DEF IInv, CallInv
<1>3. policy \in Policies /\ style \in Styles
  BY DEF IInv, TypeOK
<1>4. policy \in {"QUASI_HORIZONTAL", "WORK_STEALING"} /\ style \in {"eager", "late"}
  BY <1>3, PolicyStyle
<1> QED
  BY <1>1, <1>2, <1>4 DEF IInv, NoThrow, TreeInv, TypeOK

\* And back.
LEMMA PartsNext ==
    ASSUME TypeOK', ~threw', StackInv', CallInv', BranchInv', TreeInv(tree, state, stack, runs)'
    PROVE  IInv'
BY DEF IInv, NoThrow, TreeInv

-----------------------------------------------------------------------------
(* Stacks that grow and shrink *)

\* The stack of t is cut to n - 1 frames, and f is put on top.
Replaced(stk, stk2, t, n, f) ==
    /\ stk2 \in [Thread -> Seq(Frame)]
    /\ \A u \in Thread : u # t => stk2[u] = stk[u]
    /\ Len(stk2[t]) = n /\ stk2[t][n] = f
    /\ \A k \in 1 .. n - 1 : stk2[t][k] = stk[t][k]

\* Frames that differ in how far a submission is only.
LEMMA SameKeeps ==
    ASSUME NEW st, NEW stk, Shape(st, stk), NEW tr, NEW rn, TreeInv(tr, st, stk, rn),
           NEW stk2, Shape(st, stk2),
           \A u \in Thread : Len(stk2[u]) = Len(stk[u]) /\ \A k \in 1 .. Len(stk[u]) :
              /\ stk2[u][k].item = stk[u][k].item /\ stk2[u][k].anchor = stk[u][k].anchor
              /\ stk2[u][k].made = stk[u][k].made /\ stk2[u][k].next = stk[u][k].next
    PROVE  TreeInv(tr, st, stk2, rn)
<1>1. /\ tr \in Tree /\ Hung(tr, st, stk) /\ Anchored(tr, stk) /\ Home(tr, rn, stk)
      /\ Known(tr, st, stk)
  BY DEF TreeInv
<1>2. ASSUME NEW u \in Thread
      PROVE  /\ DOMAIN stk2[u] = 1 .. Len(stk[u]) /\ DOMAIN stk[u] = 1 .. Len(stk[u])
             /\ Len(stk2[u]) = Len(stk[u]) /\ Len(stk[u]) \in Nat
             /\ stk[u] # <<>> <=> stk2[u] # <<>>
             /\ \A k \in 1 .. Len(stk[u]) :
                  /\ stk2[u][k].item = stk[u][k].item /\ stk2[u][k].anchor = stk[u][k].anchor
                  /\ stk2[u][k].made = stk[u][k].made /\ Kids(st, stk2[u][k]) = Kids(st, stk[u][k])
  <2>1. /\ stk[u] \in Seq(Frame) /\ Len(stk[u]) \in Nat /\ DOMAIN stk[u] = 1 .. Len(stk[u])
        /\ stk2[u] \in Seq(Frame) /\ DOMAIN stk2[u] = 1 .. Len(stk2[u]) /\ Len(stk2[u]) = Len(stk[u])
    BY Frames
  <2>2. stk[u] # <<>> <=> stk2[u] # <<>>
    BY <2>1
  <2> QED
    BY <2>1, <2>2 DEF Kids
<1>3. Hung(tr, st, stk2)
  <2> SUFFICES ASSUME NEW u \in Thread, NEW k \in DOMAIN stk2[u]
               PROVE  \/ Linked(tr, st, stk2[u][k])
                      \/ /\ Cut(tr, st, stk2[u][k])
                         /\ policy = "QUASI_HORIZONTAL" /\ k = Len(stk2[u]) => HeldRoot(tr, st, u, stk2[u][k])
    BY DEF Hung
  <2>1. /\ k \in DOMAIN stk[u] /\ stk2[u][k].item = stk[u][k].item /\ stk2[u][k].anchor = stk[u][k].anchor
        /\ Kids(st, stk2[u][k]) = Kids(st, stk[u][k]) /\ Len(stk2[u]) = Len(stk[u])
    BY <1>2
  <2>2. Linked(tr, st, stk[u][k]) => Linked(tr, st, stk2[u][k])
    BY <2>1 DEF Linked
  <2>3. Cut(tr, st, stk[u][k]) => Cut(tr, st, stk2[u][k])
    BY <2>1 DEF Cut
  <2>4. HeldRoot(tr, st, u, stk[u][k]) => HeldRoot(tr, st, u, stk2[u][k])
    BY <2>1 DEF HeldRoot
  <2> QED
    BY <2>1, <2>2, <2>3, <2>4, <1>1 DEF Hung
<1>4. Anchored(tr, stk2)
  BY <1>1, <1>2 DEF Anchored
<1>5. Home(tr, rn, stk2)
  BY <1>1, <1>2 DEF Home
<1>6. Known(tr, st, stk2)
  <2> SUFFICES ASSUME policy = "QUASI_HORIZONTAL", NEW u \in Thread
               PROVE  /\ stk2[u] # <<>> /\ Branches[stk2[u][1].item] # <<>> => tr.cell[u] # None
                      /\ \A k \in DOMAIN stk2[u] : \A c \in Kids(st, stk2[u][k]) :
                           k = Len(stk2[u]) \/ c # stk2[u][k + 1].item => tr.rooted[c]
    BY DEF Known
  <2>1. stk2[u] # <<>> /\ Branches[stk2[u][1].item] # <<>> => tr.cell[u] # None
    <3> SUFFICES ASSUME stk2[u] # <<>>, Branches[stk2[u][1].item] # <<>> PROVE tr.cell[u] # None
      OBVIOUS
    <3>1. stk[u] # <<>> /\ 1 \in 1 .. Len(stk[u])
      BY <1>2, Frames
    <3>2. stk2[u][1].item = stk[u][1].item
      BY <3>1, <1>2
    <3> QED
      BY <3>1, <3>2, <1>1 DEF Known
  <2>2. ASSUME NEW k \in DOMAIN stk2[u], NEW c \in Kids(st, stk2[u][k]),
               k = Len(stk2[u]) \/ c # stk2[u][k + 1].item
        PROVE  tr.rooted[c]
    <3>1. k \in DOMAIN stk[u] /\ c \in Kids(st, stk[u][k]) /\ k \in 1 .. Len(stk[u])
      BY <1>2
    <3>2. k = Len(stk[u]) \/ c # stk[u][k + 1].item
      <4>1. CASE k = Len(stk[u])
        BY <4>1
      <4>2. CASE k # Len(stk[u])
        <5>1. k + 1 \in 1 .. Len(stk[u])
          BY <3>1, <4>2, <1>2
        <5> QED
          BY <5>1, <4>2, <2>2, <1>2
      <4> QED
        BY <4>1, <4>2
    <3> QED
      BY <3>1, <3>2, <1>1 DEF Known
  <2> QED
    BY <2>1, <2>2
<1> QED
  BY <1>1, <1>3, <1>4, <1>5, <1>6 DEF TreeInv

\* The call x was run for the first time, and no other.
Recorded(rn, rn2, x) ==
    /\ \A i \in Item : rn[i] = 1 => rn2[i] = 1
    /\ rn[x] # 1 /\ rn2[x] = 1

\* The tree when the call x begins on t.  The first call of a thread may bring its own root.
Received(tr, tr2, stk, t, x) ==
    /\ tr2 \in Tree /\ tr2.children = tr.children /\ tr2.parent = tr.parent
    /\ \A n \in Node : tr.rooted[n] => tr2.rooted[n]
    /\ \A u \in Thread : u # t => tr2.cell[u] = tr.cell[u]
    /\ \/ tr2.cell[t] = tr.cell[t] /\ (stk[t] = <<>> /\ policy = "QUASI_HORIZONTAL" => Branches[x] = <<>>)
       \/ tr2.cell[t] = Dummy(x) /\ stk[t] = <<>>

\* A call begins: nothing hangs on its node yet.
LEMMA PushKeeps ==
    ASSUME NEW st, NEW stk, Shape(st, stk), NEW tr, NEW rn, TreeInv(tr, st, stk, rn),
           NEW stk2, Shape(st, stk2), NEW t \in Thread, NEW g \in Frame, g.made = 0,
           Replaced(stk, stk2, t, Len(stk[t]) + 1, g),
           NEW rn2, Recorded(rn, rn2, g.item), NEW tr2, Received(tr, tr2, stk, t, g.item)
    PROVE  TreeInv(tr2, st, stk2, rn2)
<1>0. /\ \A i \in Item : rn[i] = 1 => rn2[i] = 1
      /\ rn[g.item] # 1 /\ rn2[g.item] = 1
      /\ tr2 \in Tree /\ tr2.children = tr.children /\ tr2.parent = tr.parent
      /\ \A x \in Node : tr.rooted[x] => tr2.rooted[x]
      /\ \A u \in Thread : u # t => tr2.cell[u] = tr.cell[u]
      /\ \/ tr2.cell[t] = tr.cell[t] /\ (stk[t] = <<>> /\ policy = "QUASI_HORIZONTAL" => Branches[g.item] = <<>>)
         \/ tr2.cell[t] = Dummy(g.item) /\ stk[t] = <<>>
  BY DEF Recorded, Received
<1>1. /\ tr \in Tree /\ Hung(tr, st, stk) /\ Anchored(tr, stk) /\ Home(tr, rn, stk)
      /\ Known(tr, st, stk)
  BY DEF TreeInv
<1> DEFINE n == Len(stk[t])
<1>2. /\ n \in Nat /\ Len(stk2[t]) = n + 1 /\ stk2[t][n + 1] = g
      /\ \A k \in 1 .. n : stk2[t][k] = stk[t][k]
      /\ \A u \in Thread : u # t => stk2[u] = stk[u]
  BY Frames DEF Replaced
<1>3. ASSUME NEW u \in Thread
      PROVE  /\ DOMAIN stk[u] = 1 .. Len(stk[u]) /\ DOMAIN stk2[u] = 1 .. Len(stk2[u])
             /\ Len(stk[u]) \in Nat /\ Len(stk2[u]) \in Nat /\ Len(stk[u]) <= Len(stk2[u])
             /\ \A k \in 1 .. Len(stk[u]) : stk2[u][k] = stk[u][k]
  <2>1. /\ DOMAIN stk[u] = 1 .. Len(stk[u]) /\ DOMAIN stk2[u] = 1 .. Len(stk2[u])
        /\ Len(stk[u]) \in Nat /\ Len(stk2[u]) \in Nat
    BY Frames
  <2>2. CASE u = t
    BY <2>1, <2>2, <1>2
  <2>3. CASE u # t
    BY <2>1, <2>3, <1>2
  <2> QED
    BY <2>2, <2>3
<1>4. ASSUME NEW u \in Thread, NEW k \in DOMAIN stk2[u]
      PROVE  \/ k \in DOMAIN stk[u] /\ stk2[u][k] = stk[u][k]
             \/ u = t /\ k = n + 1 /\ stk2[u][k] = g
  <2>1. CASE u # t
    BY <2>1, <1>2
  <2>2. CASE u = t
    <3>1. k \in 1 .. n + 1 /\ DOMAIN stk[t] = 1 .. n
      BY <2>2, <1>2, <1>3
    <3>2. k \in 1 .. n \/ k = n + 1
      BY <3>1, <1>2
    <3> HIDE DEF n
    <3> QED
      BY <3>1, <3>2, <2>2, <1>2
  <2> QED
    BY <2>1, <2>2
<1>5. Kids(st, g) = {}
  <2> SUFFICES ASSUME NEW c \in Kids(st, g) PROVE FALSE
    OBVIOUS
  <2>1. PICK j \in DOMAIN Branches[g.item] : g.next <= j /\ j <= g.made
    BY DEF Kids
  <2>2. g.next \in Nat /\ g.next >= 1 /\ g.item \in Item
    BY DEF Frame
  <2>3. j \in Int
    BY <2>2, BranchesOf
  <2> QED
    BY <2>1, <2>2, <2>3
<1>6. g.anchor \in Node /\ g.item \in Item
  BY DEF Frame
<1>7. tr.children[g.anchor] = <<>>
  <2> SUFFICES ASSUME tr.children[g.anchor] # <<>> PROVE FALSE
    OBVIOUS
  <2>1. PICK u \in Thread : \E k \in DOMAIN stk[u] : stk[u][k].anchor = g.anchor
    BY <1>1, <1>6 DEF Anchored
  <2>2. PICK k \in DOMAIN stk[u] : stk[u][k].anchor = g.anchor
    BY <2>1
  <2>3. k \in 1 .. Len(stk[u]) /\ k \in 1 .. Len(stk2[u]) /\ stk2[u][k] = stk[u][k]
    BY <1>3
  <2>4. n + 1 \in 1 .. Len(stk2[t])
    BY <1>2
  <2>5. u = t /\ k = n + 1
    <3> DEFINE m == n + 1
    <3>1. stk2[u][k].anchor = stk2[t][m].anchor /\ m \in 1 .. Len(stk2[t])
      BY <2>2, <2>3, <2>4, <1>2
    <3> HIDE DEF m
    <3>2. u = t /\ k = m
      BY <2>3, <3>1, AnchorsDiffer
    <3> QED
      BY <3>2 DEF m
  <2> QED
    BY <2>3, <2>5, <1>2
<1> HIDE DEF n
<1> USE <1>0
<1>10. Hung(tr2, st, stk2)
  <2> SUFFICES ASSUME NEW u \in Thread, NEW k \in DOMAIN stk2[u]
               PROVE  \/ Linked(tr2, st, stk2[u][k])
                      \/ /\ Cut(tr2, st, stk2[u][k])
                         /\ policy = "QUASI_HORIZONTAL" /\ k = Len(stk2[u]) => HeldRoot(tr2, st, u, stk2[u][k])
    BY DEF Hung
  <2>1. CASE k \in DOMAIN stk[u] /\ stk2[u][k] = stk[u][k]
    <3> DEFINE f == stk[u][k]
    <3>1. f \in Frame /\ k \in 1 .. Len(stk[u])
      BY <2>1, <1>3, Frames
    <3>2. Linked(tr, st, f) => Linked(tr2, st, f)
      BY DEF Linked
    <3>3. Cut(tr, st, f) => Cut(tr2, st, f)
      BY DEF Cut
    <3>4. ASSUME policy = "QUASI_HORIZONTAL", k = Len(stk2[u]),
                 policy = "QUASI_HORIZONTAL" /\ k = Len(stk[u]) => HeldRoot(tr, st, u, f)
          PROVE  HeldRoot(tr2, st, u, f)
      <4>1. u # t
        BY <3>1, <3>4, <1>2 DEF n
      <4>2. HeldRoot(tr, st, u, f)
        BY <4>1, <3>4, <1>2
      <4>3. \A c \in Kids(st, f) : c \in Node
        BY <3>1, KidsOf
      <4> QED
        BY <4>1, <4>2, <4>3 DEF HeldRoot
    <3>5. Linked(tr, st, f) \/ (Cut(tr, st, f) /\ (policy = "QUASI_HORIZONTAL" /\ k = Len(stk[u]) => HeldRoot(tr, st, u, f)))
      BY <2>1, <1>1 DEF Hung
    <3> HIDE DEF f
    <3>6. stk2[u][k] = f
      BY <2>1 DEF f
    <3> QED
      BY <3>2, <3>3, <3>4, <3>5, <3>6
  <2>2. CASE stk2[u][k] = g
    <3>1. Linked(tr2, st, g)
      BY <1>5, <1>7 DEF Linked, Ascending, Range
    <3> QED
      BY <2>2, <3>1
  <2> QED
    BY <2>1, <2>2, <1>4
<1>11. Anchored(tr2, stk2)
  <2>1. ASSUME NEW x \in Node, tr.children[x] # <<>>
        PROVE  \E u \in Thread : \E k \in DOMAIN stk2[u] : stk2[u][k].anchor = x
    <3>1. PICK u \in Thread : \E k \in DOMAIN stk[u] : stk[u][k].anchor = x
      BY <2>1, <1>1 DEF Anchored
    <3>2. PICK k \in DOMAIN stk[u] : stk[u][k].anchor = x
      BY <3>1
    <3>3. k \in DOMAIN stk2[u] /\ stk2[u][k] = stk[u][k]
      BY <1>3
    <3> QED
      BY <3>2, <3>3
  <2> QED
    BY <2>1, <1>1 DEF Anchored
<1>12. Home(tr2, rn2, stk2)
  <2> SUFFICES ASSUME NEW u \in Thread, tr2.cell[u] # None
               PROVE  /\ tr2.parent[tr2.cell[u]] = None
                      /\ \E i \in Item :
                           /\ rn2[i] = 1 /\ (tr2.cell[u] = Dummy(i) \/ tr2.cell[u] \in Range(Branches[i]))
                           /\ \A v \in Thread : \A k \in DOMAIN stk2[v] : stk2[v][k].item = i =>
                                v = u /\ \A j \in DOMAIN Branches[i] :
                                            tr2.cell[u] = Branches[i][j] => j <= stk2[v][k].made
    BY DEF Home
  <2>1. CASE tr2.cell[u] = tr.cell[u]
    <3>1. tr.parent[tr.cell[u]] = None
      BY <2>1, <1>1 DEF Home
    <3>2. PICK i \in Item :
            /\ rn[i] = 1 /\ (tr.cell[u] = Dummy(i) \/ tr.cell[u] \in Range(Branches[i]))
            /\ \A v \in Thread : \A k \in DOMAIN stk[v] : stk[v][k].item = i =>
                 v = u /\ \A j \in DOMAIN Branches[i] : tr.cell[u] = Branches[i][j] => j <= stk[v][k].made
      BY <2>1, <1>1 DEF Home
    <3>3. ASSUME NEW v \in Thread, NEW k \in DOMAIN stk2[v], stk2[v][k].item = i
          PROVE  v = u /\ \A j \in DOMAIN Branches[i] : tr2.cell[u] = Branches[i][j] => j <= stk2[v][k].made
      <4>1. k \in DOMAIN stk[v] /\ stk2[v][k] = stk[v][k]
        BY <3>2, <3>3, <1>4
      <4> QED
        BY <4>1, <3>2, <3>3, <2>1
    <3> QED
      BY <2>1, <3>1, <3>2, <3>3
  <2>2. CASE u = t /\ tr2.cell[t] = Dummy(g.item)
    <3> DEFINE d == Dummy(g.item)
    <3>1. d \in Node /\ d \notin Item
      BY <1>6, Nodes
    <3>2. tr.parent[d] = None
      <4> SUFFICES ASSUME tr.parent[d] # None PROVE FALSE
        OBVIOUS
      <4>1. tr.parent[d] \in Node /\ d \in Range(tr.children[tr.parent[d]])
        BY <3>1, <1>1, TreeFields DEF Anchored
      <4>2. tr.children[tr.parent[d]] \in Seq(Item)
        BY <4>1, <1>1, TreeFields
      <4> QED
        BY <4>1, <4>2, <3>1, RangeOfSeq
    <3>3. ASSUME NEW v \in Thread, NEW k \in DOMAIN stk2[v], stk2[v][k].item = g.item PROVE v = t
      <4>1. n + 1 \in 1 .. Len(stk2[t]) /\ stk2[t][n + 1].item = g.item
        BY <1>2
      <4> QED
        BY <4>1, <3>3, Frames
    <3>4. \A j \in DOMAIN Branches[g.item] : d # Branches[g.item][j]
      BY <3>1, <1>6, BranchesOf
    <3>5. \A v \in Thread : \A k \in DOMAIN stk2[v] : stk2[v][k].item = g.item =>
             v = u /\ \A j \in DOMAIN Branches[g.item] : tr2.cell[u] = Branches[g.item][j] => j <= stk2[v][k].made
      BY <2>2, <3>3, <3>4
    <3>6. tr2.parent[tr2.cell[u]] = None /\ tr2.cell[u] = Dummy(g.item)
      BY <2>2, <3>2
    <3> QED
      BY <3>5, <3>6, <1>6
  <2> QED
    BY <2>1, <2>2
<1>13. Known(tr2, st, stk2)
  <2> SUFFICES ASSUME policy = "QUASI_HORIZONTAL", NEW u \in Thread
               PROVE  /\ stk2[u] # <<>> /\ Branches[stk2[u][1].item] # <<>> => tr2.cell[u] # None
                      /\ \A k \in DOMAIN stk2[u] : \A c \in Kids(st, stk2[u][k]) :
                           k = Len(stk2[u]) \/ c # stk2[u][k + 1].item => tr2.rooted[c]
    BY DEF Known
  <2>1. ASSUME stk2[u] # <<>>, Branches[stk2[u][1].item] # <<>> PROVE tr2.cell[u] # None
    <3>1. CASE stk[u] = <<>>
      <4>1. u = t /\ n = 0 /\ stk2[u][1] = g
        BY <3>1, <2>1, <1>2 DEF n
      <4>2. Dummy(g.item) # None
        BY <1>6, Nodes
      <4> QED
        BY <3>1, <4>1, <4>2, <2>1
    <3>2. CASE stk[u] # <<>>
      <4>1. 1 \in 1 .. Len(stk[u])
        BY <3>2, Frames
      <4>2. stk2[u][1] = stk[u][1]
        BY <4>1, <1>3
      <4>3. tr.cell[u] # None
        BY <4>2, <3>2, <2>1, <1>1 DEF Known
      <4>4. tr2.cell[u] = tr.cell[u]
        BY <3>2
      <4> QED
        BY <4>3, <4>4
    <3> QED
      BY <3>1, <3>2
  <2>2. ASSUME NEW k \in DOMAIN stk2[u], NEW c \in Kids(st, stk2[u][k]),
               k = Len(stk2[u]) \/ c # stk2[u][k + 1].item
        PROVE  tr2.rooted[c]
    <3>1. k \in DOMAIN stk[u] /\ stk2[u][k] = stk[u][k]
      BY <1>4, <1>5
    <3>2. c \in Kids(st, stk[u][k]) /\ c \in Node /\ k \in 1 .. Len(stk[u])
      BY <3>1, <1>3, Frames, KidsOf
    <3>3. k = Len(stk[u]) \/ c # stk[u][k + 1].item
      <4>1. CASE k = Len(stk[u])
        BY <4>1
      <4>2. CASE k # Len(stk[u])
        <5>1. k + 1 \in 1 .. Len(stk[u]) /\ k # Len(stk2[u])
          BY <3>2, <4>2, <1>3
        <5> QED
          BY <5>1, <2>2, <1>3
      <4> QED
        BY <4>1, <4>2
    <3>4. tr.rooted[c]
      BY <3>1, <3>2, <3>3, <1>1 DEF Known
    <3> QED
      BY <3>2, <3>4
  <2> QED
    BY <2>1, <2>2
<1> QED
  BY <1>10, <1>11, <1>12, <1>13 DEF TreeInv

\* A call without waiting branches has nothing on its node.
LEMMA NoKids ==
    ASSUME NEW st, NEW stk, Shape(st, stk), NEW tr \in Tree, Hung(tr, st, stk), NEW t \in Thread,
           NEW k \in 1 .. Len(stk[t]), Kids(st, stk[t][k]) = {}
    PROVE  tr.children[stk[t][k].anchor] = <<>>
<1>1. k \in DOMAIN stk[t] /\ stk[t][k].anchor \in Node
  BY Frames
<1>2. tr.children[stk[t][k].anchor] \in Seq(Item)
  BY <1>1, TreeFields
<1>3. Linked(tr, st, stk[t][k]) \/ Cut(tr, st, stk[t][k])
  BY <1>1 DEF Hung
<1>4. ASSUME Linked(tr, st, stk[t][k]), tr.children[stk[t][k].anchor] # <<>> PROVE FALSE
  <2> DEFINE s == tr.children[stk[t][k].anchor]
  <2>1. Range(s) = {} /\ 1 \in DOMAIN s
    BY <1>2, <1>4 DEF Linked
  <2> QED
    BY <2>1 DEF Range
<1> QED
  BY <1>3, <1>4 DEF Cut

\* The first call of a thread returns, and the thread is idle.
LEMMA PopKeeps ==
    ASSUME NEW st, NEW stk, Shape(st, stk), NEW tr, NEW rn, TreeInv(tr, st, stk, rn),
           NEW stk2, NEW t \in Thread, Len(stk[t]) = 1, Kids(st, stk[t][1]) = {},
           stk2[t] = <<>>, \A u \in Thread : u # t => stk2[u] = stk[u]
    PROVE  TreeInv(tr, st, stk2, rn)
<1>1. /\ tr \in Tree /\ Hung(tr, st, stk) /\ Anchored(tr, stk) /\ Home(tr, rn, stk)
      /\ Known(tr, st, stk)
  BY DEF TreeInv
<1>2. DOMAIN stk2[t] = {} /\ DOMAIN stk[t] = {1}
  BY Frames
<1>3. ASSUME NEW u \in Thread, NEW k \in DOMAIN stk2[u]
      PROVE  u # t /\ stk2[u] = stk[u]
  BY <1>2
<1>4. Hung(tr, st, stk2)
  BY <1>1, <1>3 DEF Hung
<1>5. Anchored(tr, stk2)
  <2>1. ASSUME NEW x \in Node, tr.children[x] # <<>>
        PROVE  \E u \in Thread : \E k \in DOMAIN stk2[u] : stk2[u][k].anchor = x
    <3>1. PICK u \in Thread : \E k \in DOMAIN stk[u] : stk[u][k].anchor = x
      BY <2>1, <1>1 DEF Anchored
    <3>2. PICK k \in DOMAIN stk[u] : stk[u][k].anchor = x
      BY <3>1
    <3>3. 1 \in 1 .. Len(stk[t])
      OBVIOUS
    <3>4. tr.children[stk[t][1].anchor] = <<>>
      BY <3>3, <1>1, NoKids
    <3>5. u # t
      BY <3>2, <3>4, <2>1, <1>2
    <3> QED
      BY <3>2, <3>5
  <2> QED
    BY <2>1, <1>1 DEF Anchored
<1>6. Home(tr, rn, stk2)
  BY <1>1, <1>3 DEF Home
<1>7. Known(tr, st, stk2)
  BY <1>1, <1>2 DEF Known
<1> QED
  BY <1>1, <1>4, <1>5, <1>6, <1>7 DEF TreeInv

\* The nodes that are created, from left to right.
LEMMA NewNodes ==
    ASSUME NEW i \in Item, NEW lo \in 1 .. Len(Branches[i]), NEW hi \in lo .. Len(Branches[i])
    PROVE  /\ SubSeq(Branches[i], lo, hi) \in Seq(Item)
           /\ Range(SubSeq(Branches[i], lo, hi)) = {Branches[i][j] : j \in lo .. hi}
           /\ Ascending(SubSeq(Branches[i], lo, hi), i)
<1> DEFINE b == Branches[i]
           s == SubSeq(b, lo, hi)
<1>1. b \in Seq(Item) /\ Len(b) \in Nat /\ DOMAIN b = 1 .. Len(b)
  BY BranchesOf
<1>2. s \in Seq(Item) /\ Len(s) = hi - lo + 1 /\ DOMAIN s = 1 .. hi - lo + 1
  BY <1>1
<1>3. \A x \in 1 .. hi - lo + 1 : s[x] = b[lo + x - 1] /\ lo + x - 1 \in lo .. hi
  BY <1>1
<1>4. Range(s) = {b[j] : j \in lo .. hi}
  <2>1. ASSUME NEW c \in Range(s) PROVE c \in {b[j] : j \in lo .. hi}
    <3>1. PICK x \in DOMAIN s : c = s[x]
      BY DEF Range
    <3>2. c = b[lo + x - 1] /\ lo + x - 1 \in lo .. hi
      BY <3>1, <1>2, <1>3
    <3> QED
      BY <3>2
  <2>2. ASSUME NEW j \in lo .. hi PROVE b[j] \in Range(s)
    <3>1. j - lo + 1 \in 1 .. hi - lo + 1 /\ lo + (j - lo + 1) - 1 = j
      OBVIOUS
    <3>2. s[j - lo + 1] = b[j] /\ j - lo + 1 \in DOMAIN s
      BY <3>1, <1>2, <1>3
    <3> QED
      BY <3>2 DEF Range
  <2> QED
    BY <2>1, <2>2
<1>5. Ascending(s, i)
  <2> SUFFICES ASSUME NEW x \in DOMAIN s, NEW y \in DOMAIN s, NEW j \in DOMAIN b, NEW k \in DOMAIN b,
                      x < y, s[x] = b[j], s[y] = b[k]
               PROVE  j < k
    BY DEF Ascending
  <2>1. x \in 1 .. hi - lo + 1 /\ y \in 1 .. hi - lo + 1 /\ j \in 1 .. Len(b) /\ k \in 1 .. Len(b)
    BY <1>1, <1>2
  <2>2. s[x] = b[lo + x - 1] /\ s[y] = b[lo + y - 1]
    BY <2>1, <1>3
  <2>3. lo + x - 1 \in 1 .. Len(b) /\ lo + y - 1 \in 1 .. Len(b)
    BY <2>1, <1>1
  <2>4. \A a, c \in 1 .. Len(b) : b[a] = b[c] => a = c
    BY BranchesOf
  <2> HIDE DEF b, s
  <2>5. j = lo + x - 1
    BY <2>1, <2>2, <2>3, <2>4
  <2>6. k = lo + y - 1
    BY <2>1, <2>2, <2>3, <2>4
  <2> QED
    BY <2>1, <2>5, <2>6
<1> QED
  BY <1>2, <1>4, <1>5

\* The nodes new are created below a.
Hanging(tr, tr2, t, new, a) ==
    /\ tr2 \in Tree
    /\ \A x \in Node :
         /\ x = a => tr2.children[x] = tr.children[x] \o new
         /\ x # a => tr2.children[x] = tr.children[x]
         /\ x \in Range(new) => tr2.parent[x] = a /\ (tr.cell[t] # None => tr2.rooted[x])
         /\ x \notin Range(new) => tr2.parent[x] = tr.parent[x] /\ (tr2.rooted[x] <=> tr.rooted[x])
    /\ tr2.cell = tr.cell

\* What set_parent does.
LEMMA SetParentFields ==
    ASSUME NEW tr \in Tree, NEW t \in Thread, NEW new \in Seq(Item), NEW a \in Node
    PROVE  Hanging(tr, set_parent(tr, t, new, a), t, new, a)
<1> DEFINE tr2 == set_parent(tr, t, new, a)
<1>1. /\ tr.parent \in [Node -> Node \cup {None}] /\ tr.children \in [Node -> Seq(Item)]
      /\ tr.rooted \in [Node -> BOOLEAN] /\ tr.cell \in [Thread -> Node \cup {None}]
      /\ tr = [parent |-> tr.parent, children |-> tr.children, rooted |-> tr.rooted, cell |-> tr.cell]
  BY TreeFields
<1> DEFINE pa == [n \in Node |-> IF n \in Range(new) THEN a ELSE tr.parent[n]]
           ro == [n \in Node |-> IF n \in Range(new) THEN tr.cell[t] # None ELSE tr.rooted[n]]
           ch == [tr.children EXCEPT ![a] = tr.children[a] \o new]
<1>2. tr2 = [parent |-> pa, children |-> ch, rooted |-> ro, cell |-> tr.cell]
  <2>1. tr2 = [tr EXCEPT !.parent = pa, !.children[a] = @ \o new, !.rooted = ro]
    BY Zenon DEF set_parent
  <2> HIDE DEF pa, ro, tr2
  <2> QED
    BY <2>1, <1>1 DEF Tree
<1>3. tr2.parent = pa /\ tr2.children = ch /\ tr2.rooted = ro /\ tr2.cell = tr.cell
  BY <1>2
<1> HIDE DEF tr2
<1>4. tr.children[a] \o new \in Seq(Item)
  BY <1>1
<1>5. tr2.children \in [Node -> Seq(Item)]
  BY <1>1, <1>3, <1>4
<1>6. tr2.parent \in [Node -> Node \cup {None}]
  BY <1>1, <1>3
<1>7. tr2.rooted \in [Node -> BOOLEAN]
  BY <1>1, <1>3
<1>8. tr2 \in Tree
  BY <1>1, <1>2, <1>3, <1>5, <1>6, <1>7 DEF Tree
<1>9. ASSUME NEW x \in Node
      PROVE  /\ x = a => tr2.children[x] = tr.children[x] \o new
             /\ x # a => tr2.children[x] = tr.children[x]
             /\ x \in Range(new) => tr2.parent[x] = a
             /\ x \notin Range(new) => tr2.parent[x] = tr.parent[x]
  BY <1>1, <1>3
<1>10. ASSUME NEW x \in Node
       PROVE  /\ x \in Range(new) => (tr.cell[t] # None => tr2.rooted[x])
              /\ x \notin Range(new) => (tr2.rooted[x] <=> tr.rooted[x])
  BY <1>1, <1>3
<1> QED
  BY <1>3, <1>8, <1>9, <1>10 DEF Hanging, tr2

\* The list new holds the unused branches of the call f from its next to the last with a node.
Fresh(st, f, new) ==
    /\ f.next <= f.made /\ f.made <= Len(Branches[f.item])
    /\ new = SubSeq(Branches[f.item], f.next, f.made)
    /\ \A j \in f.next .. f.made : st[Branches[f.item][j]] = "UNUSED"

\* Nodes are created for the next branches of the innermost call, which had none waiting.
LEMMA CreateKeeps ==
    ASSUME NEW st, NEW stk, Shape(st, stk), NEW tr, NEW rn, TreeInv(tr, st, stk, rn),
           NEW stk2, Shape(st, stk2), NEW t \in Thread, stk[t] # <<>>, NEW f \in Frame,
           Replaced(stk, stk2, t, Len(stk[t]), f),
           NEW e, e = stk[t][Len(stk[t])], e.made < e.next,
           f.item = e.item, f.anchor = e.anchor, f.next = e.next, NEW new, Fresh(st, f, new),
           policy = "QUASI_HORIZONTAL" => tr.cell[t] # None
    PROVE  TreeInv(set_parent(tr, t, new, f.anchor), st, stk2, rn)
<1>1. /\ tr \in Tree /\ Hung(tr, st, stk) /\ Anchored(tr, stk) /\ Home(tr, rn, stk)
      /\ Known(tr, st, stk)
  BY DEF TreeInv
<1> DEFINE n == Len(stk[t])
           i == f.item
           a == f.anchor
           tr2 == set_parent(tr, t, new, a)
<1>2. n \in Nat /\ n >= 1 /\ n \in 1 .. Len(stk[t]) /\ e \in Frame
  BY TopFrame
<1>3. /\ Len(stk2[t]) = n /\ stk2[t][n] = f /\ stk[t][n] = e
      /\ \A k \in 1 .. n - 1 : stk2[t][k] = stk[t][k]
      /\ \A u \in Thread : u # t => stk2[u] = stk[u]
  BY Frames DEF Replaced
<1>4. /\ i \in Item /\ a \in Node /\ f.made \in Nat /\ f.next \in Nat /\ f.next >= 1 /\ e.made \in Nat
  BY <1>2 DEF Frame
<1>5. f.next \in 1 .. Len(Branches[i]) /\ f.made \in f.next .. Len(Branches[i])
  <2>1. f.next <= f.made /\ f.made <= Len(Branches[i]) /\ Len(Branches[i]) \in Nat
    BY <1>4, BranchesOf DEF Fresh
  <2> QED
    BY <2>1, <1>4
<1>6. /\ new \in Seq(Item) /\ Range(new) = {Branches[i][j] : j \in f.next .. f.made} /\ Ascending(new, i)
  <2> DEFINE lo == f.next
             hi == f.made
  <2>1. lo \in 1 .. Len(Branches[i]) /\ hi \in lo .. Len(Branches[i]) /\ new = SubSeq(Branches[i], lo, hi)
    BY <1>5 DEF Fresh
  <2> HIDE DEF i, lo, hi
  <2>2. /\ new \in Seq(Item) /\ Range(new) = {Branches[i][j] : j \in lo .. hi} /\ Ascending(new, i)
    BY <2>1, <1>4, NewNodes
  <2> QED
    BY <2>2 DEF lo, hi, i
<1>7. Kids(st, f) = Range(new)
  <2>1. ASSUME NEW j \in f.next .. f.made
        PROVE  Branches[i][j] \in Item /\ j \in DOMAIN Branches[i] /\ st[Branches[i][j]] = "UNUSED"
    <3>1. st[Branches[i][j]] = "UNUSED"
      BY DEF Fresh
    <3> DEFINE lo == f.next
               hi == f.made
    <3>2. lo \in 1 .. Len(Branches[i]) /\ hi \in lo .. Len(Branches[i]) /\ j \in lo .. hi /\ i \in Item
      BY <1>4, <1>5
    <3> HIDE DEF i, lo, hi
    <3>3. Branches[i][j] \in Item /\ j \in DOMAIN Branches[i]
      BY <3>2, BranchAt
    <3> QED
      BY <3>1, <3>3
  <2>2. ASSUME NEW c \in Kids(st, f) PROVE c \in Range(new)
    <3>1. PICK j \in DOMAIN Branches[f.item] : f.next <= j /\ j <= f.made /\ c = Branches[f.item][j]
      BY DEF Kids
    <3>2. j \in f.next .. f.made
      BY <3>1, <1>4, BranchesOf
    <3> QED
      BY <3>1, <3>2, <1>6
  <2>3. ASSUME NEW c \in Range(new) PROVE c \in Kids(st, f)
    <3>1. PICK j \in f.next .. f.made : c = Branches[i][j]
      BY <1>6
    <3>2. f.next <= j /\ j <= f.made
      BY <1>4
    <3> QED
      BY <3>1, <3>2, <2>1 DEF Kids
  <2> QED
    BY <2>2, <2>3
<1>8. Kids(st, e) = {}
  <2> SUFFICES ASSUME NEW c \in Kids(st, e) PROVE FALSE
    OBVIOUS
  <2>1. PICK j \in DOMAIN Branches[e.item] : e.next <= j /\ j <= e.made
    BY DEF Kids
  <2>2. j \in Int
    BY <2>1, <1>4, BranchesOf
  <2> QED
    BY <2>1, <2>2, <1>4
<1>9. tr.children[a] = <<>>
  <2>1. n \in 1 .. Len(stk[t]) /\ Kids(st, stk[t][n]) = {} /\ stk[t][n].anchor = a
    BY <1>2, <1>3, <1>8
  <2> HIDE DEF n, a
  <2>2. tr.children[stk[t][n].anchor] = <<>>
    BY <2>1, <1>1, NoKids
  <2> QED
    BY <2>1, <2>2
<1>10. Hanging(tr, tr2, t, new, a)
  BY <1>1, <1>4, <1>6, SetParentFields
<1> HIDE DEF tr2, n, a, i
<1>11. tr2.children[a] = new
  <2>1. <<>> \o new = new
    BY <1>6, EmptyList, Zenon
  <2> QED
    BY <1>4, <1>9, <1>10, <2>1 DEF Hanging, a
<1>12. ASSUME NEW u \in Thread, NEW k \in DOMAIN stk2[u]
       PROVE  \/ u = t /\ k = n
              \/ /\ k \in 1 .. Len(stk[u]) /\ k \in DOMAIN stk[u] /\ stk2[u][k] = stk[u][k]
                 /\ stk[u][k].item # i /\ stk[u][k].anchor # a
  <2>1. CASE u = t /\ k = n
    BY <2>1
  <2>2. CASE ~(u = t /\ k = n)
    <3>1. k \in 1 .. Len(stk[u]) /\ k \in DOMAIN stk[u] /\ stk2[u][k] = stk[u][k]
      <4>1. CASE u # t
        BY <4>1, <1>3, Frames
      <4>2. CASE u = t
        <5>1. k \in 1 .. n /\ k # n
          <6>1. DOMAIN stk2[t] = 1 .. Len(stk2[t])
            BY Frames
          <6> QED
            BY <6>1, <4>2, <2>2, <1>3, Zenon
        <5>2. k \in 1 .. n - 1 /\ n = Len(stk[t])
          BY <5>1, <1>2 DEF n
        <5> QED
          BY <5>1, <5>2, <4>2, <1>3, Frames
      <4> QED
        BY <4>1, <4>2
    <3>2. stk[u][k].item # stk[t][n].item
      <4> SUFFICES ASSUME stk[u][k].item = stk[t][n].item PROVE FALSE
        OBVIOUS
      <4>1. n \in 1 .. Len(stk[t])
        BY <1>2
      <4>2. u = t /\ k = n
        <5>1. \A v \in Thread : \A l \in DOMAIN stk[v] : stk[v][l].item = stk[t][n].item => v = t /\ l = n
          BY <4>1, Frames
        <5> QED
          BY <5>1, <3>1, Zenon
      <4> QED
        BY <4>2, <2>2
    <3>3. stk[u][k].anchor # stk[t][n].anchor
      <4> SUFFICES ASSUME stk[u][k].anchor = stk[t][n].anchor PROVE FALSE
        OBVIOUS
      <4>1. n \in 1 .. Len(stk[t])
        BY <1>2
      <4>2. u = t /\ k = n
        BY <4>1, <3>1, AnchorsDiffer
      <4> QED
        BY <4>2, <2>2
    <3> QED
      BY <3>1, <3>2, <3>3, <1>3 DEF i, a
  <2> QED
    BY <2>1, <2>2
<1>13. ASSUME NEW u \in Thread, NEW k \in 1 .. Len(stk[u]), stk[u][k].item # i
       PROVE  \A c \in Kids(st, stk[u][k]) : c \in Node /\ c \notin Range(new)
  <2> SUFFICES ASSUME NEW c \in Kids(st, stk[u][k]) PROVE c \in Node /\ c \notin Range(new)
    OBVIOUS
  <2>1. stk[u][k] \in Frame /\ stk[u][k].item \in Item
    BY Frames
  <2>2. c \in Node /\ c \in Range(Branches[stk[u][k].item])
    BY <2>1, KidsOf
  <2>3. ASSUME c \in Range(new) PROVE c \in Range(Branches[i])
    <3>1. c \in Kids(st, f)
      BY <1>7, <2>3
    <3> QED
      BY <3>1, KidsOf DEF i
  <2>4. i \in Item
    BY <1>4
  <2> QED
    BY <2>1, <2>2, <2>3, <2>4, <1>13, Forest
<1>20. Hung(tr2, st, stk2)
  <2> SUFFICES ASSUME NEW u \in Thread, NEW k \in DOMAIN stk2[u]
               PROVE  \/ Linked(tr2, st, stk2[u][k])
                      \/ /\ Cut(tr2, st, stk2[u][k])
                         /\ policy = "QUASI_HORIZONTAL" /\ k = Len(stk2[u]) => HeldRoot(tr2, st, u, stk2[u][k])
    BY DEF Hung
  <2>1. CASE u = t /\ k = n
    <3>1. \A c \in Kids(st, f) : tr2.parent[c] = a
      <4> SUFFICES ASSUME NEW c \in Kids(st, f) PROVE tr2.parent[c] = a
        OBVIOUS
      <4>1. c \in Node /\ c \in Range(new)
        BY <1>7, KidsOf
      <4> QED
        BY <4>1, <1>10 DEF Hanging
    <3>2. Linked(tr2, st, f)
      BY <3>1, <1>6, <1>7, <1>11 DEF Linked, a, i
    <3> QED
      BY <2>1, <3>2, <1>3
  <2>2. CASE ~(u = t /\ k = n)
    <3> DEFINE g == stk[u][k]
    <3>1. /\ k \in 1 .. Len(stk[u]) /\ k \in DOMAIN stk[u] /\ stk2[u][k] = g /\ g.item # i /\ g.anchor # a
          /\ g.anchor \in Node
      BY <2>2, <1>12, Frames
    <3>2. \A c \in Kids(st, g) : c \in Node /\ c \notin Range(new)
      BY <3>1, <1>13
    <3>3. Linked(tr, st, g) \/ (Cut(tr, st, g) /\ (policy = "QUASI_HORIZONTAL" /\ k = Len(stk[u]) => HeldRoot(tr, st, u, g)))
      BY <3>1, <1>1 DEF Hung
    <3>4. Len(stk2[u]) = Len(stk[u])
      BY <1>3 DEF n
    <3>5. tr2.children[g.anchor] = tr.children[g.anchor] /\ tr2.cell = tr.cell
      BY <3>1, <1>10 DEF Hanging
    <3>6. \A c \in Kids(st, g) : tr2.parent[c] = tr.parent[c] /\ (tr2.rooted[c] <=> tr.rooted[c])
      BY <3>2, <1>10 DEF Hanging
    <3> HIDE DEF g
    <3>7. Linked(tr, st, g) => Linked(tr2, st, g)
      BY <3>5, <3>6 DEF Linked
    <3>8. Cut(tr, st, g) => Cut(tr2, st, g)
      BY <3>5, <3>6 DEF Cut
    <3>9. HeldRoot(tr, st, u, g) => HeldRoot(tr2, st, u, g)
      BY <3>5, <3>6 DEF HeldRoot
    <3> QED
      BY <3>1, <3>3, <3>4, <3>7, <3>8, <3>9
  <2> QED
    BY <2>1, <2>2
<1>21. Anchored(tr2, stk2)
  <2>1. ASSUME NEW x \in Node, tr2.children[x] # <<>>
        PROVE  \E u \in Thread : \E k \in DOMAIN stk2[u] : stk2[u][k].anchor = x
    <3>1. CASE x = a
      <4>1. n \in DOMAIN stk2[t] /\ stk2[t][n].anchor = a
        <5>1. DOMAIN stk2[t] = 1 .. Len(stk2[t])
          BY Frames
        <5>2. n \in 1 .. n
          BY <1>2
        <5>3. stk2[t][n].anchor = a
          BY <1>3 DEF a
        <5> QED
          BY <5>1, <5>2, <5>3, <1>3
      <4> QED
        BY <3>1, <4>1
    <3>2. CASE x # a
      <4>1. tr.children[x] # <<>>
        BY <2>1, <3>2, <1>10 DEF Hanging
      <4>2. PICK u \in Thread : \E k \in DOMAIN stk[u] : stk[u][k].anchor = x
        BY <4>1, <1>1 DEF Anchored
      <4>3. PICK k \in DOMAIN stk[u] : stk[u][k].anchor = x
        BY <4>2
      <4>4. k \in DOMAIN stk2[u] /\ ~(u = t /\ k = n)
        BY <4>3, <3>2, <1>3, Frames DEF a, n
      <4>5. stk2[u][k] = stk[u][k]
        BY <4>4, <1>12
      <4> QED
        BY <4>3, <4>4, <4>5
    <3> QED
      BY <3>1, <3>2
  <2>2. ASSUME NEW x \in Node, tr2.parent[x] # None PROVE x \in Range(tr2.children[tr2.parent[x]])
    <3>1. CASE x \in Range(new)
      BY <3>1, <1>10, <1>11 DEF Hanging
    <3>2. CASE x \notin Range(new)
      <4> DEFINE q == tr.parent[x]
      <4>1. tr2.parent[x] = q /\ q # None
        BY <3>2, <2>2, <1>10 DEF Hanging
      <4>5. q \in Node
        BY <4>1, <1>1, TreeFields
      <4>2. x \in Range(tr.children[q])
        BY <4>1, <1>1 DEF Anchored
      <4>3. q # a
        BY <4>2, <1>9, EmptyList, Zenon
      <4>4. tr2.children[q] = tr.children[q]
        BY <4>5, <4>3, <1>10 DEF Hanging
      <4> HIDE DEF q
      <4> QED
        BY <4>1, <4>2, <4>4
    <3> QED
      BY <3>1, <3>2
  <2> QED
    BY <2>1, <2>2 DEF Anchored
<1>22. Home(tr2, rn, stk2)
  <2> SUFFICES ASSUME NEW u \in Thread, tr2.cell[u] # None
               PROVE  /\ tr2.parent[tr2.cell[u]] = None
                      /\ \E x \in Item :
                           /\ rn[x] = 1 /\ (tr2.cell[u] = Dummy(x) \/ tr2.cell[u] \in Range(Branches[x]))
                           /\ \A v \in Thread : \A k \in DOMAIN stk2[v] : stk2[v][k].item = x =>
                                v = u /\ \A j \in DOMAIN Branches[x] :
                                            tr2.cell[u] = Branches[x][j] => j <= stk2[v][k].made
    BY DEF Home
  <2> DEFINE r == tr.cell[u]
  <2>1. tr2.cell[u] = r /\ r # None /\ r \in Node /\ tr.parent[r] = None
    <3>1. tr2.cell = tr.cell
      BY <1>10 DEF Hanging
    <3>2. tr2.cell[u] = r /\ r # None
      BY <3>1
    <3>3. r \in Node
      <4>1. tr.cell \in [Thread -> Node \cup {None}]
        BY <1>1, TreeFields
      <4> QED
        BY <4>1, <3>2
    <3>4. tr.parent[r] = None
      BY <3>2, <1>1 DEF Home
    <3> QED
      BY <3>2, <3>3, <3>4
  <2>2. PICK x \in Item :
            /\ rn[x] = 1 /\ (r = Dummy(x) \/ r \in Range(Branches[x]))
            /\ \A v \in Thread : \A k \in DOMAIN stk[v] : stk[v][k].item = x =>
                 v = u /\ \A j \in DOMAIN Branches[x] : r = Branches[x][j] => j <= stk[v][k].made
    BY <2>1, <1>1 DEF Home
  <2> HIDE DEF r
  <2>3. n \in DOMAIN stk[t] /\ stk[t][n] = e /\ e.item = i
    BY <1>2, <1>3, Frames DEF i
  <2>4. r \notin Range(new)
    <3> SUFFICES ASSUME r \in Range(new) PROVE FALSE
      OBVIOUS
    <3>1. PICK j \in f.next .. f.made : r = Branches[i][j]
      BY <1>6
    <3>2. j \in DOMAIN Branches[i] /\ r \in Item /\ r \in Range(Branches[i])
      <4> DEFINE lo == f.next
                 hi == f.made
      <4>1. lo \in 1 .. Len(Branches[i]) /\ hi \in lo .. Len(Branches[i]) /\ j \in lo .. hi /\ i \in Item
        BY <3>1, <1>4, <1>5
      <4> HIDE DEF lo, hi
      <4>2. j \in DOMAIN Branches[i] /\ Branches[i][j] \in Item /\ Branches[i][j] \in Range(Branches[i])
        BY <4>1, BranchAt
      <4> QED
        BY <4>2, <3>1
    <3>3. r # Dummy(x)
      BY <3>2, Nodes
    <3>4. i \in Item
      BY <1>4
    <3>5. x = i
      BY <3>2, <3>3, <3>4, <2>2, Forest
    <3>6. j <= e.made
      BY <3>1, <3>2, <3>5, <2>2, <2>3
    <3> QED
      BY <3>6, <1>4
  <2>5. tr2.parent[r] = None
    BY <2>1, <2>4, <1>10 DEF Hanging
  <2>6. ASSUME NEW v \in Thread, NEW k \in DOMAIN stk2[v], stk2[v][k].item = x
        PROVE  v = u /\ \A j \in DOMAIN Branches[x] : r = Branches[x][j] => j <= stk2[v][k].made
    <3>1. CASE v = t /\ k = n
      <4>1. e.item = x /\ stk2[v][k] = f
        BY <3>1, <2>3, <2>6, <1>3 DEF i
      <4>2. v = u /\ \A j \in DOMAIN Branches[x] : r = Branches[x][j] => j <= e.made
        BY <4>1, <3>1, <2>2, <2>3
      <4>3. \A j \in DOMAIN Branches[x] : j \in Int
        BY BranchesOf
      <4>4. e.made <= f.made
        BY <1>4, <1>5
      <4> QED
        BY <4>1, <4>2, <4>3, <4>4, <1>4
    <3>2. CASE ~(v = t /\ k = n)
      <4>1. k \in DOMAIN stk[v] /\ stk2[v][k] = stk[v][k]
        BY <3>2, <1>12
      <4> QED
        BY <4>1, <2>2, <2>6
    <3> QED
      BY <3>1, <3>2
  <2> QED
    BY <2>1, <2>2, <2>5, <2>6
<1>23. Known(tr2, st, stk2)
  <2> SUFFICES ASSUME policy = "QUASI_HORIZONTAL", NEW u \in Thread
               PROVE  /\ stk2[u] # <<>> /\ Branches[stk2[u][1].item] # <<>> => tr2.cell[u] # None
                      /\ \A k \in DOMAIN stk2[u] : \A c \in Kids(st, stk2[u][k]) :
                           k = Len(stk2[u]) \/ c # stk2[u][k + 1].item => tr2.rooted[c]
    BY DEF Known
  <2>0. tr2.cell = tr.cell
    BY <1>10 DEF Hanging
  <2>1. ASSUME stk2[u] # <<>>, Branches[stk2[u][1].item] # <<>> PROVE tr2.cell[u] # None
    <3>1. CASE u = t
      BY <3>1, <2>0
    <3>2. CASE u # t
      BY <3>2, <2>0, <2>1, <1>1, <1>3 DEF Known
    <3> QED
      BY <3>1, <3>2
  <2>2. ASSUME NEW k \in DOMAIN stk2[u], NEW c \in Kids(st, stk2[u][k]),
               k = Len(stk2[u]) \/ c # stk2[u][k + 1].item
        PROVE  tr2.rooted[c]
    <3>1. CASE u = t /\ k = n
      <4>1. c \in Kids(st, f)
        BY <3>1, <1>3
      <4>2. c \in Node /\ c \in Range(new)
        BY <4>1, <1>7, KidsOf
      <4> QED
        BY <4>2, <1>10 DEF Hanging
    <3>2. CASE ~(u = t /\ k = n)
      <4>1. /\ k \in 1 .. Len(stk[u]) /\ k \in DOMAIN stk[u] /\ stk2[u][k] = stk[u][k] /\ stk[u][k].item # i
        BY <3>2, <1>12
      <4>2. c \in Node /\ c \notin Range(new) /\ c \in Kids(st, stk[u][k])
        BY <4>1, <1>13
      <4>3. k = Len(stk[u]) \/ c # stk[u][k + 1].item
        <5>1. CASE u # t
          BY <5>1, <2>2, <1>3
        <5>2. CASE u = t
          <6>1. k + 1 \in 1 .. n /\ k # Len(stk2[u])
            BY <5>2, <3>2, <4>1, <1>2, <1>3 DEF n
          <6>2. stk2[t][k + 1].item = stk[t][k + 1].item
            <7>1. CASE k + 1 = n
              BY <7>1, <1>3
            <7>2. CASE k + 1 # n
              <8>1. k + 1 \in 1 .. n - 1
                BY <7>2, <6>1, <1>2
              <8> QED
                BY <8>1, <1>3
            <7> QED
              BY <7>1, <7>2
          <6> QED
            BY <6>1, <6>2, <5>2, <2>2
        <5> QED
          BY <5>1, <5>2
      <4>4. tr.rooted[c]
        BY <4>1, <4>2, <4>3, <1>1 DEF Known
      <4> QED
        BY <4>2, <4>4, <1>10 DEF Hanging
    <3> QED
      BY <3>1, <3>2
  <2> QED
    BY <2>1, <2>2
<1>24. tr2 \in Tree
  BY <1>10 DEF Hanging
<1>25. TreeInv(tr2, st, stk2, rn)
  BY <1>20, <1>21, <1>22, <1>23, <1>24 DEF TreeInv
<1> QED
  BY <1>25 DEF tr2, a

-----------------------------------------------------------------------------
(* The steps of a stack *)

\* What a call in its place satisfies.
LEMMA PlacedFields ==
    ASSUME NEW sty, NEW st, NEW s, NEW k, Placed(sty, st, s, k)
    PROVE  /\ s[k].made <= Len(Branches[s[k].item]) /\ s[k].next <= s[k].made + 1
           /\ s[k].anchor = IF k = 1 THEN Dummy(s[k].item) ELSE s[k].item
           /\ s[k].at # "user" => s[k].next <= s[k].made
BY DEF Placed

\* The innermost call of a thread.
LEMMA TopOf ==
    ASSUME stack \in [Thread -> Seq(Frame)], NEW t \in Thread, stack[t] # <<>>
    PROVE  /\ Len(stack[t]) \in Nat /\ Len(stack[t]) >= 1 /\ Len(stack[t]) \in 1 .. Len(stack[t])
           /\ Len(stack[t]) \in DOMAIN stack[t] /\ Top(t) = stack[t][Len(stack[t])] /\ Top(t) \in Frame
<1>1. stack[t] \in Seq(Frame)
  OBVIOUS
<1>2. Len(stack[t]) \in Nat /\ Len(stack[t]) >= 1 /\ DOMAIN stack[t] = 1 .. Len(stack[t])
  BY <1>1
<1>3. Top(t) = stack[t][Len(stack[t])]
  BY DEF Top, Last
<1> QED
  BY <1>1, <1>2, <1>3

\* All but the innermost call.
LEMMA FrontOf ==
    ASSUME NEW S, NEW s \in Seq(S), Len(s) >= 1
    PROVE  /\ Front(s) \in Seq(S) /\ Len(Front(s)) = Len(s) - 1
           /\ \A k \in 1 .. Len(s) - 1 : Front(s)[k] = s[k]
<1> DEFINE n == Len(s)
<1>1. n \in Nat /\ n >= 1 /\ n - 1 \in Int /\ \A i \in 1 .. n - 1 : s[i] \in S
  OBVIOUS
<1> DEFINE m == n - 1
<1>5. m \in Int /\ m >= 0 /\ 1 \in Int /\ \A i \in 1 .. m : s[i] \in S
  BY <1>1
<1> HIDE DEF m, n
<1>2. /\ SubSeq(s, 1, m) \in Seq(S) /\ Len(SubSeq(s, 1, m)) = IF 1 <= m THEN m - 1 + 1 ELSE 0
      /\ \A k \in 1 .. m - 1 + 1 : SubSeq(s, 1, m)[k] = s[1 + k - 1]
  BY <1>5, SubSeqProperties
<1>3. Len(SubSeq(s, 1, m)) = m /\ \A k \in 1 .. m : SubSeq(s, 1, m)[k] = s[k]
  BY <1>2, <1>5
<1>4. Front(s) = SubSeq(s, 1, m)
  BY DEF Front, m, n
<1> QED
  BY <1>2, <1>3, <1>4 DEF m, n

\* The call goes on.
LEMMA GoOnReplaces ==
    ASSUME stack \in [Thread -> Seq(Frame)], NEW t \in Thread, stack[t] # <<>>, NEW f \in Frame, GoOn(t, f)
    PROVE  Replaced(stack, stack', t, Len(stack[t]), f)
<1> DEFINE s == stack[t]
           n == Len(s)
           w == Front(s)
           r == Append(w, f)
<1>1. s \in Seq(Frame) /\ n \in Nat /\ n >= 1
  OBVIOUS
<1>2. stack' = [stack EXCEPT ![t] = r]
  BY DEF GoOn
<1>3. w \in Seq(Frame) /\ Len(w) = n - 1 /\ \A k \in 1 .. n - 1 : w[k] = s[k]
  BY <1>1, FrontOf
<1> HIDE DEF w
<1>4. r \in Seq(Frame) /\ Len(r) = n /\ r[n] = f /\ \A k \in 1 .. n - 1 : r[k] = s[k]
  BY <1>1, <1>3
<1> HIDE DEF r
<1>5. stack'[t] = r /\ (\A u \in Thread : u # t => stack'[u] = stack[u]) /\ stack' \in [Thread -> Seq(Frame)]
  BY <1>2, <1>4
<1> QED
  BY <1>4, <1>5 DEF Replaced

\* A call begins.
LEMMA PushReplaces ==
    ASSUME stack \in [Thread -> Seq(Frame)], NEW t \in Thread, NEW f \in Frame,
           stack' = [stack EXCEPT ![t] = Append(stack[t], f)]
    PROVE  Replaced(stack, stack', t, Len(stack[t]) + 1, f)
<1> DEFINE s == stack[t]
           n == Len(s)
           r == Append(s, f)
<1>1. s \in Seq(Frame) /\ n \in Nat
  OBVIOUS
<1>2. r \in Seq(Frame) /\ Len(r) = n + 1 /\ r[n + 1] = f /\ \A k \in 1 .. n : r[k] = s[k]
  BY <1>1
<1> HIDE DEF r
<1>3. stack'[t] = r /\ (\A u \in Thread : u # t => stack'[u] = stack[u]) /\ stack' \in [Thread -> Seq(Frame)]
  BY <1>2 DEF r
<1>4. n + 1 - 1 = n
  BY <1>1
<1> QED
  BY <1>2, <1>3, <1>4 DEF Replaced

\* A nested call returns, and the one around it goes on.
LEMMA ReturnReplaces ==
    ASSUME stack \in [Thread -> Seq(Frame)], NEW t \in Thread, Len(stack[t]) > 1, NEW f \in Frame,
           stack' = [stack EXCEPT ![t] = Append(Front(Front(stack[t])), f)]
    PROVE  Replaced(stack, stack', t, Len(stack[t]) - 1, f)
<1> DEFINE s == stack[t]
           n == Len(s)
           q == Front(s)
           w == Front(q)
           r == Append(w, f)
<1>1. s \in Seq(Frame) /\ n \in Nat /\ n >= 2
  OBVIOUS
<1>2. stack' = [stack EXCEPT ![t] = r]
  OBVIOUS
<1>3. q \in Seq(Frame) /\ Len(q) = n - 1 /\ \A k \in 1 .. n - 1 : q[k] = s[k]
  BY <1>1, FrontOf
<1> HIDE DEF q
<1>8. w \in Seq(Frame) /\ Len(w) = Len(q) - 1 /\ \A k \in 1 .. Len(q) - 1 : w[k] = q[k]
  BY <1>1, <1>3, FrontOf
<1> HIDE DEF w
<1>4. w \in Seq(Frame) /\ Len(w) = n - 2 /\ \A k \in 1 .. n - 2 : w[k] = s[k]
  BY <1>1, <1>3, <1>8
<1> HIDE DEF w
<1>5. r \in Seq(Frame) /\ Len(r) = n - 1 /\ r[n - 1] = f /\ \A k \in 1 .. n - 2 : r[k] = s[k]
  BY <1>1, <1>4
<1> HIDE DEF r
<1>6. stack'[t] = r /\ (\A u \in Thread : u # t => stack'[u] = stack[u]) /\ stack' \in [Thread -> Seq(Frame)]
  BY <1>2, <1>5
<1>7. n - 1 - 1 = n - 2
  BY <1>1
<1> QED
  BY <1>5, <1>6, <1>7 DEF Replaced

\* The frames of a stack of which one is replaced.
LEMMA ReplacedFrames ==
    ASSUME NEW stk \in [Thread -> Seq(Frame)], NEW stk2, NEW t \in Thread, NEW n \in Nat, n >= 1,
           n <= Len(stk[t]) + 1, NEW f \in Frame, Replaced(stk, stk2, t, n, f),
           NEW u \in Thread, NEW k \in DOMAIN stk2[u]
    PROVE  \/ u = t /\ k = n /\ stk2[u][k] = f /\ k = Len(stk2[u])
           \/ /\ k \in DOMAIN stk[u] /\ k \in 1 .. Len(stk[u]) /\ k \in Nat /\ stk2[u][k] = stk[u][k]
              /\ u # t \/ k < n
              /\ k = Len(stk2[u]) => u # t /\ k = Len(stk[u])
<1>1. /\ stk2[u] \in Seq(Frame) /\ DOMAIN stk2[u] = 1 .. Len(stk2[u])
      /\ stk[u] \in Seq(Frame) /\ DOMAIN stk[u] = 1 .. Len(stk[u]) /\ Len(stk[u]) \in Nat
  BY DEF Replaced
<1>2. CASE u # t
  BY <1>1, <1>2 DEF Replaced
<1>3. CASE u = t
  <2>1. Len(stk2[t]) = n /\ k \in 1 .. n /\ stk2[t][n] = f /\ \A l \in 1 .. n - 1 : stk2[t][l] = stk[t][l]
    BY <1>1, <1>3 DEF Replaced
  <2>2. CASE k = n
    BY <2>1, <2>2, <1>3
  <2>3. CASE k # n
    <3>1. k \in 1 .. n - 1 /\ k \in 1 .. Len(stk[t]) /\ k < n /\ k \in Nat
      BY <2>1, <2>3, <1>1, <1>3
    <3> QED
      BY <3>1, <2>1, <1>1, <1>3
  <2> QED
    BY <2>2, <2>3
<1> QED
  BY <1>2, <1>3

\* The branch that a call submits now.
NextOf(f) == Branches[f.item][f.next]

\* The frame f goes on where the n-th call of t was, or begins a call that was not in
\* progress, for the branch that the call below it submits.
Follows(st, stk, t, n, f) ==
    \/ n <= Len(stk[t]) /\ f.item = stk[t][n].item
    \/ /\ n = Len(stk[t]) + 1
       /\ \A u \in Thread : \A k \in DOMAIN stk[u] : stk[u][k].item # f.item
       /\ n > 1 => /\ stk[t][n - 1].next <= stk[t][n - 1].made
                   /\ f.item = NextOf(stk[t][n - 1]) /\ st[f.item] = "UNUSED"

\* The branches that the calls submit keep their state, apart from the n-th call of t.
NextKept(st, st2, stk, t, n) ==
    \A u \in Thread : \A k \in DOMAIN stk[u] :
        (u # t \/ k < n) /\ stk[u][k].next <= stk[u][k].made
            => st2[NextOf(stk[u][k])] = st[NextOf(stk[u][k])]

AllPlaced(sty, st, stk) ==
    \A t \in Thread : \A k \in DOMAIN stk[t] : Placed(sty, st, stk[t], k)

\* The calls stay in their places when one frame is replaced and the branches that other
\* calls submit keep their state.
LEMMA StackNext ==
    ASSUME NEW sty, NEW st \in [Item -> node_state], NEW stk \in [Thread -> Seq(Frame)],
           AllPlaced(sty, st, stk), Apart(stk),
           NEW st2, NEW stk2, NEW t \in Thread, NEW n \in Nat, n >= 1, n <= Len(stk[t]) + 1,
           NEW f \in Frame, Replaced(stk, stk2, t, n, f), Follows(st, stk, t, n, f),
           NextKept(st, st2, stk, t, n),
           Placed(sty, st2, stk2[t], n)
    PROVE  AllPlaced(sty, st2, stk2) /\ Apart(stk2)
<1>1. ASSUME NEW u \in Thread, NEW k \in DOMAIN stk2[u] PROVE Placed(sty, st2, stk2[u], k)
  <2>1. CASE u = t /\ k = n
    BY <2>1
  <2>2. CASE ~(u = t /\ k = n)
    <3> DEFINE g == stk[u][k]
    <3>1. /\ k \in DOMAIN stk[u] /\ k \in 1 .. Len(stk[u]) /\ k \in Nat /\ stk2[u][k] = g /\ (u # t \/ k < n)
          /\ k = Len(stk2[u]) => u # t /\ k = Len(stk[u])
      BY <2>2, ReplacedFrames
    <3>2. Placed(sty, st, stk[u], k)
      BY <3>1 DEF AllPlaced
    <3>3. /\ g.made <= Len(Branches[g.item]) /\ g.next <= g.made + 1
          /\ g.anchor = IF k = 1 THEN Dummy(g.item) ELSE g.item
          /\ IF sty = "late" THEN g.made <= g.next ELSE g.made \in {0, Len(Branches[g.item])}
          /\ g.at # "user" \/ k < Len(stk[u]) => g.next <= g.made /\ st[NextOf(g)] = "UNUSED"
          /\ k < Len(stk[u]) => stk[u][k + 1].item = NextOf(g)
      BY <3>2 DEF Placed, NextOf
    <3>4. g.next <= g.made => st2[NextOf(g)] = st[NextOf(g)]
      BY <3>1 DEF NextKept
    <3> HIDE DEF g
    <3>5. CASE u # t
      <4>1. stk2[u] = stk[u]
        BY <3>5 DEF Replaced
      <4> QED
        BY <4>1, <3>1, <3>3, <3>4 DEF Placed, NextOf
    <3>6. CASE u = t
      <4>1. k < n /\ Len(stk2[u]) = n /\ n \in Nat /\ k + 1 \in 1 .. n /\ k \in 1 .. Len(stk[t]) /\ Len(stk[t]) \in Nat
        BY <3>1, <3>6 DEF Replaced
      <4>2. CASE k + 1 < n
        <5>1. k + 1 \in 1 .. n - 1 /\ k < Len(stk[t])
          BY <4>1, <4>2
        <5>2. stk2[t][k + 1] = stk[t][k + 1]
          BY <5>1 DEF Replaced
        <5> QED
          BY <5>1, <5>2, <4>1, <3>1, <3>3, <3>4, <3>6 DEF Placed, NextOf
      <4>3. CASE k + 1 = n
        <5>1. stk2[t][k + 1] = f
          BY <4>3 DEF Replaced
        <5>2. f.item = NextOf(g) /\ g.next <= g.made /\ st[NextOf(g)] = "UNUSED"
          <6>1. CASE n <= Len(stk[t]) /\ f.item = stk[t][n].item
            BY <6>1, <4>1, <4>3, <3>3, <3>6
          <6>2. CASE ~(n <= Len(stk[t]) /\ f.item = stk[t][n].item)
            <7>1. n - 1 = k /\ n > 1
              BY <4>1, <4>3
            <7>2. /\ stk[t][k].next <= stk[t][k].made
                  /\ f.item = NextOf(stk[t][k]) /\ st[f.item] = "UNUSED"
              BY <6>2, <7>1 DEF Follows
            <7> QED
              BY <7>2, <3>6 DEF g
          <6> QED
            BY <6>1, <6>2
        <5> QED
          BY <5>1, <5>2, <4>1, <4>3, <3>1, <3>3, <3>4, <3>6 DEF Placed, NextOf
      <4> QED
        BY <4>1, <4>2, <4>3
    <3> QED
      BY <3>5, <3>6
  <2> QED
    BY <2>1, <2>2
<1>2. ASSUME NEW u \in Thread, NEW k \in DOMAIN stk[u], u # t \/ k < n PROVE stk[u][k].item # f.item
  <2>1. CASE n <= Len(stk[t]) /\ f.item = stk[t][n].item
    <3>1. n \in DOMAIN stk[t]
      BY <2>1
    <3>2. k \in Nat
      OBVIOUS
    <3> QED
      BY <2>1, <3>1, <3>2, <1>2 DEF Apart
  <2>2. CASE ~(n <= Len(stk[t]) /\ f.item = stk[t][n].item)
    BY <2>2 DEF Follows
  <2> QED
    BY <2>1, <2>2
<1>3. ASSUME NEW u \in Thread, NEW v \in Thread, NEW k \in DOMAIN stk2[u], NEW l \in DOMAIN stk2[v],
             stk2[v][l].item = stk2[u][k].item
      PROVE  v = u /\ l = k
  <2>1. \/ u = t /\ k = n /\ stk2[u][k] = f
        \/ k \in DOMAIN stk[u] /\ stk2[u][k] = stk[u][k] /\ (u # t \/ k < n)
    BY ReplacedFrames
  <2>2. \/ v = t /\ l = n /\ stk2[v][l] = f
        \/ l \in DOMAIN stk[v] /\ stk2[v][l] = stk[v][l] /\ (v # t \/ l < n)
    BY ReplacedFrames
  <2> QED
    BY <2>1, <2>2, <1>2, <1>3 DEF Apart
<1> QED
  BY <1>1, <1>3 DEF Apart, AllPlaced

-----------------------------------------------------------------------------
(* The calls of a step *)

\* Resolved, CallInv and BranchInv of given runs, states, cached answers, queue and stacks.
Settled(rn, st, ca, qu, c) ==
    \/ rn[c] = 1
    \/ st[c] = "SENT_TO_ANOTHER_PROCESS"
    \/ ca[c] = {FALSE}
    \/ c \in Range(qu)

Open(stk, i) == \E t \in Thread : \E k \in DOMAIN stk[t] : stk[t][k].item = i

Waiting(rn, st, qu) == \A x \in DOMAIN qu :
    /\ rn[qu[x]] = 0
    /\ st[qu[x]] = IF qu[x] = Seed THEN "UNUSED" ELSE "PUSHED"
    /\ \A y \in DOMAIN qu : qu[x] = qu[y] => x = y

Counted(rn, st, ca, qu, stk) == \A i \in Item :
    /\ rn[i] \in {0, 1}
    /\ rn[i] = 1 => st[i] \notin {"DISCARDED", "SENT_TO_ANOTHER_PROCESS"}
    /\ rn[i] = 0 => \A c \in Range(Branches[i]) : st[c] = "UNUSED" /\ rn[c] = 0
    /\ Open(stk, i) => rn[i] = 1
    /\ rn[i] = 1 /\ ~Open(stk, i) => \A c \in Range(Branches[i]) : Settled(rn, st, ca, qu, c)

\* The branches of the k-th call of stk[t].
Branched(rn, st, ca, qu, stk, t, k) ==
    LET f == stk[t][k] IN
    \A j \in DOMAIN Branches[f.item] :
        LET c == Branches[f.item][j] IN
        /\ j > f.made => st[c] = "UNUSED"
        /\ j >= f.next /\ st[c] = "UNUSED" /\ (k = Len(stk[t]) \/ j # f.next) => rn[c] = 0
        /\ j < f.next \/ st[c] # "UNUSED" => Settled(rn, st, ca, qu, c)

AllBranched(rn, st, ca, qu, stk) ==
    \A t \in Thread : \A k \in DOMAIN stk[t] : Branched(rn, st, ca, qu, stk, t, k)

\* The invariant in these terms.
LEMMA CallParts ==
    ASSUME CallInv, BranchInv
    PROVE  /\ Waiting(runs, state, queue) /\ Counted(runs, state, cached, queue, stack)
           /\ AllBranched(runs, state, cached, queue, stack)
<1>1. Waiting(runs, state, queue)
  BY DEF CallInv, Waiting
<1>2. Counted(runs, state, cached, queue, stack)
  BY DEF CallInv, Counted, InProgress, Open, Resolved, Settled
<1>3. AllBranched(runs, state, cached, queue, stack)
  BY DEF BranchInv, AllBranched, Branched, Resolved, Settled
<1> QED
  BY <1>1, <1>2, <1>3

\* And after a step.
LEMMA CallPartsNext ==
    ASSUME Waiting(runs', state', queue'), Counted(runs', state', cached', queue', stack'),
           AllBranched(runs', state', cached', queue', stack')
    PROVE  CallInv' /\ BranchInv'
<1>1. CallInv'
  BY DEF CallInv, Waiting, Counted, InProgress, Open, Resolved, Settled
<1>2. BranchInv'
  BY DEF BranchInv, AllBranched, Branched, Resolved, Settled
<1> QED
  BY <1>1, <1>2

\* The places of the calls after a step.
LEMMA StackPartsNext ==
    ASSUME style' = style, \A t \in Thread : \A k \in DOMAIN stack'[t] : Placed(style, state', stack'[t], k),
           Apart(stack')
    PROVE  StackInv'
<1>1. \A t \in Thread : \A k \in DOMAIN stack'[t] : Placed(style', state', stack'[t], k)
  OBVIOUS
<1> QED
  BY <1>1 DEF StackInv, Apart, Placed

\* The tree after a step.
LEMMA TreePartsNext ==
    ASSUME policy' = policy, TreeInv(tree', state', stack', runs')
    PROVE  TreeInv(tree, state, stack, runs)'
<1>1. /\ tree' \in Tree /\ Hung(tree', state', stack') /\ Anchored(tree', stack')
      /\ Home(tree', runs', stack') /\ Known(tree', state', stack')
  BY DEF TreeInv
<1>2. Hung(tree, state, stack)'
  <2> SUFFICES ASSUME NEW t \in Thread, NEW k \in DOMAIN stack'[t]
               PROVE  \/ Linked(tree, state, stack[t][k])'
                      \/ /\ Cut(tree, state, stack[t][k])'
                         /\ policy' = "QUASI_HORIZONTAL" /\ k = Len(stack'[t]) =>
                              HeldRoot(tree, state, t, stack[t][k])'
    BY DEF Hung
  <2>1. Linked(tree', state', stack'[t][k]) => Linked(tree, state, stack[t][k])'
    BY DEF Linked, Kids, Ascending
  <2>2. Cut(tree', state', stack'[t][k]) => Cut(tree, state, stack[t][k])'
    BY DEF Cut, Kids
  <2>3. HeldRoot(tree', state', t, stack'[t][k]) => HeldRoot(tree, state, t, stack[t][k])'
    BY DEF HeldRoot, Kids
  <2>4. \/ Linked(tree', state', stack'[t][k])
        \/ /\ Cut(tree', state', stack'[t][k])
           /\ policy = "QUASI_HORIZONTAL" /\ k = Len(stack'[t]) => HeldRoot(tree', state', t, stack'[t][k])
    BY <1>1 DEF Hung
  <2> QED
    BY <2>1, <2>2, <2>3, <2>4
<1>3. Known(tree, state, stack)'
  BY <1>1 DEF Known, Kids
<1>4. Anchored(tree, stack)' /\ Home(tree, runs, stack)' /\ (tree \in Tree)'
  BY <1>1 DEF Anchored, Home, Tree
<1> QED
  BY <1>2, <1>3, <1>4 DEF TreeInv

\* What is settled stays settled.
Advance(rn, st, ca, qu, rn2, st2, ca2, qu2) ==
    \A c \in Item : Settled(rn, st, ca, qu, c) => Settled(rn2, st2, ca2, qu2, c)

\* Only waiting branches of the calls of t change their state, and they are settled by that.
Handed(st, rn2, st2, ca2, qu2, stk, t) ==
    \A c \in Item : st2[c] # st[c] =>
        /\ st2[c] # "UNUSED" /\ Settled(rn2, st2, ca2, qu2, c)
        /\ \E k \in 1 .. Len(stk[t]) : c \in Kids(st, stk[t][k])

\* c is the j-th branch of the k-th call of u.
CallsBranch(stk, u, k, j, c) ==
    /\ k \in 1 .. Len(stk[u]) /\ j \in 1 .. Len(Branches[stk[u][k].item])
    /\ c = Branches[stk[u][k].item][j]

\* A waiting branch is in one place.
LEMMA KidPlace ==
    ASSUME NEW st, NEW stk, Shape(st, stk), NEW t \in Thread, NEW l \in 1 .. Len(stk[t]),
           NEW c, c \in Kids(st, stk[t][l]),
           NEW u \in Thread, NEW k, NEW j, CallsBranch(stk, u, k, j, c)
    PROVE  u = t /\ k = l /\ stk[u][k].next <= j /\ j <= stk[u][k].made
<1> DEFINE g == stk[u][k]
<1>2. k \in 1 .. Len(stk[u]) /\ j \in 1 .. Len(Branches[g.item]) /\ c = Branches[g.item][j]
  BY DEF CallsBranch
<1>1. g \in Frame /\ g.item \in Item /\ c \in Range(Branches[g.item])
  BY <1>2, Frames, BranchesOf
<1>3. stk[t][l] \in Frame /\ stk[t][l].item \in Item /\ l \in DOMAIN stk[t]
  BY Frames
<1>4. c \in Range(Branches[stk[t][l].item])
  BY <1>3, KidsOf
<1>5. stk[t][l].item = g.item
  BY <1>1, <1>3, <1>4, Forest
<1>6. u = t /\ l = k
  BY <1>2, <1>3, <1>5, Frames
<1>7. PICK i \in DOMAIN Branches[g.item] : g.next <= i /\ i <= g.made /\ c = Branches[g.item][i]
  BY <1>6 DEF Kids
<1>9. i \in 1 .. Len(Branches[g.item])
  BY <1>1, BranchesOf
<1>8. i = j
  BY <1>7, <1>9, <1>1, <1>2, BranchesOf, ZenonT(40)
<1> QED
  BY <1>6, <1>7, <1>8

\* No branch of the k-th call of u is run, but one that the call submits or that is taken.
RunsStay(rn, rn2, st2, stk, stk2, u, k) ==
    \A j \in 1 .. Len(Branches[stk[u][k].item]) :
        LET c == Branches[stk[u][k].item][j] IN
        rn2[c] = rn[c] \/ (k # Len(stk2[u]) /\ j = stk[u][k].next) \/ st2[c] # "UNUSED"

\* The branches of a call that does not move.
LEMMA BranchesStay ==
    ASSUME NEW st, NEW stk, Shape(st, stk), NEW t \in Thread, NEW rn, NEW ca, NEW qu,
           AllBranched(rn, st, ca, qu, stk),
           NEW st2, NEW rn2, NEW ca2, NEW qu2, Handed(st, rn2, st2, ca2, qu2, stk, t),
           Advance(rn, st, ca, qu, rn2, st2, ca2, qu2), NEW stk2,
           NEW u \in Thread, NEW k \in 1 .. Len(stk[u]), stk2[u][k] = stk[u][k],
           k = Len(stk2[u]) => k = Len(stk[u]),
           RunsStay(rn, rn2, st2, stk, stk2, u, k)
    PROVE  Branched(rn2, st2, ca2, qu2, stk2, u, k)
<1> DEFINE g == stk[u][k]
<1>1. g.item \in Item /\ k \in DOMAIN stk[u] /\ g.made \in Nat /\ g.next \in Nat
  BY Frames
<1>2. DOMAIN Branches[g.item] = 1 .. Len(Branches[g.item]) /\ Len(Branches[g.item]) \in Nat
  BY <1>1, BranchesOf
<1> SUFFICES ASSUME NEW j \in 1 .. Len(Branches[g.item])
             PROVE  LET c == Branches[g.item][j] IN
                    /\ j > g.made => st2[c] = "UNUSED"
                    /\ j >= g.next /\ st2[c] = "UNUSED" /\ (k = Len(stk2[u]) \/ j # g.next) => rn2[c] = 0
                    /\ j < g.next \/ st2[c] # "UNUSED" => Settled(rn2, st2, ca2, qu2, c)
  BY <1>2 DEF Branched
<1> DEFINE c == Branches[g.item][j]
<1>3. c \in Item /\ j \in DOMAIN Branches[g.item]
  BY <1>1, <1>2, BranchesOf
<1>4. /\ j > g.made => st[c] = "UNUSED"
      /\ j >= g.next /\ st[c] = "UNUSED" /\ (k = Len(stk[u]) \/ j # g.next) => rn[c] = 0
      /\ j < g.next \/ st[c] # "UNUSED" => Settled(rn, st, ca, qu, c)
  BY <1>1, <1>3 DEF AllBranched, Branched
<1>5. ASSUME st2[c] # st[c] PROVE g.next <= j /\ j <= g.made
  <2>1. PICK l \in 1 .. Len(stk[t]) : c \in Kids(st, stk[t][l])
    BY <1>3, <1>5 DEF Handed
  <2>2. CallsBranch(stk, u, k, j, c)
    BY DEF CallsBranch
  <2> HIDE DEF c
  <2> QED
    BY <2>1, <2>2, KidPlace
<1>6. st2[c] # st[c] => st2[c] # "UNUSED" /\ Settled(rn2, st2, ca2, qu2, c)
  BY <1>3 DEF Handed
<1>7. Settled(rn, st, ca, qu, c) => Settled(rn2, st2, ca2, qu2, c)
  BY <1>3 DEF Advance
<1>8. rn2[c] = rn[c] \/ (k # Len(stk2[u]) /\ j = g.next) \/ st2[c] # "UNUSED"
  BY DEF RunsStay
<1> HIDE DEF c, g
<1>9. j > g.made => st2[c] = "UNUSED"
  BY <1>1, <1>4, <1>5
<1>10. ASSUME j >= g.next, st2[c] = "UNUSED", k = Len(stk2[u]) \/ j # g.next PROVE rn2[c] = 0
  <2>1. st[c] = "UNUSED"
    BY <1>6, <1>10
  <2>2. rn[c] = 0
    BY <2>1, <1>4, <1>10
  <2>3. rn2[c] = rn[c]
    BY <1>8, <1>10
  <2> QED
    BY <2>2, <2>3
<1>11. ASSUME j < g.next \/ st2[c] # "UNUSED" PROVE Settled(rn2, st2, ca2, qu2, c)
  <2>1. CASE st2[c] # st[c]
    BY <2>1, <1>6
  <2>2. CASE st2[c] = st[c]
    BY <2>2, <1>4, <1>7, <1>11
  <2> QED
    BY <2>1, <2>2
<1> QED
  BY <1>9, <1>10, <1>11 DEF c

\* The branches of the calls after the n-th of t has gone on and the ones above it, if any,
\* have returned.
LEMMA BranchesGoOn ==
    ASSUME NEW st, NEW stk, Shape(st, stk), NEW t \in Thread, NEW rn, NEW ca, NEW qu,
           AllBranched(rn, st, ca, qu, stk),
           NEW st2, NEW ca2, NEW qu2, Handed(st, rn, st2, ca2, qu2, stk, t),
           Advance(rn, st, ca, qu, rn, st2, ca2, qu2), NEW stk2,
           NEW n \in 1 .. Len(stk[t]), NEW f \in Frame, Replaced(stk, stk2, t, n, f),
           f.item = stk[t][n].item, f.made >= stk[t][n].made,
           \/ f.next = stk[t][n].next /\ n = Len(stk[t])
           \/ f.next = stk[t][n].next + 1 /\ Settled(rn, st2, ca2, qu2, NextOf(stk[t][n]))
    PROVE  AllBranched(rn, st2, ca2, qu2, stk2)
<1> SUFFICES ASSUME NEW u \in Thread, NEW k \in DOMAIN stk2[u]
             PROVE  Branched(rn, st2, ca2, qu2, stk2, u, k)
  BY DEF AllBranched
<1>1. stk \in [Thread -> Seq(Frame)] /\ n \in Nat /\ n >= 1 /\ n <= Len(stk[t]) + 1 /\ Len(stk[t]) \in Nat
  BY Frames DEF Shape
<1>2. CASE ~(u = t /\ k = n)
  <2>1. k \in 1 .. Len(stk[u]) /\ stk2[u][k] = stk[u][k] /\ (k = Len(stk2[u]) => k = Len(stk[u]))
    BY <1>1, <1>2, ReplacedFrames
  <2>2. RunsStay(rn, rn, st2, stk, stk2, u, k)
    BY DEF RunsStay
  <2> QED
    BY <2>1, <2>2, BranchesStay
<1>3. CASE u = t /\ k = n
  <2> DEFINE e == stk[t][n]
  <2>1. /\ e.item \in Item /\ n \in DOMAIN stk[t] /\ e.made \in Nat /\ e.next \in Nat
        /\ stk2[t][n] = f /\ Len(stk2[t]) = n
    BY Frames DEF Replaced
  <2>2. f.made \in Nat /\ f.next \in Nat
    BY DEF Frame
  <2>3. DOMAIN Branches[e.item] = 1 .. Len(Branches[e.item]) /\ Len(Branches[e.item]) \in Nat
    BY <2>1, BranchesOf
  <2> SUFFICES ASSUME NEW j \in 1 .. Len(Branches[e.item])
               PROVE  LET c == Branches[e.item][j] IN
                      /\ j > f.made => st2[c] = "UNUSED"
                      /\ j >= f.next /\ st2[c] = "UNUSED" => rn[c] = 0
                      /\ j < f.next \/ st2[c] # "UNUSED" => Settled(rn, st2, ca2, qu2, c)
    BY <2>1, <2>3, <1>3, ZenonT(40) DEF Branched
  <2> DEFINE c == Branches[e.item][j]
  <2>4. c \in Item /\ j \in DOMAIN Branches[e.item]
    BY <2>1, <2>3, BranchesOf
  <2>5. /\ j > e.made => st[c] = "UNUSED"
        /\ j >= e.next /\ st[c] = "UNUSED" /\ (n = Len(stk[t]) \/ j # e.next) => rn[c] = 0
        /\ j < e.next \/ st[c] # "UNUSED" => Settled(rn, st, ca, qu, c)
    BY <2>1, <2>4 DEF AllBranched, Branched
  <2>6. ASSUME st2[c] # st[c] PROVE e.next <= j /\ j <= e.made
    <3>1. PICK l \in 1 .. Len(stk[t]) : c \in Kids(st, stk[t][l])
      BY <2>4, <2>6 DEF Handed
    <3>2. CallsBranch(stk, t, n, j, c)
      BY DEF CallsBranch
    <3> HIDE DEF c
    <3> QED
      BY <3>1, <3>2, KidPlace
  <2>7. st2[c] # st[c] => st2[c] # "UNUSED" /\ Settled(rn, st2, ca2, qu2, c)
    BY <2>4 DEF Handed
  <2>8. Settled(rn, st, ca, qu, c) => Settled(rn, st2, ca2, qu2, c)
    BY <2>4 DEF Advance
  <2>9. \/ f.next = e.next /\ n = Len(stk[t])
        \/ f.next = e.next + 1 /\ (j = e.next => Settled(rn, st2, ca2, qu2, c))
    BY DEF NextOf
  <2>10. f.made >= e.made
    OBVIOUS
  <2> HIDE DEF c, e
  <2>11. j > f.made => st2[c] = "UNUSED"
    BY <2>1, <2>2, <2>5, <2>6, <2>10
  <2>12. ASSUME j >= f.next, st2[c] = "UNUSED" PROVE rn[c] = 0
    <3>1. st[c] = "UNUSED"
      BY <2>7, <2>12
    <3>2. j >= e.next /\ (n = Len(stk[t]) \/ j # e.next)
      BY <2>1, <2>2, <2>9, <2>12
    <3> QED
      BY <3>1, <3>2, <2>5
  <2>13. ASSUME j < f.next \/ st2[c] # "UNUSED" PROVE Settled(rn, st2, ca2, qu2, c)
    <3>1. CASE st2[c] # st[c]
      BY <3>1, <2>7
    <3>2. CASE st2[c] = st[c] /\ st[c] # "UNUSED"
      BY <3>2, <2>5, <2>8
    <3>3. CASE st2[c] = st[c] /\ st[c] = "UNUSED"
      <4>1. j < f.next
        BY <3>3, <2>13
      <4>2. j < e.next \/ (f.next = e.next + 1 /\ j = e.next)
        BY <4>1, <2>1, <2>9
      <4> QED
        BY <4>2, <2>1, <2>5, <2>8, <2>9
    <3> QED
      BY <3>1, <3>2, <3>3
  <2> QED
    BY <2>11, <2>12, <2>13 DEF c
<1> QED
  BY <1>2, <1>3

\* The branches of the calls after a call has begun.
LEMMA BranchesPush ==
    ASSUME NEW st, NEW stk, Shape(st, stk), NEW t \in Thread, NEW rn, NEW ca, NEW qu,
           AllBranched(rn, st, ca, qu, stk), Counted(rn, st, ca, qu, stk),
           NEW rn2, NEW ca2, NEW qu2, Advance(rn, st, ca, qu, rn2, st, ca2, qu2), NEW stk2,
           NEW f \in Frame, f.made = 0, f.next = 1, rn[f.item] = 0,
           NEW m, m = Len(stk[t]), Replaced(stk, stk2, t, m + 1, f),
           m > 0 => /\ stk[t][m].next \in 1 .. Len(Branches[stk[t][m].item])
                    /\ f.item = NextOf(stk[t][m]) /\ stk[t][m].item # f.item,
           m = 0 => st[f.item] # "UNUSED" \/ f.item = Seed,
           \A c \in Item : c # f.item => rn2[c] = rn[c]
    PROVE  AllBranched(rn2, st, ca2, qu2, stk2)
<1> SUFFICES ASSUME NEW u \in Thread, NEW k \in DOMAIN stk2[u]
             PROVE  Branched(rn2, st, ca2, qu2, stk2, u, k)
  BY DEF AllBranched
<1>1. stk \in [Thread -> Seq(Frame)] /\ m \in Nat /\ m + 1 \in Nat /\ m + 1 >= 1 /\ m + 1 <= Len(stk[t]) + 1
  BY Frames DEF Shape
<1>2. f.item \in Item
  BY DEF Frame
<1>3. ASSUME m > 0
      PROVE  /\ m \in 1 .. Len(stk[t]) /\ m \in DOMAIN stk[t] /\ stk[t][m].item \in Item
             /\ f.item \in Range(Branches[stk[t][m].item])
  <2>1. m \in 1 .. Len(stk[t]) /\ m \in DOMAIN stk[t]
    BY <1>1, <1>3, Frames
  <2>2. stk[t][m].item \in Item
    BY <2>1, Frames
  <2> QED
    BY <2>1, <2>2, <1>3, BranchesOf DEF NextOf
<1>4. ASSUME NEW i \in Item, Seed \in Range(Branches[i]) PROVE FALSE
  <2>1. PICK a \in DOMAIN Branches[i] : Branches[i][a] = Seed
    BY <1>4 DEF Range
  <2> QED
    BY <2>1, BranchesAssumption
<1>5. f.item \notin Range(Branches[f.item])
  <2> SUFFICES ASSUME f.item \in Range(Branches[f.item]) PROVE FALSE
    OBVIOUS
  <2>1. CASE m > 0
    BY <2>1, <1>2, <1>3, Forest
  <2>2. CASE m = 0
    <3>1. st[f.item] = "UNUSED"
      BY <1>2 DEF Counted
    <3>2. f.item # Seed
      BY <1>2, <1>4
    <3> QED
      BY <2>2, <3>1, <3>2
  <2> QED
    BY <2>1, <2>2, <1>1
<1>6. CASE ~(u = t /\ k = m + 1)
  <2> DEFINE n == m + 1
  <2>0. /\ n \in Nat /\ n >= 1 /\ n <= Len(stk[t]) + 1 /\ Replaced(stk, stk2, t, n, f)
        /\ ~(u = t /\ k = n)
    BY <1>1, <1>6
  <2> HIDE DEF n
  <2>1. k \in 1 .. Len(stk[u]) /\ stk2[u][k] = stk[u][k] /\ (k = Len(stk2[u]) => u # t /\ k = Len(stk[u]))
    BY <2>0, <1>1, ReplacedFrames, SMTT(30)
  <2>2. stk[u][k].item \in Item /\ k \in DOMAIN stk[u]
    BY <2>1, Frames
  <2>3. ASSUME NEW j \in 1 .. Len(Branches[stk[u][k].item])
        PROVE  \/ rn2[Branches[stk[u][k].item][j]] = rn[Branches[stk[u][k].item][j]]
               \/ k # Len(stk2[u]) /\ j = stk[u][k].next
               \/ st[Branches[stk[u][k].item][j]] # "UNUSED"
    <3> DEFINE c == Branches[stk[u][k].item][j]
    <3>1. c \in Item /\ c \in Range(Branches[stk[u][k].item])
      BY <2>2, BranchesOf
    <3>2. CASE c # f.item
      BY <3>1, <3>2
    <3>3. CASE c = f.item /\ m > 0
      <4>1. stk[u][k].item = stk[t][m].item
        BY <3>1, <3>3, <2>2, <1>3, Forest
      <4>2. u = t /\ k = m
        BY <4>1, <3>3, <2>1, <2>2, <1>3, Frames
      <4>3. j = stk[u][k].next
        BY <4>2, <3>3, <2>2, BranchesOf DEF NextOf
      <4> QED
        BY <4>2, <4>3, <2>1
    <3>4. CASE c = f.item /\ m = 0
      <4>1. f.item # Seed
        BY <3>1, <3>4, <2>2, <1>4
      <4> QED
        BY <4>1, <3>4
    <3>5. m > 0 \/ m = 0
      BY <1>1
    <3> QED
      BY <3>2, <3>3, <3>4, <3>5, Zenon
  <2>4. Handed(st, rn2, st, ca2, qu2, stk, t)
    BY DEF Handed
  <2>5. RunsStay(rn, rn2, st, stk, stk2, u, k)
    BY <2>3 DEF RunsStay
  <2> QED
    BY <2>1, <2>4, <2>5, BranchesStay
<1>7. CASE u = t /\ k = m + 1
  <2>1. stk2[t][m + 1] = f
    BY DEF Replaced
  <2>2. DOMAIN Branches[f.item] = 1 .. Len(Branches[f.item]) /\ Len(Branches[f.item]) \in Nat
    BY <1>2, BranchesOf
  <2>3. ASSUME NEW j \in 1 .. Len(Branches[f.item])
        PROVE  st[Branches[f.item][j]] = "UNUSED" /\ rn2[Branches[f.item][j]] = 0 /\ ~(j < 1)
    <3>1. Branches[f.item][j] \in Range(Branches[f.item]) /\ Branches[f.item][j] \in Item
      BY <1>2, BranchesOf
    <3>2. st[Branches[f.item][j]] = "UNUSED" /\ rn[Branches[f.item][j]] = 0
      BY <3>1, <1>2 DEF Counted
    <3> QED
      BY <3>1, <3>2, <1>5
  <2> QED
    BY <2>1, <2>2, <2>3, <1>7 DEF Branched
<1> QED
  BY <1>6, <1>7

\* The branches of the calls after the first call of t has returned.
LEMMA BranchesPop ==
    ASSUME NEW st, NEW stk, Shape(st, stk), NEW t \in Thread, NEW rn, NEW ca, NEW qu,
           AllBranched(rn, st, ca, qu, stk), NEW stk2, stk2[t] = <<>>,
           \A u \in Thread : u # t => stk2[u] = stk[u]
    PROVE  AllBranched(rn, st, ca, qu, stk2)
<1> SUFFICES ASSUME NEW u \in Thread, NEW k \in DOMAIN stk2[u]
             PROVE  Branched(rn, st, ca, qu, stk2, u, k)
  BY DEF AllBranched
<1>1. u # t /\ stk2[u] = stk[u]
  OBVIOUS
<1>2. Branched(rn, st, ca, qu, stk, u, k)
  BY <1>1 DEF AllBranched
<1> QED
  BY <1>1, <1>2 DEF Branched

\* The calls in progress when one goes on, and those above it return.
LEMMA OpenGoesOn ==
    ASSUME NEW st, NEW stk, Shape(st, stk), NEW stk2, NEW t \in Thread, NEW n \in 1 .. Len(stk[t]),
           NEW f \in Frame, Replaced(stk, stk2, t, n, f), f.item = stk[t][n].item, NEW i
    PROVE  /\ Open(stk2, i) => Open(stk, i)
           /\ Open(stk, i) /\ ~Open(stk2, i) => \E k \in n + 1 .. Len(stk[t]) : i = stk[t][k].item
<1>1. stk \in [Thread -> Seq(Frame)] /\ n \in Nat /\ n >= 1 /\ n <= Len(stk[t]) + 1 /\ Len(stk[t]) \in Nat
  BY Frames DEF Shape
<1>2. ASSUME Open(stk2, i) PROVE Open(stk, i)
  <2>1. PICK u \in Thread : \E k \in DOMAIN stk2[u] : stk2[u][k].item = i
    BY <1>2 DEF Open
  <2>2. PICK k \in DOMAIN stk2[u] : stk2[u][k].item = i
    BY <2>1
  <2>3. k \in DOMAIN stk[u] /\ stk[u][k].item = i
    <3>1. CASE u = t /\ k = n
      BY <3>1, <2>2, Frames DEF Replaced
    <3>2. CASE ~(u = t /\ k = n)
      BY <3>2, <2>2, <1>1, ReplacedFrames
    <3> QED
      BY <3>1, <3>2
  <2> QED
    BY <2>3 DEF Open
<1>3. ASSUME Open(stk, i), ~Open(stk2, i) PROVE \E k \in n + 1 .. Len(stk[t]) : i = stk[t][k].item
  <2>1. PICK u \in Thread : \E k \in DOMAIN stk[u] : stk[u][k].item = i
    BY <1>3 DEF Open
  <2>2. PICK k \in DOMAIN stk[u] : stk[u][k].item = i
    BY <2>1
  <2>3. u = t
    <3> SUFFICES ASSUME u # t PROVE FALSE
      OBVIOUS
    <3>1. stk2[u] = stk[u]
      BY DEF Replaced
    <3> QED
      BY <3>1, <2>2, <1>3 DEF Open
  <2>4. k \in 1 .. Len(stk[t])
    BY <2>2, <2>3, Frames
  <2>5. ~(k <= n)
    <3> SUFFICES ASSUME k <= n PROVE FALSE
      OBVIOUS
    <3>1. k \in DOMAIN stk2[t]
      BY <2>4, <1>1 DEF Replaced
    <3>2. stk2[t][k].item = i
      <4>1. CASE k = n
        BY <4>1, <2>2, <2>3 DEF Replaced
      <4>2. CASE k # n
        <5>1. k \in 1 .. n - 1
          BY <4>2, <2>4, <1>1
        <5> QED
          BY <5>1, <2>2, <2>3 DEF Replaced
      <4> QED
        BY <4>1, <4>2
    <3> QED
      BY <3>1, <3>2, <1>3 DEF Open
  <2>6. k \in n + 1 .. Len(stk[t])
    BY <2>4, <2>5, <1>1
  <2> QED
    BY <2>2, <2>3, <2>6
<1> QED
  BY <1>2, <1>3

\* The calls in progress when one begins.
LEMMA OpenPush ==
    ASSUME NEW st, NEW stk, Shape(st, stk), NEW stk2, NEW t \in Thread, NEW n, n = Len(stk[t]) + 1,
           NEW f \in Frame, Replaced(stk, stk2, t, n, f), NEW i
    PROVE  Open(stk2, i) => Open(stk, i) \/ i = f.item
<1>1. stk \in [Thread -> Seq(Frame)] /\ n \in Nat /\ n >= 1 /\ n <= Len(stk[t]) + 1 /\ Len(stk[t]) \in Nat
  BY Frames DEF Shape
<1> SUFFICES ASSUME Open(stk2, i) PROVE Open(stk, i) \/ i = f.item
  OBVIOUS
<1>2. PICK u \in Thread : \E k \in DOMAIN stk2[u] : stk2[u][k].item = i
  BY DEF Open
<1>3. PICK k \in DOMAIN stk2[u] : stk2[u][k].item = i
  BY <1>2
<1>4. stk2[u][k] = f \/ (k \in DOMAIN stk[u] /\ stk2[u][k] = stk[u][k])
  BY <1>1, <1>3, ReplacedFrames
<1> QED
  BY <1>3, <1>4 DEF Open

\* And the others stay.
LEMMA OpenStays ==
    ASSUME NEW st, NEW stk, Shape(st, stk), NEW stk2, NEW t \in Thread, NEW n, n = Len(stk[t]) + 1,
           NEW f \in Frame, Replaced(stk, stk2, t, n, f), NEW i, Open(stk, i) \/ i = f.item
    PROVE  Open(stk2, i)
<1>1. n \in Nat /\ n >= 1 /\ Len(stk[t]) \in Nat /\ n - 1 = Len(stk[t])
  BY Frames
<1>2. CASE i = f.item
  <2>1. n \in DOMAIN stk2[t] /\ stk2[t][n] = f
    BY <1>1 DEF Replaced
  <2> QED
    BY <2>1, <1>2 DEF Open
<1>3. CASE Open(stk, i)
  <2>1. PICK u \in Thread : \E k \in DOMAIN stk[u] : stk[u][k].item = i
    BY <1>3 DEF Open
  <2>2. PICK k \in DOMAIN stk[u] : stk[u][k].item = i
    BY <2>1
  <2>3. k \in DOMAIN stk2[u] /\ stk2[u][k] = stk[u][k]
    <3>1. CASE u # t
      BY <3>1, <2>2 DEF Replaced
    <3>2. CASE u = t
      <4>1. k \in 1 .. n - 1 /\ k \in 1 .. n
        BY <3>2, <2>2, <1>1, Frames
      <4>2. DOMAIN stk2[t] = 1 .. n
        BY <1>1 DEF Replaced
      <4> QED
        BY <4>1, <4>2, <3>2 DEF Replaced
    <3> QED
      BY <3>1, <3>2
  <2> QED
    BY <2>2, <2>3 DEF Open
<1> QED
  BY <1>2, <1>3

\* The runs after a step that runs nothing.
LEMMA CountedSame ==
    ASSUME NEW st, NEW stk, Shape(st, stk), NEW t \in Thread, NEW rn, NEW ca, NEW qu,
           Counted(rn, st, ca, qu, stk), NEW stk2,
           NEW st2, NEW ca2, NEW qu2, Handed(st, rn, st2, ca2, qu2, stk, t),
           Advance(rn, st, ca, qu, rn, st2, ca2, qu2),
           \A c \in Item : st2[c] # st[c] /\ rn[c] = 1 => st2[c] \notin {"DISCARDED", "SENT_TO_ANOTHER_PROCESS"},
           \A i \in Item : Open(stk2, i) => Open(stk, i),
           \A i \in Item : Open(stk, i) /\ ~Open(stk2, i) =>
              \A c \in Range(Branches[i]) : Settled(rn, st, ca, qu, c)
    PROVE  Counted(rn, st2, ca2, qu2, stk2)
<1> SUFFICES ASSUME NEW i \in Item
             PROVE  /\ rn[i] \in {0, 1}
                    /\ rn[i] = 1 => st2[i] \notin {"DISCARDED", "SENT_TO_ANOTHER_PROCESS"}
                    /\ rn[i] = 0 => \A c \in Range(Branches[i]) : st2[c] = "UNUSED" /\ rn[c] = 0
                    /\ Open(stk2, i) => rn[i] = 1
                    /\ rn[i] = 1 /\ ~Open(stk2, i) => \A c \in Range(Branches[i]) : Settled(rn, st2, ca2, qu2, c)
  BY DEF Counted
<1>1. /\ rn[i] \in {0, 1}
      /\ rn[i] = 1 => st[i] \notin {"DISCARDED", "SENT_TO_ANOTHER_PROCESS"}
      /\ rn[i] = 0 => \A c \in Range(Branches[i]) : st[c] = "UNUSED" /\ rn[c] = 0
      /\ Open(stk, i) => rn[i] = 1
      /\ rn[i] = 1 /\ ~Open(stk, i) => \A c \in Range(Branches[i]) : Settled(rn, st, ca, qu, c)
  BY DEF Counted
<1>2. rn[i] = 1 => st2[i] \notin {"DISCARDED", "SENT_TO_ANOTHER_PROCESS"}
  BY <1>1
<1>3. ASSUME rn[i] = 0, NEW c \in Range(Branches[i]) PROVE st2[c] = "UNUSED" /\ rn[c] = 0
  <2>1. c \in Item /\ st[c] = "UNUSED" /\ rn[c] = 0
    BY <1>1, <1>3, BranchesOf
  <2>2. st2[c] = st[c]
    <3> SUFFICES ASSUME st2[c] # st[c] PROVE FALSE
      OBVIOUS
    <3>1. PICK l \in 1 .. Len(stk[t]) : c \in Kids(st, stk[t][l])
      BY <2>1 DEF Handed
    <3>2. stk[t][l] \in Frame /\ stk[t][l].item \in Item /\ l \in DOMAIN stk[t]
      BY <3>1, Frames
    <3>3. c \in Range(Branches[stk[t][l].item])
      BY <3>1, <3>2, KidsOf
    <3>4. stk[t][l].item = i
      BY <3>2, <3>3, <1>3, Forest
    <3>5. Open(stk, i)
      BY <3>2, <3>4 DEF Open
    <3> QED
      BY <3>5, <1>1, <1>3
  <2> QED
    BY <2>1, <2>2
<1>4. ASSUME rn[i] = 1, ~Open(stk2, i), NEW c \in Range(Branches[i]) PROVE Settled(rn, st2, ca2, qu2, c)
  <2>1. c \in Item /\ Settled(rn, st, ca, qu, c)
    BY <1>1, <1>4, BranchesOf
  <2> QED
    BY <2>1 DEF Advance
<1> QED
  BY <1>1, <1>2, <1>3, <1>4

\* The call x, a branch of a call that was run, has begun.
Begun(rn, rn2, stk, stk2, x) ==
    /\ rn2[x] = 1 /\ \A c \in Item : c # x => rn2[c] = rn[c]
    /\ \A i \in Item : x \in Range(Branches[i]) => rn[i] = 1
    /\ \A i \in Item : Open(stk2, i) <=> Open(stk, i) \/ i = x

\* The runs after a call has begun.
LEMMA CountedPush ==
    ASSUME NEW st, NEW stk, NEW rn, NEW ca, NEW qu, Counted(rn, st, ca, qu, stk), NEW stk2,
           NEW rn2, NEW ca2, NEW qu2, Advance(rn, st, ca, qu, rn2, st, ca2, qu2),
           NEW x \in Item, Begun(rn, rn2, stk, stk2, x),
           st[x] \notin {"DISCARDED", "SENT_TO_ANOTHER_PROCESS"}
    PROVE  Counted(rn2, st, ca2, qu2, stk2)
<1>0. /\ rn2[x] = 1 /\ \A c \in Item : c # x => rn2[c] = rn[c]
      /\ \A i \in Item : x \in Range(Branches[i]) => rn[i] = 1
      /\ \A i \in Item : Open(stk2, i) <=> Open(stk, i) \/ i = x
  BY DEF Begun
<1> USE <1>0
<1> SUFFICES ASSUME NEW i \in Item
             PROVE  /\ rn2[i] \in {0, 1}
                    /\ rn2[i] = 1 => st[i] \notin {"DISCARDED", "SENT_TO_ANOTHER_PROCESS"}
                    /\ rn2[i] = 0 => \A c \in Range(Branches[i]) : st[c] = "UNUSED" /\ rn2[c] = 0
                    /\ Open(stk2, i) => rn2[i] = 1
                    /\ rn2[i] = 1 /\ ~Open(stk2, i) => \A c \in Range(Branches[i]) : Settled(rn2, st, ca2, qu2, c)
  BY DEF Counted
<1>1. /\ rn[i] \in {0, 1}
      /\ rn[i] = 1 => st[i] \notin {"DISCARDED", "SENT_TO_ANOTHER_PROCESS"}
      /\ rn[i] = 0 => \A c \in Range(Branches[i]) : st[c] = "UNUSED" /\ rn[c] = 0
      /\ Open(stk, i) => rn[i] = 1
      /\ rn[i] = 1 /\ ~Open(stk, i) => \A c \in Range(Branches[i]) : Settled(rn, st, ca, qu, c)
  BY DEF Counted
<1>2. ASSUME rn2[i] = 0, NEW c \in Range(Branches[i]) PROVE st[c] = "UNUSED" /\ rn2[c] = 0
  <2>1. i # x /\ rn[i] = 0
    BY <1>2
  <2>2. c # x /\ c \in Item
    BY <2>1, BranchesOf
  <2> QED
    BY <2>1, <2>2, <1>1
<1>3. ASSUME rn2[i] = 1, ~Open(stk2, i), NEW c \in Range(Branches[i]) PROVE Settled(rn2, st, ca2, qu2, c)
  <2>1. i # x /\ rn[i] = 1 /\ ~Open(stk, i)
    BY <1>3
  <2>2. c \in Item /\ Settled(rn, st, ca, qu, c)
    BY <2>1, <1>1, BranchesOf
  <2> QED
    BY <2>2 DEF Advance
<1> QED
  BY <1>1, <1>2, <1>3

\* The pool's queue after nodes that were not in it have changed their state.
LEMMA WaitingSame ==
    ASSUME NEW rn, NEW st, NEW qu \in Seq(Item), Waiting(rn, st, qu), NEW st2,
           \A c \in Item : st2[c] # st[c] => st[c] = "UNUSED" /\ c # Seed
    PROVE  Waiting(rn, st2, qu)
<1> SUFFICES ASSUME NEW x \in DOMAIN qu PROVE st2[qu[x]] = IF qu[x] = Seed THEN "UNUSED" ELSE "PUSHED"
  BY DEF Waiting
<1>1. qu[x] \in Item
  OBVIOUS
<1>2. st[qu[x]] = IF qu[x] = Seed THEN "UNUSED" ELSE "PUSHED"
  BY DEF Waiting
<1> QED
  BY <1>1, <1>2

\* After a node was pushed.
LEMMA WaitingAppend ==
    ASSUME NEW rn, NEW st, NEW qu \in Seq(Item), Waiting(rn, st, qu), NEW st2, NEW n \in Item,
           st[n] = "UNUSED", n # Seed, rn[n] = 0, st2[n] = "PUSHED", \A c \in Item : c # n => st2[c] = st[c]
    PROVE  Waiting(rn, st2, Append(qu, n))
<1> DEFINE q == Append(qu, n)
           m == Len(qu)
<1>1. /\ m \in Nat /\ DOMAIN qu = 1 .. m /\ DOMAIN q = 1 .. m + 1 /\ q[m + 1] = n
      /\ \A x \in 1 .. m : q[x] = qu[x] /\ qu[x] \in Item
  OBVIOUS
<1>2. ASSUME NEW x \in 1 .. m
      PROVE  /\ rn[qu[x]] = 0 /\ st[qu[x]] = (IF qu[x] = Seed THEN "UNUSED" ELSE "PUSHED") /\ qu[x] # n
             /\ \A y \in 1 .. m : qu[x] = qu[y] => x = y
  BY <1>1 DEF Waiting
<1>3. ASSUME NEW x \in 1 .. m
      PROVE  rn[q[x]] = 0 /\ st2[q[x]] = (IF q[x] = Seed THEN "UNUSED" ELSE "PUSHED") /\ q[x] # n
  BY <1>1, <1>2
<1> HIDE DEF q, m
<1> SUFFICES ASSUME NEW x \in 1 .. m + 1
             PROVE  /\ rn[q[x]] = 0 /\ st2[q[x]] = IF q[x] = Seed THEN "UNUSED" ELSE "PUSHED"
                    /\ \A y \in 1 .. m + 1 : q[x] = q[y] => x = y
  BY <1>1 DEF Waiting, q
<1>4. x \in 1 .. m \/ x = m + 1
  BY <1>1
<1>5. rn[q[x]] = 0 /\ st2[q[x]] = IF q[x] = Seed THEN "UNUSED" ELSE "PUSHED"
  BY <1>1, <1>3, <1>4
<1>6. ASSUME NEW y \in 1 .. m + 1, q[x] = q[y] PROVE x = y
  <2>1. y \in 1 .. m \/ y = m + 1
    BY <1>1
  <2> QED
    BY <2>1, <1>1, <1>2, <1>3, <1>4, <1>6
<1> QED
  BY <1>5, <1>6

\* After a call was taken.
LEMMA WaitingTail ==
    ASSUME NEW rn, NEW st, NEW qu \in Seq(Item), qu # <<>>, Waiting(rn, st, qu), NEW rn2,
           \A c \in Item : c # Head(qu) => rn2[c] = rn[c]
    PROVE  Waiting(rn2, st, Tail(qu))
<1> DEFINE q == Tail(qu)
           m == Len(qu)
<1>1. /\ m \in Nat /\ m >= 1 /\ DOMAIN qu = 1 .. m /\ DOMAIN q = 1 .. m - 1 /\ Head(qu) = qu[1]
      /\ \A x \in 1 .. m - 1 : q[x] = qu[x + 1] /\ x + 1 \in 1 .. m
  OBVIOUS
<1>2. \A x \in 1 .. m :
        /\ rn[qu[x]] = 0 /\ st[qu[x]] = (IF qu[x] = Seed THEN "UNUSED" ELSE "PUSHED") /\ qu[x] \in Item
        /\ \A y \in 1 .. m : qu[x] = qu[y] => x = y
  BY <1>1 DEF Waiting
<1> HIDE DEF q, m
<1> SUFFICES ASSUME NEW x \in 1 .. m - 1
             PROVE  /\ rn2[q[x]] = 0 /\ st[q[x]] = IF q[x] = Seed THEN "UNUSED" ELSE "PUSHED"
                    /\ \A y \in 1 .. m - 1 : q[x] = q[y] => x = y
  BY <1>1 DEF Waiting, q
<1>3. x + 1 \in 1 .. m /\ 1 \in 1 .. m /\ x + 1 # 1 /\ q[x] = qu[x + 1]
  BY <1>1
<1>4. q[x] # Head(qu) /\ rn[q[x]] = 0 /\ q[x] \in Item /\ st[q[x]] = IF q[x] = Seed THEN "UNUSED" ELSE "PUSHED"
  BY <1>1, <1>2, <1>3
<1>5. ASSUME NEW y \in 1 .. m - 1, q[x] = q[y] PROVE x = y
  <2>1. y + 1 \in 1 .. m /\ q[y] = qu[y + 1]
    BY <1>1
  <2>2. x + 1 = y + 1
    BY <2>1, <1>2, <1>3, <1>5
  <2> QED
    BY <2>2
<1> QED
  BY <1>4, <1>5

\* After a call was run that was not waiting.
LEMMA WaitingRun ==
    ASSUME NEW rn, NEW st, NEW qu \in Seq(Item), Waiting(rn, st, qu), NEW rn2, NEW p,
           st[p] = "UNUSED", p # Seed, \A c \in Item : c # p => rn2[c] = rn[c]
    PROVE  Waiting(rn2, st, qu)
<1> SUFFICES ASSUME NEW x \in DOMAIN qu PROVE rn2[qu[x]] = 0
  BY DEF Waiting
<1>1. qu[x] \in Item
  OBVIOUS
<1>2. rn[qu[x]] = 0 /\ st[qu[x]] = IF qu[x] = Seed THEN "UNUSED" ELSE "PUSHED"
  BY DEF Waiting
<1> QED
  BY <1>1, <1>2

\* The seed is no branch.
LEMMA NoSeed ==
    ASSUME NEW i \in Item, NEW c, c \in Range(Branches[i])
    PROVE  c # Seed
<1>1. PICK a \in DOMAIN Branches[i] : Branches[i][a] = c
  BY DEF Range
<1> QED
  BY <1>1, BranchesAssumption

\* A branch that is not run has no children.
LEMMA NotAnchor ==
    ASSUME NEW st, NEW stk, Shape(st, stk), NEW tr \in Tree, Anchored(tr, stk), NEW t \in Thread,
           NEW m \in 1 .. Len(stk[t]), NEW c, c \in Range(Branches[stk[t][m].item]),
           m < Len(stk[t]) => c # stk[t][m + 1].item
    PROVE  tr.children[c] = <<>>
<1> SUFFICES ASSUME tr.children[c] # <<>> PROVE FALSE
  OBVIOUS
<1>1. stk[t][m].item \in Item
  BY Frames
<1>2. c \in Node
  BY <1>1, BranchesOf, Nodes
<1>3. PICK u \in Thread : \E k \in DOMAIN stk[u] : stk[u][k].anchor = c
  BY <1>2 DEF Anchored
<1>4. PICK k \in DOMAIN stk[u] : stk[u][k].anchor = c
  BY <1>3
<1>5. k \in 1 .. Len(stk[u]) /\ stk[u][k].anchor \in Range(Branches[stk[t][m].item])
  BY <1>4, Frames
<1>6. u = t /\ k = m + 1 /\ stk[u][k].item = stk[u][k].anchor
  BY <1>5, BranchRuns
<1> QED
  BY <1>4, <1>5, <1>6

\* The frame on top of a stack.
LEMMA PlacedTop ==
    ASSUME NEW sty, NEW st, NEW s, NEW k, k = Len(s), NEW f, f = s[k], k \in Nat,
           f.made <= Len(Branches[f.item]), f.next <= f.made + 1,
           f.anchor = IF k = 1 THEN Dummy(f.item) ELSE f.item,
           IF sty = "late" THEN f.made <= f.next ELSE f.made \in {0, Len(Branches[f.item])},
           f.at # "user" => f.next <= f.made /\ st[NextOf(f)] = "UNUSED"
    PROVE  Placed(sty, st, s, k)
<1>1. ~(k < Len(s))
  OBVIOUS
<1> QED
  BY <1>1 DEF Placed, NextOf

\* A branch belongs to one call in progress.
LEMMA OneCall ==
    ASSUME NEW st, NEW stk, Shape(st, stk), NEW t \in Thread, NEW m \in 1 .. Len(stk[t]),
           NEW u \in Thread, NEW k \in 1 .. Len(stk[u]), NEW c,
           c \in Range(Branches[stk[t][m].item]), c \in Range(Branches[stk[u][k].item])
    PROVE  u = t /\ k = m
<1>1. stk[t][m].item \in Item /\ stk[u][k].item \in Item /\ k \in DOMAIN stk[u]
  BY Frames
<1>2. stk[u][k].item = stk[t][m].item
  BY <1>1, Forest
<1> QED
  BY <1>1, <1>2, Frames

\* Only the state of p has changed, if any.
OnlyAt(st, st2, p) == \A c \in Item : c # p => st2[c] = st[c]

\* The other waiting branches of a call.
LEMMA KidsOther ==
    ASSUME NEW st, NEW st2, NEW p, NEW g \in Frame, NEW f \in Frame,
           OnlyAt(st, st2, p),
           f.item = g.item, f.made = g.made, f.next = g.next,
           p \notin Range(Branches[g.item]) \/ st2[p] # "UNUSED"
    PROVE  Kids(st2, f) = Kids(st, g) \ {p}
<1>1. ASSUME NEW c \in Kids(st2, f) PROVE c \in Kids(st, g) \ {p}
  <2>1. c \in Item /\ c \in Range(Branches[g.item]) /\ st2[c] = "UNUSED"
    BY KidsOf
  <2>2. c # p /\ st[c] = "UNUSED"
    BY <2>1 DEF OnlyAt
  <2> QED
    BY <2>1, <2>2 DEF Kids
<1>2. ASSUME NEW c \in Kids(st, g) \ {p} PROVE c \in Kids(st2, f)
  BY DEF Kids, OnlyAt
<1> QED
  BY <1>1, <1>2

\* Those of the call whose branch p was submitted.
LEMMA KidsRest ==
    ASSUME NEW st, NEW st2, NEW p, NEW g \in Frame, NEW f \in Frame,
           OnlyAt(st, st2, p),
           f.item = g.item, f.made = g.made, f.next = g.next + 1, g.next <= Len(Branches[g.item]),
           p = NextOf(g)
    PROVE  Kids(st2, f) = Kids(st, g) \ {p}
<1>1. g.item \in Item /\ g.next \in Nat /\ g.next >= 1 /\ f.next \in Nat
  BY DEF Frame
<1>2. DOMAIN Branches[g.item] = 1 .. Len(Branches[g.item]) /\ g.next \in 1 .. Len(Branches[g.item])
  BY <1>1, BranchesOf
<1>3. \A j \in 1 .. Len(Branches[g.item]) : Branches[g.item][j] = p => j = g.next
  BY <1>1, <1>2, BranchesOf DEF NextOf
<1>4. ASSUME NEW c \in Kids(st2, f) PROVE c \in Kids(st, g) \ {p}
  <2>1. c \in Item /\ st2[c] = "UNUSED"
    BY DEF Kids
  <2>2. PICK j \in DOMAIN Branches[f.item] : f.next <= j /\ j <= f.made /\ c = Branches[f.item][j]
    BY DEF Kids
  <2>3. j \in 1 .. Len(Branches[g.item]) /\ j # g.next /\ g.next <= j
    BY <2>2, <1>1, <1>2
  <2>4. c # p
    BY <2>2, <2>3, <1>3
  <2> QED
    BY <2>1, <2>2, <2>3, <2>4 DEF Kids, OnlyAt
<1>5. ASSUME NEW c \in Kids(st, g) \ {p} PROVE c \in Kids(st2, f)
  <2>1. c \in Item /\ st[c] = "UNUSED" /\ c # p
    BY DEF Kids
  <2>2. PICK j \in DOMAIN Branches[g.item] : g.next <= j /\ j <= g.made /\ c = Branches[g.item][j]
    BY DEF Kids
  <2>3. j \in 1 .. Len(Branches[g.item]) /\ j # g.next
    BY <2>1, <2>2, <1>2 DEF NextOf
  <2>4. f.next <= j
    BY <2>2, <2>3, <1>1
  <2> QED
    BY <2>1, <2>2, <2>4 DEF Kids, OnlyAt
<1> QED
  BY <1>4, <1>5

\* The branch p that the n-th call of t submits is taken out of the tree, and the call for it,
\* if there is one, has returned.
LEMMA FewerNext ==
    ASSUME NEW st, NEW stk, Shape(st, stk), NEW st2, NEW stk2, NEW t \in Thread,
           NEW n \in 1 .. Len(stk[t]), NEW f \in Frame, Replaced(stk, stk2, t, n, f), NEW p,
           OnlyAt(st, st2, p),
           f.item = stk[t][n].item, f.anchor = stk[t][n].anchor, f.made = stk[t][n].made,
           f.next = stk[t][n].next + 1, stk[t][n].next <= Len(Branches[stk[t][n].item]),
           p = NextOf(stk[t][n]),
           n = Len(stk[t]) \/ (Len(stk[t]) = n + 1 /\ stk[t][n + 1].item = p)
    PROVE  Fewer(st, stk, st2, stk2, t, n, p)
<1>1. /\ stk \in [Thread -> Seq(Frame)] /\ n \in Nat /\ n >= 1 /\ n <= Len(stk[t]) + 1 /\ Len(stk[t]) \in Nat
      /\ Len(stk2[t]) = n
  BY Frames DEF Shape, Replaced
<1>2. stk[t][n] \in Frame /\ stk[t][n].item \in Item /\ stk[t][n].next \in 1 .. Len(Branches[stk[t][n].item])
  BY Frames, BranchesOf
<1>3. p \in Range(Branches[stk[t][n].item])
  BY <1>2, BranchesOf DEF NextOf
<1>4. ASSUME NEW u \in Thread, u # t PROVE Len(stk2[u]) = Len(stk[u]) /\ Len(stk[u]) \in Nat
  BY <1>4, Frames DEF Replaced
<1>5. ASSUME NEW u \in Thread, NEW k \in 1 .. Len(stk2[u])
      PROVE  /\ stk2[u][k].item = stk[u][k].item /\ stk2[u][k].anchor = stk[u][k].anchor
             /\ stk2[u][k].made = stk[u][k].made
             /\ Kids(st2, stk2[u][k]) = Kids(st, stk[u][k]) \ {p}
  <2>1. CASE u = t /\ k = n
    <3>1. stk2[u][k] = f
      BY <2>1 DEF Replaced
    <3>2. Kids(st2, f) = Kids(st, stk[t][n]) \ {p}
      BY <1>2, KidsRest
    <3> QED
      BY <2>1, <3>1, <3>2
  <2>2. CASE ~(u = t /\ k = n)
    <3>1. k \in DOMAIN stk2[u]
      BY DEF Replaced
    <3>2. k \in 1 .. Len(stk[u]) /\ stk2[u][k] = stk[u][k]
      BY <3>1, <2>2, <1>1, ReplacedFrames
    <3>3. stk[u][k] \in Frame
      BY <3>2, Frames
    <3>4. p \notin Range(Branches[stk[u][k].item])
      BY <3>2, <2>2, <1>3, OneCall
    <3>5. Kids(st2, stk[u][k]) = Kids(st, stk[u][k]) \ {p}
      <4> DEFINE g == stk[u][k]
      <4>1. g \in Frame /\ (p \notin Range(Branches[g.item]) \/ st2[p] # "UNUSED")
        BY <3>3, <3>4
      <4> HIDE DEF g
      <4>2. Kids(st2, g) = Kids(st, g) \ {p}
        BY <4>1, KidsOther
      <4> QED
        BY <4>2 DEF g
    <3> QED
      BY <3>2, <3>5
  <2> QED
    BY <2>1, <2>2
<1>6. \A u \in Thread : /\ Len(stk2[u]) <= Len(stk[u])
                        /\ Len(stk2[u]) = Len(stk[u]) \/ (u = t /\ Len(stk2[t]) = n)
  BY <1>1, <1>4
<1>7. Len(stk2[t]) # Len(stk[t]) => Len(stk[t]) = n + 1 /\ stk[t][n + 1].item = p
  BY <1>1
<1> QED
  BY <1>3, <1>5, <1>6, <1>7 DEF Fewer

\* A branch p of an outer call is taken out of the tree.
LEMMA FewerOuter ==
    ASSUME NEW st, NEW stk, Shape(st, stk), NEW st2, NEW stk2, NEW t \in Thread,
           NEW n, n = Len(stk[t]), n >= 1, NEW f \in Frame, Replaced(stk, stk2, t, n, f),
           NEW m \in 1 .. Len(stk[t]), NEW p, p \in Range(Branches[stk[t][m].item]),
           OnlyAt(st, st2, p), st2[p] # "UNUSED",
           f.item = stk[t][n].item, f.anchor = stk[t][n].anchor, f.made = stk[t][n].made,
           f.next = stk[t][n].next
    PROVE  Fewer(st, stk, st2, stk2, t, m, p)
<1>1. /\ stk \in [Thread -> Seq(Frame)] /\ n \in Nat /\ n <= Len(stk[t]) + 1 /\ Len(stk[t]) \in Nat
      /\ Len(stk2[t]) = n /\ n \in 1 .. Len(stk[t])
  BY Frames DEF Shape, Replaced
<1>2. \A u \in Thread : Len(stk2[u]) = Len(stk[u]) /\ Len(stk[u]) \in Nat
  BY <1>1, Frames DEF Replaced
<1>3. ASSUME NEW u \in Thread, NEW k \in 1 .. Len(stk2[u])
      PROVE  /\ stk2[u][k].item = stk[u][k].item /\ stk2[u][k].anchor = stk[u][k].anchor
             /\ stk2[u][k].made = stk[u][k].made
             /\ Kids(st2, stk2[u][k]) = Kids(st, stk[u][k]) \ {p}
  <2>1. k \in 1 .. Len(stk[u]) /\ k \in DOMAIN stk2[u]
    BY <1>2 DEF Replaced
  <2>2. stk[u][k] \in Frame
    BY <2>1, Frames
  <2>3. stk2[u][k] = stk[u][k] \/ (u = t /\ k = n /\ stk2[u][k] = f)
    BY <2>1, <1>1, ReplacedFrames
  <2>4. /\ stk2[u][k] \in Frame /\ stk2[u][k].item = stk[u][k].item /\ stk2[u][k].anchor = stk[u][k].anchor
        /\ stk2[u][k].made = stk[u][k].made /\ stk2[u][k].next = stk[u][k].next
    BY <2>2, <2>3
  <2>5. Kids(st2, stk2[u][k]) = Kids(st, stk[u][k]) \ {p}
    <3> DEFINE g == stk[u][k]
               h == stk2[u][k]
    <3>1. g \in Frame /\ h \in Frame /\ h.item = g.item /\ h.made = g.made /\ h.next = g.next
      BY <2>2, <2>4
    <3> HIDE DEF g, h
    <3>2. Kids(st2, h) = Kids(st, g) \ {p}
      BY <3>1, KidsOther
    <3> QED
      BY <3>2 DEF g, h
  <2> QED
    BY <2>4, <2>5
<1>4. \A u \in Thread : Len(stk2[u]) <= Len(stk[u])
  BY <1>2
<1> QED
  BY <1>2, <1>3, <1>4 DEF Fewer

\* The branches that other calls submit keep their state.
LEMMA NextStays ==
    ASSUME NEW st, NEW stk, Shape(st, stk), NEW st2, NEW t \in Thread, NEW m \in 1 .. Len(stk[t]),
           NEW p, p \in Range(Branches[stk[t][m].item]), OnlyAt(st, st2, p),
           NEW u \in Thread, NEW k \in 1 .. Len(stk[u]),
           stk[u][k].next <= stk[u][k].made, stk[u][k].made <= Len(Branches[stk[u][k].item]),
           u # t \/ k # m \/ p # NextOf(stk[u][k])
    PROVE  st2[NextOf(stk[u][k])] = st[NextOf(stk[u][k])]
<1> DEFINE c == NextOf(stk[u][k])
<1>1. /\ stk[u][k].item \in Item /\ stk[u][k].next \in Nat /\ stk[u][k].next >= 1 /\ stk[u][k].made \in Nat
  BY Frames
<1>2. stk[u][k].next \in 1 .. Len(Branches[stk[u][k].item])
  BY <1>1, BranchesOf
<1>3. c \in Item /\ c \in Range(Branches[stk[u][k].item])
  BY <1>1, <1>2, BranchesOf DEF NextOf
<1>4. c # p
  <2> SUFFICES ASSUME c = p PROVE FALSE
    OBVIOUS
  <2>1. u = t /\ k = m
    BY <1>3, OneCall, ZenonT(40)
  <2> QED
    BY <2>1
<1> QED
  BY <1>3, <1>4 DEF OnlyAt

-----------------------------------------------------------------------------
(* The steps *)

\* Thread t is about to submit the branch p of its innermost call f, the n-th.
Submits(t, n, f, p) ==
    /\ n = Len(stack[t]) /\ n \in Nat /\ n >= 1 /\ n \in 1 .. Len(stack[t]) /\ n \in DOMAIN stack[t]
    /\ f = stack[t][n] /\ f \in Frame /\ f.item \in Item /\ f.made \in Nat
    /\ f.next \in 1 .. Len(Branches[f.item]) /\ f.next <= f.made /\ f.made <= Len(Branches[f.item])
    /\ f.anchor = IF n = 1 THEN Dummy(f.item) ELSE f.item
    /\ IF style = "late" THEN f.made <= f.next ELSE f.made \in {0, Len(Branches[f.item])}
    /\ p = NextOf(f) /\ p \in Item /\ p \in Range(Branches[f.item]) /\ p # Seed
    /\ state[p] = "UNUSED" => p \in Kids(state, f)

\* What holds when a thread submits a branch.
LEMMA SubmitFacts ==
    ASSUME IInv, NEW t \in Thread, NEW place \in {"remote", "local", "forward"}, Submitting(t, place)
    PROVE  /\ Submits(t, Len(stack[t]), Top(t), Current(t))
           /\ place # "forward" \/ Top(t).at # "user" => state[Current(t)] = "UNUSED"
<1> DEFINE n == Len(stack[t])
           f == Top(t)
           p == Current(t)
<1>1. TypeOK /\ StackInv
  BY Parts
<1>2. stack \in [Thread -> Seq(Frame)] /\ stack[t] # <<>>
  BY <1>1 DEF TypeOK, Submitting
<1>3. n \in Nat /\ n >= 1 /\ n \in 1 .. Len(stack[t]) /\ n \in DOMAIN stack[t] /\ f = stack[t][n] /\ f \in Frame
  BY <1>2, TopOf
<1>4. f.next <= f.made
  BY DEF Submitting
<1>5. f.item \in Item /\ f.next \in Nat /\ f.next >= 1 /\ f.made \in Nat
  BY <1>3 DEF Frame
<1>6. Placed(style, state, stack[t], n)
  BY <1>1, <1>3 DEF StackInv
<1>7. /\ f.made <= Len(Branches[f.item])
      /\ f.anchor = IF n = 1 THEN Dummy(f.item) ELSE f.item
      /\ IF style = "late" THEN f.made <= f.next ELSE f.made \in {0, Len(Branches[f.item])}
      /\ f.at # "user" => state[Branches[f.item][f.next]] = "UNUSED"
  BY <1>3, <1>6 DEF Placed
<1>8. p = NextOf(f) /\ p = Branches[f.item][f.next]
  BY DEF Current, NextOf
<1>9. f.next \in 1 .. Len(Branches[f.item])
  BY <1>4, <1>5, <1>7, BranchesOf
<1>10. p \in Item /\ p \in Range(Branches[f.item]) /\ p # Seed
  BY <1>5, <1>8, <1>9, BranchesOf, NoSeed
<1>11. ASSUME state[p] = "UNUSED" PROVE p \in Kids(state, f)
  BY <1>3, <1>4, <1>7, <1>8, <1>11, NextIsKid
<1>12. place # "forward" \/ f.at # "user" => state[p] = "UNUSED"
  BY <1>7, <1>8 DEF Submitting
<1> QED
  BY <1>3, <1>4, <1>5, <1>7, <1>8, <1>9, <1>10, <1>11, <1>12 DEF Submits

\* The calls after a step that runs nothing: the n-th call of t goes on as f, and the one
\* above it has returned if there was one.  At most the state of p has changed, a branch of
\* the m-th call.
LEMMA GoOnStep ==
    ASSUME IInv, NEW t \in Thread, NEW n \in 1 .. Len(stack[t]), NEW e, e = stack[t][n],
           NEW f \in Frame, Replaced(stack, stack', t, n, f), style' = style, runs' = runs,
           state' \in [Item -> node_state],
           f.item = e.item, f.anchor = e.anchor, f.made >= e.made,
           f.made <= Len(Branches[f.item]), f.next <= f.made + 1,
           IF style = "late" THEN f.made <= f.next ELSE f.made \in {0, Len(Branches[f.item])},
           f.at # "user" => f.next <= f.made /\ state'[NextOf(f)] = "UNUSED",
           \/ f.next = e.next /\ n = Len(stack[t])
           \/ f.next = e.next + 1 /\ Settled(runs, state', cached', queue', NextOf(e)),
           NEW m \in 1 .. n, NEW p, p \in Range(Branches[stack[t][m].item]), OnlyAt(state, state', p),
           m < n => p # NextOf(stack[t][m]),
           Handed(state, runs, state', cached', queue', stack, t),
           Advance(runs, state, cached, queue, runs, state', cached', queue'),
           state'[p] # state[p] /\ runs[p] = 1 => state'[p] \notin {"DISCARDED", "SENT_TO_ANOTHER_PROCESS"},
           Waiting(runs, state', queue'),
           \A k \in n + 1 .. Len(stack[t]) : \A c \in Range(Branches[stack[t][k].item]) :
              Settled(runs, state, cached, queue, c)
    PROVE  StackInv' /\ CallInv' /\ BranchInv' /\ Shape(state', stack') /\ Running(runs', stack')
<1>1. /\ TypeOK /\ StackInv /\ CallInv /\ BranchInv /\ Shape(state, stack)
  BY Parts
<1>2. /\ stack \in [Thread -> Seq(Frame)] /\ state \in [Item -> node_state]
      /\ Counted(runs, state, cached, queue, stack) /\ AllBranched(runs, state, cached, queue, stack)
  BY <1>1, CallParts DEF TypeOK
<1>3. /\ \A u \in Thread : \A k \in DOMAIN stack[u] : Placed(style, state, stack[u], k)
      /\ Apart(stack)
  BY <1>1 DEF StackInv
<1>4. n \in Nat /\ n >= 1 /\ n <= Len(stack[t]) + 1 /\ n <= Len(stack[t]) /\ n \in DOMAIN stack[t] /\ Len(stack[t]) \in Nat
  BY <1>2
<1>5. ASSUME NEW u \in Thread, NEW k \in DOMAIN stack[u], u # t \/ k < n,
             stack[u][k].next <= stack[u][k].made
      PROVE  state'[NextOf(stack[u][k])] = state[NextOf(stack[u][k])]
  <2>1. k \in 1 .. Len(stack[u]) /\ m \in 1 .. Len(stack[t]) /\ stack[u][k].made <= Len(Branches[stack[u][k].item])
    <3>1. k \in 1 .. Len(stack[u]) /\ m \in 1 .. Len(stack[t])
      BY <1>2, <1>4
    <3>2. Placed(style, state, stack[u], k)
      BY <1>3
    <3> QED
      BY <3>1, <3>2, PlacedFields
  <2>2. u # t \/ k # m \/ p # NextOf(stack[u][k])
    BY <1>4, <1>5
  <2> QED
    BY <2>1, <2>2, <1>1, <1>5, NextStays, SMTT(30)
<1>6. Placed(style, state', stack'[t], n)
  <2>1. n = Len(stack'[t]) /\ f = stack'[t][n]
    BY DEF Replaced
  <2>2. f.anchor = IF n = 1 THEN Dummy(f.item) ELSE f.item
    <3>1. Placed(style, state, stack[t], n)
      BY <1>3, <1>4
    <3>2. stack[t][n].anchor = IF n = 1 THEN Dummy(stack[t][n].item) ELSE stack[t][n].item
      BY <3>1, PlacedFields
    <3> QED
      BY <3>2
  <2> QED
    BY <2>1, <2>2, <1>4, PlacedTop
<1>17. NextKept(state, state', stack, t, n)
  BY <1>5 DEF NextKept
<1>18. AllPlaced(style, state, stack)
  BY <1>3 DEF AllPlaced
<1>7. Follows(state, stack, t, n, f)
  BY <1>4 DEF Follows
<1>8. /\ \A u \in Thread : \A k \in DOMAIN stack'[u] : Placed(style, state', stack'[u], k)
      /\ Apart(stack')
  <2>1. AllPlaced(style, state', stack') /\ Apart(stack')
    BY <1>2, <1>3, <1>4, <1>6, <1>7, <1>17, <1>18, StackNext
  <2> QED
    BY <2>1 DEF AllPlaced
<1>9. stack' \in [Thread -> Seq(Frame)]
  BY DEF Replaced
<1>10. Shape(state', stack')
  BY <1>8, <1>9, PlacedShape
<1>11. StackInv'
  BY <1>8, StackPartsNext
<1>12. AllBranched(runs, state', cached', queue', stack')
  BY <1>1, <1>2, BranchesGoOn
<1>13. ASSUME NEW i \in Item
       PROVE  /\ Open(stack', i) => Open(stack, i)
              /\ Open(stack, i) /\ ~Open(stack', i) => \E k \in n + 1 .. Len(stack[t]) : i = stack[t][k].item
  BY <1>1, OpenGoesOn
<1>14. Counted(runs, state', cached', queue', stack')
  <2>1. \A i \in Item : Open(stack', i) => Open(stack, i)
    BY <1>13
  <2>2. ASSUME NEW i \in Item, Open(stack, i), ~Open(stack', i), NEW c \in Range(Branches[i])
        PROVE  Settled(runs, state, cached, queue, c)
    BY <2>2, <1>13
  <2>3. \A c \in Item : state'[c] # state[c] /\ runs[c] = 1 =>
                          state'[c] \notin {"DISCARDED", "SENT_TO_ANOTHER_PROCESS"}
    BY DEF OnlyAt
  <2> QED
    BY <2>1, <2>2, <2>3, <1>1, <1>2, CountedSame
<1>15. CallInv' /\ BranchInv'
  BY <1>12, <1>14, CallPartsNext
<1>16. Running(runs', stack')
  <2> SUFFICES ASSUME NEW u \in Thread, NEW k \in DOMAIN stack'[u] PROVE runs[stack'[u][k].item] = 1
    BY DEF Running
  <2>1. stack'[u][k] \in Frame /\ stack'[u][k].item \in Item /\ Open(stack', stack'[u][k].item)
    <3>1. stack'[u][k] \in Frame
      BY <1>9
    <3>2. Open(stack', stack'[u][k].item)
      BY DEF Open
    <3> QED
      BY <3>1, <3>2 DEF Frame
  <2> QED
    BY <2>1, <1>14 DEF Counted
<1> QED
  BY <1>10, <1>11, <1>15, <1>16

\* A frame whose submission is at another place.
LEMMA AtFields ==
    ASSUME NEW f \in Frame, NEW place \in {"user", "remote", "local", "forward"},
           NEW g, g = [f EXCEPT !.at = place]
    PROVE  /\ g \in Frame /\ g.at = place /\ g.item = f.item /\ g.anchor = f.anchor
           /\ g.made = f.made /\ g.next = f.next
<1> DEFINE At == {"user", "remote", "local", "forward"}
<1>1. f \in [item : Item, anchor : Node, made : Nat, next : Nat \ {0}, at : At]
  BY Zenon DEF Frame
<1>2. place \in At
  OBVIOUS
<1> HIDE DEF At
<1>3. /\ g \in [item : Item, anchor : Node, made : Nat, next : Nat \ {0}, at : At] /\ g.at = place
      /\ g.item = f.item /\ g.anchor = f.anchor /\ g.made = f.made /\ g.next = f.next
  BY <1>1, <1>2
<1>4. g \in Frame
  BY <1>3, Zenon DEF Frame, At
<1> QED
  BY <1>3, <1>4

\* A frame whose branch was submitted.
LEMMA SubmittedFields ==
    ASSUME NEW f \in Frame
    PROVE  /\ Submitted(f) \in Frame /\ Submitted(f).at = "user"
           /\ Submitted(f).item = f.item /\ Submitted(f).anchor = f.anchor
           /\ Submitted(f).made = f.made /\ Submitted(f).next = f.next + 1
<1> DEFINE At == {"user", "remote", "local", "forward"}
           g == Submitted(f)
<1>1. f \in [item : Item, anchor : Node, made : Nat, next : Nat \ {0}, at : At]
  BY Zenon DEF Frame
<1>2. "user" \in At
  OBVIOUS
<1> HIDE DEF At
<1>3. g = [f EXCEPT !.next = f.next + 1, !.at = "user"]
  BY <1>1 DEF Submitted
<1> HIDE DEF g
<1>4. f.next + 1 \in Nat \ {0}
  BY <1>1
<1>5. /\ g \in [item : Item, anchor : Node, made : Nat, next : Nat \ {0}, at : At] /\ g.at = "user"
      /\ g.item = f.item /\ g.anchor = f.anchor /\ g.made = f.made /\ g.next = f.next + 1
  BY <1>1, <1>2, <1>3, <1>4
<1>6. g \in Frame
  BY <1>5, Zenon DEF Frame, At
<1> QED
  BY <1>5, <1>6 DEF g

\* The other fields of the state have their types.
LEMMA TypesStay ==
    ASSUME TypeOK, policy' = policy, style' = style, tree' \in Tree, state' \in [Item -> node_state],
           cached' \in [Item -> SUBSET BOOLEAN], queue' \in Seq(Item), stack' \in [Thread -> Seq(Frame)],
           runs' \in [Item -> Nat], threw' \in BOOLEAN
    PROVE  TypeOK'
<1>1. (tree \in Tree)'
  BY DEF Tree
<1>2. (state \in [Item -> node_state])' /\ (stack \in [Thread -> Seq(Frame)])'
  BY DEF node_state, Frame
<1> QED
  BY <1>1, <1>2 DEF TypeOK

\* After the innermost call f of t has gone on, in a step that changes no state.
LEMMA QuietStep ==
    ASSUME IInv, NEW t \in Thread, NEW n, NEW e, NEW p, Submits(t, n, e, p), NEW f \in Frame,
           Replaced(stack, stack', t, n, f), style' = style, runs' = runs, state' = state, queue' = queue,
           Advance(runs, state, cached, queue, runs, state, cached', queue),
           f.item = e.item, f.anchor = e.anchor, f.made = e.made,
           \/ f.next = e.next /\ (f.at # "user" => state[p] = "UNUSED")
           \/ f.next = e.next + 1 /\ f.at = "user" /\ Settled(runs, state, cached', queue, p)
    PROVE  StackInv' /\ CallInv' /\ BranchInv' /\ Shape(state', stack') /\ Running(runs', stack')
<1>1. TypeOK /\ CallInv /\ BranchInv
  BY Parts
<1>2. state' \in [Item -> node_state] /\ Waiting(runs, state', queue')
  BY <1>1, CallParts DEF TypeOK
<1>3. /\ n = Len(stack[t]) /\ n \in Nat /\ n >= 1 /\ n \in 1 .. Len(stack[t]) /\ e = stack[t][n] /\ e \in Frame
      /\ e.next <= e.made /\ e.made <= Len(Branches[e.item]) /\ p = NextOf(e) /\ e.made \in Nat
      /\ e.next \in Nat /\ p \in Range(Branches[e.item]) /\ n \in 1 .. n
      /\ IF style = "late" THEN e.made <= e.next ELSE e.made \in {0, Len(Branches[e.item])}
  BY DEF Submits
<1>4. OnlyAt(state, state', p) /\ Handed(state, runs, state', cached', queue', stack, t)
  BY DEF OnlyAt, Handed
<1>5. f.made >= e.made /\ f.next <= f.made + 1 /\ f.made <= Len(Branches[f.item])
  BY <1>3
<1>6. IF style = "late" THEN f.made <= f.next ELSE f.made \in {0, Len(Branches[f.item])}
  BY <1>3
<1>7. f.at # "user" => f.next <= f.made /\ state'[NextOf(f)] = "UNUSED"
  BY <1>3 DEF NextOf
<1>8. \/ f.next = e.next /\ n = Len(stack[t])
      \/ f.next = e.next + 1 /\ Settled(runs, state', cached', queue', NextOf(e))
  BY <1>3
<1>9. \A k \in n + 1 .. Len(stack[t]) : \A c \in Range(Branches[stack[t][k].item]) :
              Settled(runs, state, cached, queue, c)
  BY <1>3
<1>10. Advance(runs, state, cached, queue, runs, state', cached', queue')
  OBVIOUS
<1>11. p \in Range(Branches[stack[t][n].item]) /\ (n < n => p # NextOf(stack[t][n]))
  BY <1>3
<1>12. state'[p] # state[p] /\ runs[p] = 1 => state'[p] \notin {"DISCARDED", "SENT_TO_ANOTHER_PROCESS"}
  OBVIOUS
<1> QED
  BY <1>2, <1>3, <1>4, <1>5, <1>6, <1>7, <1>8, <1>9, <1>10, <1>11, <1>12, GoOnStep

\* A submission finds no place and goes on at another.
LEMMA GiveUpStep ==
    ASSUME IInv, NEW t \in Thread, NEW from \in {"remote", "local"}, Submitting(t, from),
           NEW place \in {"local", "forward"}, GiveUp(t, place)
    PROVE  IInv'
<1> DEFINE n == Len(stack[t])
           e == Top(t)
           p == Current(t)
           f == [e EXCEPT !.at = place]
<1>1. /\ TypeOK /\ ~threw /\ Shape(state, stack) /\ TreeInv(tree, state, stack, runs)
  BY Parts
<1>2. /\ policy' = policy /\ style' = style /\ tree' = tree /\ state' = state /\ cached' = cached
      /\ queue' = queue /\ runs' = runs /\ threw' = threw /\ GoOn(t, f)
  BY DEF GiveUp
<1>3. Submits(t, n, e, p) /\ state[p] = "UNUSED"
  BY SubmitFacts
<1>4. /\ e \in Frame /\ stack[t] # <<>> /\ n \in 1 .. Len(stack[t]) /\ e = stack[t][n] /\ n \in Nat
  BY <1>3 DEF Submits, Submitting
<1>5. /\ f \in Frame /\ f.item = e.item /\ f.anchor = e.anchor /\ f.made = e.made /\ f.next = e.next
  <2>1. e \in Frame /\ place \in {"user", "remote", "local", "forward"}
    BY <1>4
  <2>2. f = [e EXCEPT !.at = place]
    OBVIOUS
  <2> HIDE DEF e, f
  <2> QED
    BY <2>1, <2>2, AtFields
<1> HIDE DEF f
<1>6. stack \in [Thread -> Seq(Frame)]
  BY <1>1 DEF TypeOK
<1>7. Replaced(stack, stack', t, n, f)
  BY <1>2, <1>4, <1>5, <1>6, GoOnReplaces
<1>8. Advance(runs, state, cached, queue, runs, state, cached', queue)
  BY <1>2 DEF Advance
<1> HIDE DEF n, e, p
<1>9. StackInv' /\ CallInv' /\ BranchInv' /\ Shape(state', stack') /\ Running(runs', stack')
  BY <1>2, <1>3, <1>5, <1>7, <1>8, QuietStep
<1>10. ASSUME NEW u \in Thread
       PROVE  Len(stack'[u]) = Len(stack[u]) /\ \A k \in 1 .. Len(stack[u]) :
                /\ stack'[u][k].item = stack[u][k].item /\ stack'[u][k].anchor = stack[u][k].anchor
                /\ stack'[u][k].made = stack[u][k].made /\ stack'[u][k].next = stack[u][k].next
  <2>1. CASE u # t
    BY <2>1, <1>7 DEF Replaced
  <2>2. CASE u = t
    <3>1. Len(stack'[t]) = n /\ n = Len(stack[t]) /\ stack'[t][n] = f /\ \A k \in 1 .. n - 1 : stack'[t][k] = stack[t][k]
      BY <1>7 DEF Replaced, n
    <3>2. ASSUME NEW k \in 1 .. n PROVE k = n \/ k \in 1 .. n - 1
      BY <1>4
    <3> QED
      BY <2>2, <3>1, <3>2, <1>4, <1>5
  <2> QED
    BY <2>1, <2>2
<1>11. TreeInv(tree, state, stack', runs)
  BY <1>1, <1>2, <1>9, <1>10, SameKeeps
<1>12. TreeInv(tree, state, stack, runs)'
  BY <1>2, <1>11, TreePartsNext
<1>13. stack' \in [Thread -> Seq(Frame)]
  BY <1>7 DEF Replaced
<1>14. TypeOK'
  BY <1>1, <1>2, <1>13 DEF TypeOK, Tree, node_state, Frame
<1>15. ~threw'
  BY <1>1, <1>2
<1> QED
  BY <1>9, <1>12, <1>14, <1>15, PartsNext

\* A node that is consumed or not worthy is skipped.
LEMMA SkipStep ==
    ASSUME IInv, NEW t \in Thread, Submitting(t, "forward"),
           ~unused(Current(t)) \/ FALSE \in cached[Current(t)], Skip(t, Current(t))
    PROVE  IInv'
<1> DEFINE n == Len(stack[t])
           e == Top(t)
           p == Current(t)
           f == Submitted(e)
<1>1. /\ TypeOK /\ ~threw /\ Shape(state, stack) /\ TreeInv(tree, state, stack, runs)
      /\ CallInv /\ BranchInv /\ policy \in {"QUASI_HORIZONTAL", "WORK_STEALING"}
  BY Parts
<1>2. /\ policy' = policy /\ style' = style /\ state' = state
      /\ tree' = prune_and_correct_root_after_forward(tree, t, p)
      /\ cached' = (IF state[p] = "UNUSED" THEN [cached EXCEPT ![p] = {FALSE}] ELSE cached)
      /\ queue' = queue /\ runs' = runs /\ threw' = threw /\ GoOn(t, f)
  BY DEF Skip, unused
<1>3. Submits(t, n, e, p)
  BY SubmitFacts
<1>4. /\ e \in Frame /\ stack[t] # <<>> /\ n = Len(stack[t]) /\ n \in 1 .. Len(stack[t]) /\ e = stack[t][n] /\ n \in Nat
      /\ p \in Range(Branches[e.item]) /\ p \in Item /\ p = NextOf(e) /\ e.next <= Len(Branches[e.item])
      /\ e.next \in DOMAIN Branches[e.item] /\ e.item \in Item /\ n \in DOMAIN stack[t]
  BY <1>3, BranchesOf DEF Submits, Submitting
<1>5. /\ f \in Frame /\ f.item = e.item /\ f.anchor = e.anchor /\ f.made = e.made /\ f.next = e.next + 1
      /\ f.at = "user"
  BY <1>4, SubmittedFields
<1> HIDE DEF f
<1>6. stack \in [Thread -> Seq(Frame)] /\ cached \in [Item -> SUBSET BOOLEAN] /\ tree \in Tree
  BY <1>1 DEF TypeOK
<1>7. Replaced(stack, stack', t, n, f)
  BY <1>2, <1>4, <1>5, <1>6, GoOnReplaces
<1>8. \A c \in Item : cached[c] = {FALSE} => cached'[c] = {FALSE}
  BY <1>2, <1>4, <1>6
<1>9. Advance(runs, state, cached, queue, runs, state, cached', queue)
  BY <1>8 DEF Advance, Settled
<1> HIDE DEF n, e, p
<1>10. Settled(runs, state, cached', queue, p)
  <2>1. CASE state[p] = "UNUSED"
    BY <2>1, <1>2, <1>4, <1>6 DEF Settled
  <2>2. CASE state[p] # "UNUSED"
    <3>1. AllBranched(runs, state, cached, queue, stack)
      BY <1>1, CallParts
    <3>2. Branched(runs, state, cached, queue, stack, t, n)
      BY <3>1, <1>4 DEF AllBranched
    <3>3. Settled(runs, state, cached, queue, p)
      BY <3>2, <2>2, <1>4 DEF Branched, NextOf
    <3> QED
      BY <3>3, <1>4, <1>9 DEF Advance
  <2> QED
    BY <2>1, <2>2
<1>11. StackInv' /\ CallInv' /\ BranchInv' /\ Shape(state', stack') /\ Running(runs', stack')
  BY <1>2, <1>3, <1>5, <1>7, <1>9, <1>10, QuietStep
<1>12. OnlyAt(state, state', p)
  BY <1>2 DEF OnlyAt
<1>13. Fewer(state, stack, state', stack', t, n, p)
  BY <1>1, <1>4, <1>5, <1>7, <1>12, FewerNext
<1>14. tree.children[p] = <<>>
  <2>1. Anchored(tree, stack)
    BY <1>1 DEF TreeInv
  <2>2. n < Len(stack[t]) => p # stack[t][n + 1].item
    BY <1>4
  <2>3. p \in Range(Branches[stack[t][n].item])
    BY <1>4
  <2> QED
    BY <2>1, <2>2, <2>3, <1>1, <1>4, <1>6, NotAnchor
<1>15. Running(runs, stack')
  BY <1>2, <1>11
<1>16. TreeInv(prune_and_correct_root_after_forward(tree, t, p), state', stack', runs)
  BY <1>1, <1>11, <1>13, <1>14, <1>15, AfterForwardKeeps
<1>17. TreeInv(tree', state', stack', runs')
  BY <1>2, <1>16
<1>18. TreeInv(tree, state, stack, runs)'
  BY <1>2, <1>17, TreePartsNext
<1>19. stack' \in [Thread -> Seq(Frame)] /\ tree' \in Tree /\ cached' \in [Item -> SUBSET BOOLEAN]
  BY <1>2, <1>6, <1>7, <1>17 DEF Replaced, TreeInv
<1>20. TypeOK'
  BY <1>1, <1>2, <1>19, TypesStay DEF TypeOK
<1>21. ~threw'
  BY <1>1, <1>2
<1> QED
  BY <1>11, <1>18, <1>20, <1>21, PartsNext

\* A frame with more nodes.
LEMMA MadeFields ==
    ASSUME NEW f \in Frame, NEW last \in Nat, NEW g, g = [f EXCEPT !.made = last]
    PROVE  /\ g \in Frame /\ g.at = f.at /\ g.item = f.item /\ g.anchor = f.anchor
           /\ g.made = last /\ g.next = f.next
<1> DEFINE At == {"user", "remote", "local", "forward"}
<1>1. f \in [item : Item, anchor : Node, made : Nat, next : Nat \ {0}, at : At]
  BY Zenon DEF Frame
<1> HIDE DEF At
<1>2. /\ g \in [item : Item, anchor : Node, made : Nat, next : Nat \ {0}, at : At] /\ g.at = f.at
      /\ g.item = f.item /\ g.anchor = f.anchor /\ g.made = last /\ g.next = f.next
  BY <1>1
<1>3. g \in Frame
  BY <1>2, Zenon DEF Frame, At
<1> QED
  BY <1>2, <1>3

\* A thread that runs a call with branches holds a root.
LEMMA HoldsRoot ==
    ASSUME NEW st, NEW stk, Shape(st, stk), NEW tr, Known(tr, st, stk), policy = "QUASI_HORIZONTAL",
           NEW t \in Thread, NEW n \in 1 .. Len(stk[t]), NEW j, j \in 1 .. Len(Branches[stk[t][n].item])
    PROVE  tr.cell[t] # None
<1>1. 1 \in 1 .. Len(stk[t]) /\ stk[t] # <<>> /\ Len(stk[t]) \in Nat
  BY Frames
<1>2. stk[t][1] \in Frame /\ stk[t][1].item \in Item /\ stk[t][n].item \in Item
  BY <1>1, Frames
<1>3. Branches[stk[t][1].item] # <<>>
  <2>1. CASE n = 1
    BY <2>1, <1>2, BranchesOf
  <2>2. CASE n # 1
    <3>1. 1 < Len(stk[t])
      BY <2>2, <1>1
    <3>2. stk[t][1 + 1].item \in Kids(st, stk[t][1])
      BY <3>1, <1>1, Frames
    <3>3. stk[t][1 + 1].item \in Range(Branches[stk[t][1].item])
      BY <3>2, <1>2, KidsOf
    <3> QED
      BY <3>3 DEF Range
  <2> QED
    BY <2>1, <2>2
<1> QED
  BY <1>1, <1>3 DEF Known

\* Nodes are created.
LEMMA CreateStep ==
    ASSUME IInv, NEW t \in Thread, Create(t)
    PROVE  IInv'
<1> DEFINE n == Len(stack[t])
           e == Top(t)
           last == IF style = "eager" THEN Len(Branches[e.item]) ELSE e.next
           new == SubSeq(Branches[e.item], e.next, last)
           f == [e EXCEPT !.made = last]
           p == NextOf(e)
<1>1. /\ TypeOK /\ ~threw /\ StackInv /\ CallInv /\ BranchInv /\ style \in {"eager", "late"}
      /\ Shape(state, stack) /\ TreeInv(tree, state, stack, runs)
  BY Parts
<1>2. /\ stack[t] # <<>> /\ e.made < e.next /\ e.next <= Len(Branches[e.item])
      /\ tree' = set_parent(tree, t, new, e.anchor) /\ GoOn(t, f)
      /\ policy' = policy /\ style' = style /\ state' = state /\ cached' = cached /\ queue' = queue
      /\ runs' = runs /\ threw' = threw
  BY DEF Create
<1>3. stack \in [Thread -> Seq(Frame)] /\ state \in [Item -> node_state]
  BY <1>1 DEF TypeOK
<1>4. n \in Nat /\ n >= 1 /\ n \in 1 .. Len(stack[t]) /\ n \in DOMAIN stack[t] /\ e = stack[t][n] /\ e \in Frame
  BY <1>2, <1>3, TopOf
<1>5. e.item \in Item /\ e.next \in Nat /\ e.next >= 1 /\ e.made \in Nat
  BY <1>4 DEF Frame
<1>6. Len(Branches[e.item]) \in Nat /\ last \in Nat /\ e.next <= last /\ last <= Len(Branches[e.item])
      /\ e.next \in 1 .. Len(Branches[e.item])
  BY <1>2, <1>5, BranchesOf
<1>7. e.at = "user" /\ e.anchor = IF n = 1 THEN Dummy(e.item) ELSE e.item
  <2>1. Placed(style, state, stack[t], n)
    BY <1>1, <1>4 DEF StackInv
  <2>2. /\ e.anchor = IF n = 1 THEN Dummy(e.item) ELSE e.item
        /\ e.at # "user" => e.next <= e.made
    <3> HIDE DEF n
    <3>1. /\ stack[t][n].anchor = IF n = 1 THEN Dummy(stack[t][n].item) ELSE stack[t][n].item
          /\ stack[t][n].at # "user" => stack[t][n].next <= stack[t][n].made
      BY <2>1, PlacedFields
    <3> QED
      BY <3>1, <1>4
  <2>3. ~(e.next <= e.made)
    BY <1>2, <1>5
  <2> QED
    BY <2>2, <2>3
<1>8. IF style = "late" THEN last <= e.next ELSE last \in {0, Len(Branches[e.item])}
  BY <1>1, <1>5
<1> HIDE DEF last
<1>9. f \in Frame /\ f.at = "user" /\ f.item = e.item /\ f.anchor = e.anchor /\ f.made = last /\ f.next = e.next
  <2>1. f = [e EXCEPT !.made = last]
    OBVIOUS
  <2> HIDE DEF f, e
  <2> QED
    BY <2>1, <1>4, <1>6, <1>7, MadeFields
<1> HIDE DEF f
<1>10. Replaced(stack, stack', t, n, f)
  BY <1>2, <1>3, <1>9, GoOnReplaces
<1>11. p \in Range(Branches[stack[t][n].item])
  BY <1>4, <1>5, <1>6, BranchesOf DEF NextOf
<1>12. /\ OnlyAt(state, state', p) /\ Handed(state, runs, state', cached', queue', stack, t)
       /\ Advance(runs, state, cached, queue, runs, state', cached', queue')
       /\ state' \in [Item -> node_state]
  BY <1>2, <1>3 DEF OnlyAt, Handed, Advance
<1>13. Waiting(runs, state', queue') /\ AllBranched(runs, state, cached, queue, stack)
  BY <1>1, <1>2, CallParts
<1> HIDE DEF n, e, p
<1>14. StackInv' /\ CallInv' /\ BranchInv' /\ Shape(state', stack') /\ Running(runs', stack')
  <2>1. /\ f.made >= e.made /\ f.made <= Len(Branches[f.item]) /\ f.next <= f.made + 1
        /\ IF style = "late" THEN f.made <= f.next ELSE f.made \in {0, Len(Branches[f.item])}
        /\ f.at # "user" => f.next <= f.made /\ state'[NextOf(f)] = "UNUSED"
    BY <1>2, <1>5, <1>6, <1>8, <1>9
  <2>2. \/ f.next = e.next /\ n = Len(stack[t])
        \/ f.next = e.next + 1 /\ Settled(runs, state', cached', queue', NextOf(e))
    BY <1>9 DEF n
  <2>3. n \in 1 .. n /\ (n < n => p # NextOf(stack[t][n]))
    BY <1>4
  <2>4. state'[p] # state[p] /\ runs[p] = 1 => state'[p] \notin {"DISCARDED", "SENT_TO_ANOTHER_PROCESS"}
    BY <1>2
  <2>5. \A k \in n + 1 .. Len(stack[t]) : \A c \in Range(Branches[stack[t][k].item]) :
              Settled(runs, state, cached, queue, c)
    BY <1>4 DEF n
  <2> QED
    BY <2>1, <2>2, <2>3, <2>4, <2>5, <1>2, <1>4, <1>9, <1>10, <1>11, <1>12, <1>13, GoOnStep
<1>15. ASSUME NEW j \in f.next .. f.made PROVE state[Branches[f.item][j]] = "UNUSED"
  <2>1. j \in DOMAIN Branches[e.item] /\ j > e.made
    BY <1>2, <1>5, <1>6, <1>9, BranchesOf
  <2>2. Branched(runs, state, cached, queue, stack, t, n)
    BY <1>4, <1>13 DEF AllBranched
  <2> QED
    BY <2>1, <2>2, <1>4, <1>9 DEF Branched
<1>16. ASSUME policy = "QUASI_HORIZONTAL" PROVE tree.cell[t] # None
  <2>1. Known(tree, state, stack)
    BY <1>1 DEF TreeInv
  <2>2. e.next \in 1 .. Len(Branches[stack[t][n].item])
    BY <1>4, <1>6
  <2> QED
    BY <2>1, <2>2, <1>1, <1>4, <1>16, HoldsRoot
<1>17. new = SubSeq(Branches[f.item], f.next, f.made)
  BY <1>9
<1> HIDE DEF new
<1>18. TreeInv(set_parent(tree, t, new, f.anchor), state, stack', runs)
  <2>1. Shape(state, stack')
    BY <1>2, <1>14
  <2>2. Replaced(stack, stack', t, Len(stack[t]), f) /\ e = stack[t][Len(stack[t])]
    BY <1>4, <1>10 DEF n
  <2>3. f.next <= f.made /\ f.made <= Len(Branches[f.item])
    BY <1>6, <1>9
  <2>4. Fresh(state, f, new)
    BY <2>3, <1>15, <1>17 DEF Fresh
  <2> QED
    BY <2>1, <2>2, <2>4, <1>1, <1>2, <1>9, <1>16, CreateKeeps
<1>19. TreeInv(tree', state', stack', runs')
  BY <1>2, <1>9, <1>18
<1>20. TreeInv(tree, state, stack, runs)'
  BY <1>2, <1>19, TreePartsNext
<1>21. stack' \in [Thread -> Seq(Frame)] /\ tree' \in Tree
  BY <1>10, <1>19 DEF Replaced, TreeInv
<1>22. TypeOK'
  BY <1>1, <1>2, <1>21, TypesStay DEF TypeOK
<1>23. ~threw'
  BY <1>1, <1>2
<1> QED
  BY <1>14, <1>20, <1>22, <1>23, PartsNext

\* A call that has submitted all its branches has none waiting, and all are settled.
LEMMA AllSubmitted ==
    ASSUME NEW st, NEW stk, Shape(st, stk), NEW rn, NEW ca, NEW qu, AllBranched(rn, st, ca, qu, stk),
           NEW t \in Thread, NEW k \in 1 .. Len(stk[t]), stk[t][k].next > Len(Branches[stk[t][k].item])
    PROVE  /\ Kids(st, stk[t][k]) = {}
           /\ \A c \in Range(Branches[stk[t][k].item]) : Settled(rn, st, ca, qu, c)
<1> DEFINE g == stk[t][k]
<1>1. g.item \in Item /\ g.next \in Nat /\ k \in DOMAIN stk[t]
  BY Frames
<1>2. Len(Branches[g.item]) \in Nat /\ DOMAIN Branches[g.item] = 1 .. Len(Branches[g.item])
  BY <1>1, BranchesOf
<1>3. ASSUME NEW c \in Kids(st, g) PROVE FALSE
  <2>1. PICK j \in DOMAIN Branches[g.item] : g.next <= j
    BY DEF Kids
  <2> QED
    BY <2>1, <1>1, <1>2
<1>4. ASSUME NEW c \in Range(Branches[g.item]) PROVE Settled(rn, st, ca, qu, c)
  <2>1. PICK j \in 1 .. Len(Branches[g.item]) : c = Branches[g.item][j]
    BY <1>1, BranchesOf
  <2>2. j < g.next /\ j \in DOMAIN Branches[g.item]
    BY <1>1, <1>2
  <2>3. Branched(rn, st, ca, qu, stk, t, k)
    BY <1>1 DEF AllBranched
  <2> QED
    BY <2>1, <2>2, <2>3 DEF Branched
<1> QED
  BY <1>3, <1>4

\* A nested call returns.
LEMMA ReturnStep ==
    ASSUME IInv, NEW t \in Thread, Return(t), Len(stack[t]) # 1
    PROVE  IInv'
<1> DEFINE n == Len(stack[t]) - 1
           e == stack[t][n]
           p == Top(t).item
           f == Submitted(e)
<1>1. /\ TypeOK /\ ~threw /\ StackInv /\ CallInv /\ BranchInv /\ Shape(state, stack) /\ Running(runs, stack)
      /\ TreeInv(tree, state, stack, runs) /\ policy \in {"QUASI_HORIZONTAL", "WORK_STEALING"}
  BY Parts
<1>2. /\ stack[t] # <<>> /\ Top(t).next > Len(Branches[Top(t).item])
      /\ state' = [state EXCEPT ![p] = "FORWARDED"]
      /\ tree' = prune_and_correct_root_after_forward(tree, t, p)
      /\ stack' = [stack EXCEPT ![t] = Append(Front(Front(stack[t])), f)]
      /\ policy' = policy /\ style' = style /\ cached' = cached /\ queue' = queue
      /\ runs' = runs /\ threw' = threw
  BY DEF Return
<1>3. /\ stack \in [Thread -> Seq(Frame)] /\ state \in [Item -> node_state] /\ tree \in Tree /\ queue \in Seq(Item)
      /\ Waiting(runs, state, queue) /\ AllBranched(runs, state, cached, queue, stack)
  BY <1>1, CallParts DEF TypeOK
<1>4. /\ n \in Nat /\ n >= 1 /\ Len(stack[t]) = n + 1 /\ n \in 1 .. Len(stack[t]) /\ n + 1 \in 1 .. Len(stack[t])
      /\ n + 1 \in DOMAIN stack[t] /\ n \in DOMAIN stack[t] /\ Top(t) = stack[t][n + 1] /\ Len(stack[t]) > 1
  <2>1. Len(stack[t]) \in Nat /\ Len(stack[t]) >= 1 /\ Top(t) = stack[t][Len(stack[t])]
    BY <1>2, <1>3, TopOf
  <2>2. n \in Nat /\ n >= 1 /\ Len(stack[t]) = n + 1 /\ Len(stack[t]) > 1
    <3> DEFINE d == Len(stack[t])
    <3>1. d \in Nat /\ d >= 1 /\ d # 1 /\ n = d - 1
      BY <2>1
    <3> HIDE DEF d, n
    <3>2. n \in Nat /\ n >= 1 /\ d = n + 1 /\ d > 1
      BY <3>1
    <3> QED
      BY <3>2 DEF d
  <2>3. DOMAIN stack[t] = 1 .. Len(stack[t])
    BY <1>3
  <2>4. Top(t) = stack[t][n + 1]
    BY <2>1, <2>2
  <2> HIDE DEF n
  <2> QED
    BY <2>2, <2>3, <2>4
<1>5. e \in Frame /\ e.item \in Item /\ e.made \in Nat /\ e.next \in Nat /\ e.next >= 1
  BY <1>1, <1>4, Frames
<1>6. /\ e.made <= Len(Branches[e.item]) /\ e.next <= e.made /\ state[NextOf(e)] = "UNUSED" /\ p = NextOf(e)
      /\ IF style = "late" THEN e.made <= e.next ELSE e.made \in {0, Len(Branches[e.item])}
  <2>1. Placed(style, state, stack[t], n)
    BY <1>1, <1>4 DEF StackInv
  <2>2. n < Len(stack[t])
    BY <1>4
  <2> QED
    BY <2>1, <2>2, <1>4 DEF Placed, NextOf
<1>7. /\ f \in Frame /\ f.item = e.item /\ f.anchor = e.anchor /\ f.made = e.made /\ f.next = e.next + 1
      /\ f.at = "user"
  BY <1>5, SubmittedFields
<1>8. e.next \in 1 .. Len(Branches[e.item]) /\ Len(Branches[e.item]) \in Nat
  BY <1>5, <1>6, BranchesOf
<1>9. p \in Range(Branches[e.item]) /\ p \in Item /\ p # Seed
  <2>1. p = Branches[e.item][e.next]
    BY <1>6 DEF NextOf
  <2>2. p \in Range(Branches[e.item]) /\ p \in Item
    BY <2>1, <1>5, <1>8, BranchesOf
  <2> QED
    BY <2>2, <1>5, NoSeed
<1>10. runs[p] = 1 /\ p \in Kids(state, e)
  <2>1. runs[stack[t][n + 1].item] = 1
    BY <1>1, <1>4 DEF Running
  <2>2. p \in Kids(state, e)
    <3>1. state[Branches[e.item][e.next]] = "UNUSED" /\ p = Branches[e.item][e.next]
      BY <1>6 DEF NextOf
    <3> HIDE DEF e, p
    <3> QED
      BY <3>1, <1>5, <1>6, NextIsKid
  <2> QED
    BY <2>1, <2>2, <1>4
<1>11. /\ Kids(state, stack[t][n + 1]) = {}
       /\ \A c \in Range(Branches[stack[t][n + 1].item]) : Settled(runs, state, cached, queue, c)
  <2> DEFINE k == n + 1
  <2>1. k \in 1 .. Len(stack[t]) /\ stack[t][k].next > Len(Branches[stack[t][k].item])
    BY <1>2, <1>4
  <2> HIDE DEF k
  <2>2. /\ Kids(state, stack[t][k]) = {}
        /\ \A c \in Range(Branches[stack[t][k].item]) : Settled(runs, state, cached, queue, c)
    BY <2>1, <1>1, <1>3, AllSubmitted
  <2> QED
    BY <2>2 DEF k
<1>12. tree.children[p] = <<>>
  <2> DEFINE k == n + 1
  <2>1. k \in 1 .. Len(stack[t]) /\ Kids(state, stack[t][k]) = {} /\ k # 1
    BY <1>4, <1>11
  <2>2. Hung(tree, state, stack)
    BY <1>1 DEF TreeInv
  <2>3. stack[t][k].anchor = stack[t][k].item /\ stack[t][k].item = p
    BY <2>1, <1>1, <1>4, Frames
  <2> HIDE DEF k
  <2>4. tree.children[stack[t][k].anchor] = <<>>
    BY <2>1, <2>2, <1>1, <1>3, NoKids
  <2> QED
    BY <2>3, <2>4
<1> HIDE DEF f
<1>13. Replaced(stack, stack', t, n, f)
  BY <1>2, <1>3, <1>4, <1>7, ReturnReplaces
<1> HIDE DEF n, e, p
<1>14. /\ state' \in [Item -> node_state] /\ state'[p] = "FORWARDED" /\ \A c \in Item : c # p => state'[c] = state[c]
  BY <1>2, <1>3, <1>9 DEF node_state
<1>15. OnlyAt(state, state', p)
  BY <1>14 DEF OnlyAt
<1>16. Advance(runs, state, cached, queue, runs, state', cached', queue')
  <2>1. \A c \in Item : state[c] = "SENT_TO_ANOTHER_PROCESS" => state'[c] = "SENT_TO_ANOTHER_PROCESS"
    BY <1>6, <1>14
  <2> QED
    BY <2>1, <1>2 DEF Advance, Settled
<1>17. Settled(runs, state', cached', queue', p)
  BY <1>10 DEF Settled
<1>18. Handed(state, runs, state', cached', queue', stack, t)
  <2> SUFFICES ASSUME NEW c \in Item, state'[c] # state[c]
               PROVE  /\ state'[c] # "UNUSED" /\ Settled(runs, state', cached', queue', c)
                      /\ \E k \in 1 .. Len(stack[t]) : c \in Kids(state, stack[t][k])
    BY DEF Handed
  <2>1. c = p
    BY <1>14
  <2>2. p \in Kids(state, stack[t][n])
    BY <1>10 DEF e
  <2> QED
    BY <2>1, <2>2, <1>4, <1>14, <1>17
<1>19. Waiting(runs, state', queue')
  <2>1. \A c \in Item : state'[c] # state[c] => state[c] = "UNUSED" /\ c # Seed
    BY <1>6, <1>9, <1>14
  <2>2. Waiting(runs, state', queue)
    BY <2>1, <1>3, WaitingSame
  <2> QED
    BY <2>2, <1>2
<1>20. StackInv' /\ CallInv' /\ BranchInv' /\ Shape(state', stack') /\ Running(runs', stack')
  <2>1. /\ f.made >= e.made /\ f.made <= Len(Branches[f.item]) /\ f.next <= f.made + 1
        /\ IF style = "late" THEN f.made <= f.next ELSE f.made \in {0, Len(Branches[f.item])}
        /\ f.at # "user" => f.next <= f.made /\ state'[NextOf(f)] = "UNUSED"
    BY <1>5, <1>6, <1>7
  <2>2. \/ f.next = e.next /\ n = Len(stack[t])
        \/ f.next = e.next + 1 /\ Settled(runs, state', cached', queue', NextOf(e))
    BY <1>6, <1>7, <1>17
  <2>3. n \in 1 .. n /\ (n < n => p # NextOf(stack[t][n])) /\ p \in Range(Branches[stack[t][n].item])
    BY <1>4, <1>9 DEF e
  <2>4. state'[p] # state[p] /\ runs[p] = 1 => state'[p] \notin {"DISCARDED", "SENT_TO_ANOTHER_PROCESS"}
    BY <1>14
  <2>5. \A k \in n + 1 .. Len(stack[t]) : \A c \in Range(Branches[stack[t][k].item]) :
              Settled(runs, state, cached, queue, c)
    <3>1. \A k \in n + 1 .. Len(stack[t]) : k = n + 1
      BY <1>4
    <3> QED
      BY <3>1, <1>11
  <2>6. e = stack[t][n]
    BY DEF e
  <2> QED
    BY <2>1, <2>2, <2>3, <2>4, <2>5, <2>6, <1>2, <1>4, <1>7, <1>13, <1>14, <1>15, <1>16, <1>18, <1>19, GoOnStep
<1>21. Fewer(state, stack, state', stack', t, n, p)
  <2>1. /\ f.item = stack[t][n].item /\ f.anchor = stack[t][n].anchor /\ f.made = stack[t][n].made
        /\ f.next = stack[t][n].next + 1 /\ stack[t][n].next <= Len(Branches[stack[t][n].item])
        /\ p = NextOf(stack[t][n])
    BY <1>5, <1>6, <1>7, <1>8 DEF e
  <2>2. Len(stack[t]) = n + 1 /\ stack[t][n + 1].item = p
    BY <1>4 DEF p
  <2> QED
    BY <2>1, <2>2, <1>1, <1>4, <1>7, <1>13, <1>15, FewerNext
<1>22. Running(runs, stack')
  BY <1>2, <1>20
<1>23. TreeInv(prune_and_correct_root_after_forward(tree, t, p), state', stack', runs)
  BY <1>1, <1>12, <1>20, <1>21, <1>22, AfterForwardKeeps
<1>24. TreeInv(tree', state', stack', runs')
  BY <1>2, <1>23
<1>25. TreeInv(tree, state, stack, runs)'
  BY <1>2, <1>24, TreePartsNext
<1>26. stack' \in [Thread -> Seq(Frame)] /\ tree' \in Tree
  BY <1>13, <1>24 DEF Replaced, TreeInv
<1>27. TypeOK'
  BY <1>1, <1>2, <1>14, <1>26, TypesStay DEF TypeOK
<1>28. ~threw'
  BY <1>1, <1>2
<1> QED
  BY <1>20, <1>25, <1>27, <1>28, PartsNext

\* The first call of a thread returns.
LEMMA ReturnToPool ==
    ASSUME IInv, NEW t \in Thread, Return(t), Len(stack[t]) = 1
    PROVE  IInv'
<1>1. /\ TypeOK /\ ~threw /\ StackInv /\ CallInv /\ BranchInv /\ Shape(state, stack)
      /\ TreeInv(tree, state, stack, runs)
  BY Parts
<1>2. /\ stack[t] # <<>> /\ Top(t).next > Len(Branches[Top(t).item])
      /\ stack' = [stack EXCEPT ![t] = <<>>] /\ tree' = tree /\ state' = state
      /\ policy' = policy /\ style' = style /\ cached' = cached /\ queue' = queue
      /\ runs' = runs /\ threw' = threw
  BY DEF Return
<1>3. /\ stack \in [Thread -> Seq(Frame)] /\ state \in [Item -> node_state]
      /\ Waiting(runs, state, queue) /\ AllBranched(runs, state, cached, queue, stack)
      /\ Counted(runs, state, cached, queue, stack)
  BY <1>1, CallParts DEF TypeOK
<1>4. 1 \in 1 .. Len(stack[t]) /\ Top(t) = stack[t][1] /\ DOMAIN stack[t] = {1}
  BY <1>2, <1>3, TopOf
<1>5. /\ stack' \in [Thread -> Seq(Frame)] /\ stack'[t] = <<>> /\ DOMAIN stack'[t] = {}
      /\ \A u \in Thread : u # t => stack'[u] = stack[u]
  BY <1>2, <1>3
<1>6. /\ Kids(state, stack[t][1]) = {}
      /\ \A c \in Range(Branches[stack[t][1].item]) : Settled(runs, state, cached, queue, c)
  BY <1>1, <1>2, <1>3, <1>4, AllSubmitted
<1>7. \A u \in Thread : \A k \in DOMAIN stack'[u] : u # t /\ stack'[u] = stack[u]
  BY <1>5
<1>8. StackInv'
  <2>1. \A u \in Thread : \A k \in DOMAIN stack'[u] : Placed(style, state', stack'[u], k)
    BY <1>1, <1>2, <1>7 DEF StackInv
  <2>2. Apart(stack')
    BY <1>1, <1>7 DEF StackInv, Apart
  <2> QED
    BY <2>1, <2>2, <1>2, StackPartsNext
<1>9. AllBranched(runs, state, cached, queue, stack')
  BY <1>1, <1>3, <1>5, BranchesPop
<1>10. Counted(runs, state, cached, queue, stack')
  <2>1. \A i \in Item : Open(stack', i) => Open(stack, i)
    BY <1>7 DEF Open
  <2>2. \A i \in Item : Open(stack, i) /\ ~Open(stack', i) => i = stack[t][1].item
    BY <1>4, <1>5 DEF Open
  <2>3. Handed(state, runs, state, cached, queue, stack, t) /\ Advance(runs, state, cached, queue, runs, state, cached, queue)
    BY DEF Handed, Advance
  <2>4. \A i \in Item : Open(stack, i) /\ ~Open(stack', i) =>
            \A c \in Range(Branches[i]) : Settled(runs, state, cached, queue, c)
    BY <2>2, <1>6
  <2> QED
    BY <2>1, <2>3, <2>4, <1>1, <1>3, CountedSame
<1>11. CallInv' /\ BranchInv'
  BY <1>2, <1>3, <1>9, <1>10, CallPartsNext
<1>12. TreeInv(tree, state, stack', runs)
  BY <1>1, <1>5, <1>6, PopKeeps
<1>13. TreeInv(tree, state, stack, runs)'
  BY <1>2, <1>12, TreePartsNext
<1>14. TypeOK'
  BY <1>1, <1>2, <1>5, TypesStay DEF TypeOK
<1>15. ~threw'
  BY <1>1, <1>2
<1> QED
  BY <1>8, <1>11, <1>13, <1>14, <1>15, PartsNext

\* The calls after a step that begins the call f on t: the n-th call of its stack, for the
\* branch that the call below submits or for a call that was waiting.
LEMMA PushStep ==
    ASSUME IInv, NEW t \in Thread, NEW m, m = Len(stack[t]), NEW f \in Frame,
           Replaced(stack, stack', t, m + 1, f), style' = style, state' = state,
           f.made = 0, f.next = 1, f.at = "user", f.anchor = IF m = 0 THEN Dummy(f.item) ELSE f.item,
           runs[f.item] = 0, runs' = [runs EXCEPT ![f.item] = @ + 1],
           state[f.item] \notin {"DISCARDED", "SENT_TO_ANOTHER_PROCESS"},
           m > 0 => /\ stack[t][m].next \in 1 .. Len(Branches[stack[t][m].item])
                    /\ stack[t][m].next <= stack[t][m].made
                    /\ f.item = NextOf(stack[t][m]) /\ state[f.item] = "UNUSED",
           m = 0 => state[f.item] # "UNUSED" \/ f.item = Seed,
           Advance(runs, state, cached, queue, runs', state, cached', queue'),
           Waiting(runs', state, queue')
    PROVE  /\ StackInv' /\ CallInv' /\ BranchInv' /\ Shape(state', stack')
           /\ runs' \in [Item -> Nat] /\ runs'[f.item] = 1 /\ \A i \in Item : runs[i] = 1 => runs'[i] = 1
<1>1. /\ TypeOK /\ StackInv /\ CallInv /\ BranchInv /\ Shape(state, stack)
  BY Parts
<1>2. /\ stack \in [Thread -> Seq(Frame)] /\ state \in [Item -> node_state] /\ runs \in [Item -> Nat]
      /\ Counted(runs, state, cached, queue, stack) /\ AllBranched(runs, state, cached, queue, stack)
  BY <1>1, CallParts DEF TypeOK
<1>3. /\ AllPlaced(style, state, stack) /\ Apart(stack)
  BY <1>1 DEF StackInv, AllPlaced
<1>4. m \in Nat /\ f.item \in Item
  BY <1>2 DEF Frame
<1>5. /\ runs' \in [Item -> Nat] /\ runs'[f.item] = 1 /\ \A c \in Item : c # f.item => runs'[c] = runs[c]
  BY <1>2, <1>4
<1>6. ASSUME NEW u \in Thread, NEW k \in DOMAIN stack[u] PROVE stack[u][k].item # f.item
  <2>1. stack[u][k] \in Frame
    BY <1>2
  <2>2. stack[u][k].item \in Item /\ Open(stack, stack[u][k].item)
    BY <2>1 DEF Frame, Open
  <2>3. runs[stack[u][k].item] = 1
    BY <2>2, <1>2 DEF Counted
  <2> QED
    BY <2>3
<1>7. ASSUME m > 0 PROVE m \in DOMAIN stack[t] /\ m \in 1 .. Len(stack[t]) /\ stack[t][m].item # f.item
  <2>1. m \in DOMAIN stack[t] /\ m \in 1 .. Len(stack[t])
    BY <1>2, <1>4, <1>7
  <2> QED
    BY <2>1, <1>6
<1> DEFINE n == m + 1
<1>8. n \in Nat /\ n >= 1 /\ n <= Len(stack[t]) + 1 /\ n - 1 = m /\ (n = 1 <=> m = 0) /\ (n > 1 <=> m > 0)
      /\ Replaced(stack, stack', t, n, f) /\ n = Len(stack[t]) + 1
  BY <1>4
<1> HIDE DEF n
<1>9. Follows(state, stack, t, n, f)
  BY <1>6, <1>8 DEF Follows
<1>10. NextKept(state, state, stack, t, n)
  BY DEF NextKept
<1>11. Placed(style, state, stack'[t], n)
  <2>1. n = Len(stack'[t]) /\ f = stack'[t][n]
    BY <1>8 DEF Replaced
  <2>2. f.anchor = IF n = 1 THEN Dummy(f.item) ELSE f.item
    BY <1>8
  <2>3. Len(Branches[f.item]) \in Nat
    BY <1>4, BranchesOf
  <2>4. /\ f.made <= Len(Branches[f.item]) /\ f.next <= f.made + 1
        /\ IF style = "late" THEN f.made <= f.next ELSE f.made \in {0, Len(Branches[f.item])}
        /\ f.at # "user" => f.next <= f.made /\ state[NextOf(f)] = "UNUSED"
    BY <2>3
  <2> QED
    BY <2>1, <2>2, <2>4, <1>8, PlacedTop
<1>12. AllPlaced(style, state, stack') /\ Apart(stack')
  BY <1>2, <1>3, <1>8, <1>9, <1>10, <1>11, StackNext
<1>13. stack' \in [Thread -> Seq(Frame)]
  BY DEF Replaced
<1>14. Shape(state, stack')
  BY <1>2, <1>12, <1>13, PlacedShape DEF AllPlaced
<1>15. StackInv'
  BY <1>12, StackPartsNext DEF AllPlaced
<1>16. AllBranched(runs', state, cached', queue', stack')
  BY <1>1, <1>2, <1>5, <1>7, BranchesPush, ZenonT(40)
<1>17. ASSUME NEW i \in Item, f.item \in Range(Branches[i]) PROVE runs[i] = 1
  <2>1. CASE m > 0
    <3>1. stack[t][m].item \in Item /\ runs[stack[t][m].item] = 1
      <4>1. stack[t][m] \in Frame
        BY <2>1, <1>2, <1>7
      <4>2. stack[t][m].item \in Item /\ Open(stack, stack[t][m].item)
        BY <4>1, <2>1, <1>7 DEF Frame, Open
      <4> QED
        BY <4>2, <1>2 DEF Counted
    <3>2. f.item \in Range(Branches[stack[t][m].item])
      BY <3>1, <2>1, BranchesOf DEF NextOf
    <3>3. i = stack[t][m].item
      BY <3>1, <3>2, <1>17, Forest
    <3> QED
      BY <3>1, <3>3
  <2>2. CASE m = 0
    <3>1. state[f.item] # "UNUSED"
      BY <2>2, <1>17, NoSeed
    <3>2. runs[i] \in {0, 1} /\ (runs[i] = 0 => state[f.item] = "UNUSED")
      BY <1>2, <1>17 DEF Counted
    <3> QED
      BY <3>1, <3>2
  <2> QED
    BY <2>1, <2>2, <1>4
<1>18. ASSUME NEW i \in Item PROVE Open(stack', i) <=> Open(stack, i) \/ i = f.item
  BY <1>1, <1>8, OpenPush, OpenStays
<1>19. Counted(runs', state, cached', queue', stack')
  <2> DEFINE x == f.item
  <2>1. /\ x \in Item /\ runs'[x] = 1 /\ \A c \in Item : c # x => runs'[c] = runs[c]
        /\ state[x] \notin {"DISCARDED", "SENT_TO_ANOTHER_PROCESS"}
    BY <1>4, <1>5
  <2>2. \A i \in Item : x \in Range(Branches[i]) => runs[i] = 1
    BY <1>17
  <2>3. \A i \in Item : Open(stack', i) <=> Open(stack, i) \/ i = x
    BY <1>18
  <2> HIDE DEF x
  <2>4. Begun(runs, runs', stack, stack', x)
    BY <2>1, <2>2, <2>3 DEF Begun
  <2> QED
    BY <2>1, <2>4, <1>2, CountedPush
<1>20. CallInv' /\ BranchInv'
  BY <1>16, <1>19, CallPartsNext
<1>21. \A i \in Item : runs[i] = 1 => runs'[i] = 1
  BY <1>5
<1> QED
  BY <1>5, <1>14, <1>15, <1>20, <1>21

\* The frame of a call that begins.
LEMMA CallFields ==
    ASSUME NEW i \in Item, NEW a \in Node
    PROVE  /\ Call(i, a) \in Frame /\ Call(i, a).item = i /\ Call(i, a).anchor = a
           /\ Call(i, a).made = 0 /\ Call(i, a).next = 1 /\ Call(i, a).at = "user"
BY DEF Call, Frame

\* A node is run by its thread.
LEMMA RunStep ==
    ASSUME IInv, NEW t \in Thread, Submitting(t, "forward"), unused(Current(t)),
           TRUE \in cached[Current(t)], Run(t, Current(t))
    PROVE  IInv'
<1> DEFINE n == Len(stack[t])
           e == Top(t)
           p == Current(t)
           f == Call(p, p)
<1>1. /\ TypeOK /\ ~threw /\ Shape(state, stack) /\ TreeInv(tree, state, stack, runs) /\ CallInv /\ BranchInv
  BY Parts
<1>2. /\ policy' = policy /\ style' = style /\ tree' = tree /\ state' = state /\ queue' = queue
      /\ threw' = threw /\ cached' = [cached EXCEPT ![p] = {TRUE}] /\ runs' = [runs EXCEPT ![p] = @ + 1]
      /\ stack' = [stack EXCEPT ![t] = Append(stack[t], f)] /\ state[p] = "UNUSED"
  BY DEF Run, unused
<1>3. Submits(t, n, e, p)
  BY SubmitFacts
<1>4. /\ e \in Frame /\ stack[t] # <<>> /\ n = Len(stack[t]) /\ n \in 1 .. Len(stack[t]) /\ e = stack[t][n] /\ n \in Nat /\ n >= 1
      /\ p \in Item /\ p = NextOf(e) /\ e.next \in 1 .. Len(Branches[e.item]) /\ e.next <= e.made
      /\ e.next \in DOMAIN Branches[e.item] /\ e.item \in Item /\ n \in DOMAIN stack[t] /\ p # Seed
  BY <1>3, BranchesOf DEF Submits, Submitting
<1>5. /\ stack \in [Thread -> Seq(Frame)] /\ cached \in [Item -> SUBSET BOOLEAN] /\ tree \in Tree
      /\ runs \in [Item -> Nat] /\ queue \in Seq(Item) /\ state \in [Item -> node_state]
      /\ Waiting(runs, state, queue) /\ AllBranched(runs, state, cached, queue, stack)
  BY <1>1, CallParts DEF TypeOK
<1>6. /\ f \in Frame /\ f.item = p /\ f.anchor = p /\ f.made = 0 /\ f.next = 1 /\ f.at = "user"
  <2>1. p \in Item /\ p \in Node
    BY <1>4, Nodes
  <2>2. f = Call(p, p)
    OBVIOUS
  <2> HIDE DEF p, f
  <2> QED
    BY <2>1, <2>2, CallFields
<1> HIDE DEF f
<1>7. Replaced(stack, stack', t, n + 1, f)
  BY <1>2, <1>5, <1>6, PushReplaces
<1> HIDE DEF n, e, p
<1>8. runs[p] = 0
  <2>1. Branched(runs, state, cached, queue, stack, t, n)
    BY <1>4, <1>5 DEF AllBranched
  <2>2. /\ p = Branches[stack[t][n].item][stack[t][n].next] /\ n = Len(stack[t])
        /\ stack[t][n].next \in DOMAIN Branches[stack[t][n].item] /\ stack[t][n].next >= stack[t][n].next
    BY <1>4 DEF NextOf
  <2> QED
    BY <2>1, <2>2, <1>2 DEF Branched
<1>9. \A c \in Item : c # p => runs'[c] = runs[c]
  BY <1>2, <1>5
<1>10. Advance(runs, state, cached, queue, runs', state, cached', queue')
  <2>1. \A c \in Item : cached[c] = {FALSE} => cached'[c] = {FALSE}
    <3> SUFFICES ASSUME NEW c \in Item, cached[c] = {FALSE} PROVE cached'[c] = {FALSE}
      OBVIOUS
    <3>1. c # p
      BY <1>4 DEF p
    <3> QED
      BY <3>1, <1>2, <1>5
  <2>2. \A c \in Item : runs[c] = 1 => runs'[c] = 1
    BY <1>8, <1>9
  <2> QED
    BY <2>1, <2>2, <1>2 DEF Advance, Settled
<1>11. Waiting(runs', state, queue')
  BY <1>2, <1>4, <1>5, <1>9, WaitingRun, ZenonT(40)
<1>12. /\ StackInv' /\ CallInv' /\ BranchInv' /\ Shape(state', stack')
       /\ runs' \in [Item -> Nat] /\ runs'[f.item] = 1 /\ \A i \in Item : runs[i] = 1 => runs'[i] = 1
  <2>1. f.anchor = IF n = 0 THEN Dummy(f.item) ELSE f.item
    BY <1>4, <1>6
  <2>2. runs[f.item] = 0 /\ runs' = [runs EXCEPT ![f.item] = @ + 1]
    BY <1>2, <1>6, <1>8
  <2>3. /\ state[f.item] \notin {"DISCARDED", "SENT_TO_ANOTHER_PROCESS"}
        /\ n = 0 => state[f.item] # "UNUSED" \/ f.item = Seed
    BY <1>2, <1>4, <1>6
  <2>4. /\ stack[t][n].next \in 1 .. Len(Branches[stack[t][n].item])
        /\ stack[t][n].next <= stack[t][n].made
        /\ f.item = NextOf(stack[t][n]) /\ state[f.item] = "UNUSED"
    BY <1>2, <1>4, <1>6
  <2> QED
    BY <2>1, <2>2, <2>3, <2>4, <1>2, <1>4, <1>6, <1>7, <1>10, <1>11, PushStep
<1>13. TreeInv(tree, state, stack', runs')
  <2>1. Replaced(stack, stack', t, Len(stack[t]) + 1, f) /\ Shape(state, stack')
    BY <1>2, <1>4, <1>7, <1>12
  <2>2. runs[f.item] # 1
    BY <1>6, <1>8
  <2>3. stack[t] # <<>>
    BY <1>4
  <2>4. \A x \in Node : tree.rooted[x] => tree.rooted[x]
    OBVIOUS
  <2>5. tree.cell[t] = tree.cell[t] /\ (stack[t] = <<>> /\ policy = "QUASI_HORIZONTAL" => Branches[f.item] = <<>>)
    BY <2>3
  <2>6. \A u \in Thread : u # t => tree.cell[u] = tree.cell[u]
    OBVIOUS
  <2>7. Received(tree, tree, stack, t, f.item)
    BY <2>4, <2>5, <2>6, <1>5 DEF Received
  <2>8. Recorded(runs, runs', f.item)
    BY <2>2, <1>12 DEF Recorded
  <2> QED
    BY <2>1, <2>7, <2>8, <1>1, <1>6, PushKeeps
<1>14. TreeInv(tree, state, stack, runs)'
  BY <1>2, <1>13, TreePartsNext
<1>15. stack' \in [Thread -> Seq(Frame)] /\ cached' \in [Item -> SUBSET BOOLEAN]
  BY <1>2, <1>5, <1>7 DEF Replaced
<1>16. TypeOK'
  BY <1>1, <1>2, <1>5, <1>12, <1>15, TypesStay DEF TypeOK
<1>17. ~threw'
  BY <1>1, <1>2
<1> QED
  BY <1>12, <1>14, <1>16, <1>17, PartsNext

\* What create_dummy does.
LEMMA DummyFields ==
    ASSUME NEW tr \in Tree, NEW t \in Thread, NEW d \in Node, policy # "WORK_STEALING"
    PROVE  LET tr2 == create_dummy(tr, t, d) IN
           /\ tr2 \in Tree /\ tr2.children = tr.children /\ tr2.parent = tr.parent
           /\ \A n \in Node : tr.rooted[n] => tr2.rooted[n]
           /\ \A u \in Thread : u # t => tr2.cell[u] = tr.cell[u]
           /\ tr2.cell[t] = d
<1> DEFINE tr2 == create_dummy(tr, t, d)
           ro == [tr.rooted EXCEPT ![d] = TRUE]
           ce == [tr.cell EXCEPT ![t] = d]
<1>1. /\ tr.parent \in [Node -> Node \cup {None}] /\ tr.children \in [Node -> Seq(Item)]
      /\ tr.rooted \in [Node -> BOOLEAN] /\ tr.cell \in [Thread -> Node \cup {None}]
      /\ tr = [parent |-> tr.parent, children |-> tr.children, rooted |-> tr.rooted, cell |-> tr.cell]
  BY TreeFields
<1>2. tr2 = [parent |-> tr.parent, children |-> tr.children, rooted |-> ro, cell |-> ce]
  BY <1>1 DEF create_dummy, Tree
<1>3. tr2.parent = tr.parent /\ tr2.children = tr.children /\ tr2.rooted = ro /\ tr2.cell = ce
  BY <1>2
<1> HIDE DEF tr2
<1>4. tr2.cell \in [Thread -> Node \cup {None}] /\ tr2.cell[t] = d /\ \A u \in Thread : u # t => tr2.cell[u] = tr.cell[u]
  BY <1>1, <1>3
<1>5. tr2.rooted \in [Node -> BOOLEAN]
  BY <1>1, <1>3
<1>6. \A n \in Node : tr.rooted[n] => tr2.rooted[n]
  BY <1>1, <1>3
<1>7. tr2 \in Tree
  BY <1>1, <1>2, <1>3, <1>4, <1>5 DEF Tree
<1> QED
  BY <1>3, <1>4, <1>6, <1>7 DEF tr2

\* An idle thread takes a call that waits in the pool.
LEMMA TakeStep ==
    ASSUME IInv, NEW t \in Thread, Take(t)
    PROVE  IInv'
<1> DEFINE i == Head(queue)
           f == Call(i, Dummy(i))
<1>1. /\ TypeOK /\ ~threw /\ Shape(state, stack) /\ TreeInv(tree, state, stack, runs) /\ CallInv /\ BranchInv
      /\ policy \in {"QUASI_HORIZONTAL", "WORK_STEALING"}
  BY Parts
<1>2. /\ stack[t] = <<>> /\ queue # <<>> /\ stack' = [stack EXCEPT ![t] = <<f>>]
      /\ runs' = [runs EXCEPT ![i] = @ + 1] /\ queue' = Tail(queue)
      /\ tree' = IF Branches[i] = <<>> THEN tree ELSE create_dummy(tree, t, Dummy(i))
      /\ policy' = policy /\ style' = style /\ state' = state /\ cached' = cached /\ threw' = threw
  BY DEF Take
<1>3. /\ stack \in [Thread -> Seq(Frame)] /\ cached \in [Item -> SUBSET BOOLEAN] /\ tree \in Tree
      /\ runs \in [Item -> Nat] /\ queue \in Seq(Item) /\ state \in [Item -> node_state]
      /\ Waiting(runs, state, queue)
  BY <1>1, CallParts DEF TypeOK
<1>4. /\ i \in Item /\ 1 \in DOMAIN queue /\ queue[1] = i /\ Tail(queue) \in Seq(Item)
      /\ \A c : c \in Range(queue) => c = i \/ c \in Range(Tail(queue))
  <2>1. /\ Len(queue) \in Nat /\ Len(queue) >= 1 /\ DOMAIN queue = 1 .. Len(queue) /\ queue[1] = i
        /\ i \in Item /\ Tail(queue) \in Seq(Item) /\ DOMAIN Tail(queue) = 1 .. Len(queue) - 1
        /\ \A x \in 1 .. Len(queue) - 1 : Tail(queue)[x] = queue[x + 1]
    BY <1>2, <1>3
  <2>2. ASSUME NEW c, c \in Range(queue), c # i PROVE c \in Range(Tail(queue))
    <3>1. PICK x \in DOMAIN queue : queue[x] = c
      BY <2>2 DEF Range
    <3> DEFINE y == x - 1
    <3>2. y \in 1 .. Len(queue) - 1 /\ y + 1 = x
      BY <3>1, <2>1, <2>2
    <3> HIDE DEF y
    <3>3. Tail(queue)[y] = c /\ y \in DOMAIN Tail(queue)
      BY <3>1, <3>2, <2>1
    <3> QED
      BY <3>3 DEF Range
  <2>3. 1 \in DOMAIN queue
    BY <2>1
  <2> QED
    BY <2>1, <2>2, <2>3
<1> HIDE DEF i
<1>5. runs[i] = 0 /\ state[i] = IF i = Seed THEN "UNUSED" ELSE "PUSHED"
  BY <1>3, <1>4 DEF Waiting
<1>6. /\ f \in Frame /\ f.item = i /\ f.anchor = Dummy(i) /\ f.made = 0 /\ f.next = 1 /\ f.at = "user"
  <2> DEFINE d == Dummy(i)
  <2>1. d \in Node
    BY <1>4, Nodes
  <2>2. f = Call(i, d)
    OBVIOUS
  <2> HIDE DEF d, f
  <2>3. /\ f \in Frame /\ f.item = i /\ f.anchor = d /\ f.made = 0 /\ f.next = 1 /\ f.at = "user"
    BY <2>1, <2>2, <1>4, CallFields
  <2> QED
    BY <2>3 DEF d
<1> HIDE DEF f
<1>7. Replaced(stack, stack', t, Len(stack[t]) + 1, f) /\ Len(stack[t]) = 0
  <2>1. stack' = [stack EXCEPT ![t] = Append(stack[t], f)]
    BY <1>2, <1>6
  <2>2. Len(stack[t]) = 0
    BY <1>2
  <2> QED
    BY <2>1, <2>2, <1>3, <1>6, PushReplaces
<1>8. runs'[i] = 1 /\ \A c \in Item : c # i => runs'[c] = runs[c]
  BY <1>2, <1>3, <1>4, <1>5
<1>9. Advance(runs, state, cached, queue, runs', state, cached', queue')
  <2> SUFFICES ASSUME NEW c \in Item, Settled(runs, state, cached, queue, c)
               PROVE  Settled(runs', state, cached', queue', c)
    BY DEF Advance
  <2>1. CASE c = i
    BY <2>1, <1>8 DEF Settled
  <2>2. CASE c # i
    BY <2>2, <1>2, <1>4, <1>8 DEF Settled
  <2> QED
    BY <2>1, <2>2
<1>10. Waiting(runs', state, queue')
  BY <1>2, <1>3, <1>8, WaitingTail DEF i
<1>11. /\ StackInv' /\ CallInv' /\ BranchInv' /\ Shape(state', stack')
       /\ runs' \in [Item -> Nat] /\ runs'[f.item] = 1 /\ \A k \in Item : runs[k] = 1 => runs'[k] = 1
  <2> DEFINE m == Len(stack[t])
  <2>1. m = 0 /\ f.anchor = IF m = 0 THEN Dummy(f.item) ELSE f.item
    BY <1>6, <1>7
  <2>2. runs[f.item] = 0 /\ runs' = [runs EXCEPT ![f.item] = @ + 1]
    BY <1>2, <1>5, <1>6
  <2>3. /\ state[f.item] \notin {"DISCARDED", "SENT_TO_ANOTHER_PROCESS"}
        /\ m = 0 => state[f.item] # "UNUSED" \/ f.item = Seed
    BY <1>5, <1>6
  <2>4. Replaced(stack, stack', t, m + 1, f) /\ m = Len(stack[t])
    BY <1>7
  <2>5. m > 0 => /\ stack[t][m].next \in 1 .. Len(Branches[stack[t][m].item])
                 /\ stack[t][m].next <= stack[t][m].made
                 /\ f.item = NextOf(stack[t][m]) /\ state[f.item] = "UNUSED"
    BY <2>1
  <2> HIDE DEF m
  <2> QED
    BY <2>1, <2>2, <2>3, <2>4, <2>5, <1>2, <1>6, <1>9, <1>10, PushStep
<1>12. Received(tree, tree', stack, t, f.item)
  <2>1. CASE Branches[i] = <<>>
    BY <2>1, <1>2, <1>3, <1>6 DEF Received
  <2>2. CASE policy = "WORK_STEALING"
    <3>1. tree' = tree
      BY <2>2, <1>2 DEF create_dummy
    <3> QED
      BY <2>2, <3>1, <1>3 DEF Received
  <2>3. CASE policy # "WORK_STEALING" /\ Branches[i] # <<>>
    <3> DEFINE d == Dummy(i)
    <3>1. d \in Node /\ tree' = create_dummy(tree, t, d)
      BY <2>3, <1>2, <1>4, Nodes
    <3>2. d = Dummy(f.item)
      BY <1>6
    <3> HIDE DEF d
    <3>3. /\ tree' \in Tree /\ tree'.children = tree.children /\ tree'.parent = tree.parent
          /\ \A n \in Node : tree.rooted[n] => tree'.rooted[n]
          /\ \A u \in Thread : u # t => tree'.cell[u] = tree.cell[u]
          /\ tree'.cell[t] = d
      BY <2>3, <3>1, <1>3, DummyFields
    <3> QED
      BY <3>2, <3>3, <1>2 DEF Received
  <2> QED
    BY <2>1, <2>2, <2>3
<1>13. Recorded(runs, runs', f.item)
  BY <1>5, <1>6, <1>11 DEF Recorded
<1>14. TreeInv(tree', state, stack', runs')
  <2>1. Shape(state, stack')
    BY <1>2, <1>11
  <2> QED
    BY <2>1, <1>1, <1>6, <1>7, <1>12, <1>13, PushKeeps
<1>15. TreeInv(tree, state, stack, runs)'
  BY <1>2, <1>14, TreePartsNext
<1>16. stack' \in [Thread -> Seq(Frame)] /\ tree' \in Tree /\ queue' \in Seq(Item)
  BY <1>2, <1>4, <1>7, <1>14 DEF Replaced, TreeInv
<1>17. TypeOK'
  BY <1>1, <1>2, <1>3, <1>11, <1>16, TypesStay DEF TypeOK
<1>18. ~threw'
  BY <1>1, <1>2
<1> QED
  BY <1>11, <1>15, <1>17, <1>18, PartsNext

\* A waiting node that was not run is given away, or found not worthy.
LEMMA DelegateFacts ==
    ASSUME TypeOK, Waiting(runs, state, queue), NEW n \in Item, NEW how \in {"remote", "local"},
           Delegate(n, how), state[n] = "UNUSED", n # Seed, runs[n] = 0
    PROVE  /\ state' \in [Item -> node_state] /\ state'[n] # "UNUSED" /\ OnlyAt(state, state', n)
           /\ cached' \in [Item -> SUBSET BOOLEAN] /\ queue' \in Seq(Item)
           /\ Settled(runs, state', cached', queue', n)
           /\ Advance(runs, state, cached, queue, runs, state', cached', queue')
           /\ Waiting(runs, state', queue')
<1>1. /\ cached \in [Item -> SUBSET BOOLEAN] /\ queue \in Seq(Item) /\ state \in [Item -> node_state]
  BY DEF TypeOK
<1>2. PICK worthy \in cached[n] :
        /\ cached' = [cached EXCEPT ![n] = {worthy}]
        /\ state' = [state EXCEPT ![n] = IF worthy THEN delegated_state(n, how) ELSE "DISCARDED"]
        /\ queue' = IF worthy /\ how = "local" THEN Append(queue, n) ELSE queue
  BY DEF Delegate
<1>3. worthy \in BOOLEAN
  BY <1>1
<1> DEFINE s == IF worthy THEN delegated_state(n, how) ELSE "DISCARDED"
<1>4. /\ s \in node_state /\ s # "UNUSED" /\ (worthy /\ how = "local" => s = "PUSHED")
      /\ (worthy /\ how # "local" => s = "SENT_TO_ANOTHER_PROCESS")
  BY <1>3 DEF delegated_state, node_state
<1>5. state' = [state EXCEPT ![n] = s]
  BY <1>2
<1> HIDE DEF s
<1>6. state' \in [Item -> node_state] /\ state'[n] = s /\ \A c \in Item : c # n => state'[c] = state[c]
  BY <1>1, <1>4, <1>5
<1>7. /\ cached' \in [Item -> SUBSET BOOLEAN] /\ cached'[n] = {worthy}
      /\ \A c \in Item : c # n => cached'[c] = cached[c]
  BY <1>1, <1>2, <1>3
<1>8. OnlyAt(state, state', n)
  BY <1>6 DEF OnlyAt
<1>9. CASE worthy /\ how = "local"
  <2>1. queue' = Append(queue, n)
    BY <1>2, <1>9
  <2>2. /\ queue' \in Seq(Item) /\ Len(queue) \in Nat /\ DOMAIN queue = 1 .. Len(queue)
        /\ DOMAIN queue' = 1 .. Len(queue) + 1 /\ queue'[Len(queue) + 1] = n
        /\ \A x \in 1 .. Len(queue) : queue'[x] = queue[x]
    BY <2>1, <1>1
  <2>3. n \in Range(queue')
    <3>1. Len(queue) + 1 \in DOMAIN queue'
      BY <2>2
    <3> QED
      BY <3>1, <2>2 DEF Range
  <2>4. \A c : c \in Range(queue) => c \in Range(queue')
    <3> SUFFICES ASSUME NEW c, c \in Range(queue) PROVE c \in Range(queue')
      OBVIOUS
    <3>1. PICK x \in DOMAIN queue : queue[x] = c
      BY DEF Range
    <3>2. x \in DOMAIN queue' /\ queue'[x] = c
      BY <3>1, <2>2
    <3> QED
      BY <3>2 DEF Range
  <2>5. Settled(runs, state', cached', queue', n)
    BY <2>3 DEF Settled
  <2>6. Advance(runs, state, cached, queue, runs, state', cached', queue')
    <3> SUFFICES ASSUME NEW c \in Item, Settled(runs, state, cached, queue, c)
                 PROVE  Settled(runs, state', cached', queue', c)
      BY DEF Advance
    <3>1. CASE c = n
      BY <3>1, <2>5
    <3>2. CASE c # n
      BY <3>2, <2>4, <1>6, <1>7 DEF Settled
    <3> QED
      BY <3>1, <3>2
  <2>7. Waiting(runs, state', queue')
    <3>1. state'[n] = "PUSHED"
      BY <1>4, <1>6, <1>9
    <3>2. Waiting(runs, state', Append(queue, n))
      BY <3>1, <1>1, <1>6, WaitingAppend
    <3> QED
      BY <3>2, <2>1
  <2> QED
    BY <2>2, <2>5, <2>6, <2>7, <1>4, <1>6, <1>7, <1>8
<1>10. CASE ~(worthy /\ how = "local")
  <2>1. queue' = queue
    BY <1>2, <1>10
  <2>2. Settled(runs, state', cached', queue', n)
    <3>1. CASE worthy
      BY <3>1, <1>4, <1>6, <1>10 DEF Settled
    <3>2. CASE ~worthy
      <4>1. {worthy} = {FALSE}
        BY <3>2, <1>3
      <4> QED
        BY <4>1, <1>7 DEF Settled
    <3> QED
      BY <3>1, <3>2
  <2>3. Advance(runs, state, cached, queue, runs, state', cached', queue')
    <3> SUFFICES ASSUME NEW c \in Item, Settled(runs, state, cached, queue, c)
                 PROVE  Settled(runs, state', cached', queue', c)
      BY DEF Advance
    <3>1. CASE c = n
      BY <3>1, <2>2
    <3>2. CASE c # n
      BY <3>2, <2>1, <1>6, <1>7 DEF Settled
    <3> QED
      BY <3>1, <3>2
  <2>4. Waiting(runs, state', queue')
    <3>1. \A c \in Item : state'[c] # state[c] => state[c] = "UNUSED" /\ c # Seed
      BY <1>6
    <3>2. Waiting(runs, state', queue)
      BY <3>1, <1>1, WaitingSame
    <3> QED
      BY <3>2, <2>1
  <2>5. queue' \in Seq(Item)
    BY <2>1, <1>1
  <2> QED
    BY <2>2, <2>3, <2>4, <2>5, <1>4, <1>6, <1>7, <1>8
<1> QED
  BY <1>9, <1>10

\* A waiting branch that is not the one its call runs was not run.
LEMMA NotRunYet ==
    ASSUME NEW st, NEW stk, Shape(st, stk), NEW rn, NEW ca, NEW qu, AllBranched(rn, st, ca, qu, stk),
           NEW t \in Thread, NEW m \in 1 .. Len(stk[t]), NEW c, c \in Kids(st, stk[t][m]),
           m = Len(stk[t]) \/ c # NextOf(stk[t][m])
    PROVE  rn[c] = 0
<1> DEFINE g == stk[t][m]
<1>1. g \in Frame /\ g.item \in Item /\ m \in DOMAIN stk[t] /\ g.next \in Nat
  BY Frames
<1>2. PICK j \in DOMAIN Branches[g.item] : g.next <= j /\ j <= g.made /\ c = Branches[g.item][j]
  BY DEF Kids
<1>3. st[c] = "UNUSED"
  BY <1>1, KidsOf
<1>4. j \in 1 .. Len(Branches[g.item]) /\ Len(Branches[g.item]) \in Nat
  BY <1>1, <1>2, BranchesOf
<1>5. j >= g.next /\ (m = Len(stk[t]) \/ j # g.next)
  BY <1>1, <1>2, <1>4 DEF NextOf
<1>6. Branched(rn, st, ca, qu, stk, t, m)
  BY <1>1 DEF AllBranched
<1> QED
  BY <1>2, <1>3, <1>5, <1>6 DEF Branched

\* A branch that is submitted has a parent, or is the root that its thread holds.
LEMMA NotOrphaned ==
    ASSUME IInv, NEW t \in Thread, NEW n, NEW e, NEW p, Submits(t, n, e, p), state[p] = "UNUSED"
    PROVE  ~orphaned(tree, t, p)
<1>1. Hung(tree, state, stack) /\ TreeInv(tree, state, stack, runs)
  BY Parts DEF TreeInv
<1>2. n \in DOMAIN stack[t] /\ e = stack[t][n] /\ n = Len(stack[t]) /\ p \in Kids(state, e) /\ e \in Frame
  BY DEF Submits
<1>3. CASE Linked(tree, state, e)
  <2>1. tree.parent[p] = e.anchor /\ e.anchor \in Node
    BY <1>2, <1>3 DEF Linked, Frame
  <2> QED
    BY <2>1, Nodes DEF orphaned
<1>4. CASE policy = "QUASI_HORIZONTAL" => HeldRoot(tree, state, t, e)
  <2>1. policy = "QUASI_HORIZONTAL" => tree.cell[t] = p /\ tree.rooted[p]
    BY <1>2, <1>4 DEF HeldRoot
  <2> QED
    BY <2>1 DEF orphaned, get_root
<1> QED
  BY <1>1, <1>2, <1>3, <1>4 DEF Hung

\* The node that is given away before the current one waits in an outer call, and is not the
\* one that runs.
LEMMA RootPending ==
    ASSUME IInv, NEW t \in Thread, NEW n, NEW e, NEW p, Submits(t, n, e, p),
           NEW top, top = root_level_pending(tree, t, p), top # None
    PROVE  /\ policy = "QUASI_HORIZONTAL"
           /\ \E m \in 1 .. Len(stack[t]) : m < n /\ top \in Kids(state, stack[t][m]) /\ top # NextOf(stack[t][m])
<1> DEFINE r == get_root(tree, t, p)
<1>1. /\ policy = "QUASI_HORIZONTAL" /\ tree.parent[p] # None /\ tree.parent[p] # r /\ r # None
      /\ ~(Len(tree.children[r]) < 2) /\ top = tree.children[r][2]
  BY DEF root_level_pending
<1>2. r = tree.cell[t]
  BY <1>1 DEF get_root
<1> HIDE DEF r
<1>3. /\ Shape(state, stack) /\ tree \in Tree /\ Hung(tree, state, stack) /\ Anchored(tree, stack)
      /\ Home(tree, runs, stack)
  BY Parts DEF TreeInv
<1>4. r \in Node /\ tree.children[r] \in Seq(Item)
  <2>1. tree.cell \in [Thread -> Node \cup {None}] /\ tree.children \in [Node -> Seq(Item)]
    BY <1>3, TreeFields
  <2> QED
    BY <2>1, <1>1, <1>2
<1>5. /\ Len(tree.children[r]) \in Nat /\ Len(tree.children[r]) >= 2 /\ 1 \in DOMAIN tree.children[r]
      /\ 2 \in DOMAIN tree.children[r] /\ tree.children[r] # <<>>
  BY <1>1, <1>4
<1>6. PICK m \in 1 .. Len(stack[t]) : r = stack[t][m].anchor /\ Linked(tree, state, stack[t][m])
  <2>1. tree.cell[t] # None /\ tree.children[tree.cell[t]] # <<>>
    BY <1>1, <1>2, <1>5
  <2>2. \E m \in 1 .. Len(stack[t]) : tree.cell[t] = stack[t][m].anchor /\ Linked(tree, state, stack[t][m])
    BY <2>1, <1>3, RootIsOwn
  <2> QED
    BY <2>2, <1>2
<1>7. /\ n \in 1 .. Len(stack[t]) /\ n = Len(stack[t]) /\ n \in Nat /\ e = stack[t][n]
      /\ p \in Range(Branches[stack[t][n].item])
  BY DEF Submits
<1>8. tree.parent[p] = stack[t][n].anchor
  BY <1>1, <1>3, <1>7, ParentOf
<1>9. m < n
  BY <1>1, <1>6, <1>7, <1>8
<1> DEFINE g == stack[t][m]
<1>10. g \in Frame /\ g.item \in Item /\ g.next \in Nat /\ g.next >= 1
  BY <1>3, Frames
<1>11. top \in Kids(state, g) /\ tree.children[r][1] \in Kids(state, g) /\ Ascending(tree.children[r], g.item)
  <2>1. /\ Range(tree.children[r]) = Kids(state, g) /\ Ascending(tree.children[r], g.item)
    BY <1>6 DEF Linked
  <2>2. top \in Range(tree.children[r]) /\ tree.children[r][1] \in Range(tree.children[r])
    BY <1>1, <1>5 DEF Range
  <2> QED
    BY <2>1, <2>2
<1>12. top # NextOf(g)
  <2> SUFFICES ASSUME top = NextOf(g) PROVE FALSE
    OBVIOUS
  <2>1. PICK j \in DOMAIN Branches[g.item] : g.next <= j /\ j <= g.made /\ tree.children[r][1] = Branches[g.item][j]
    BY <1>11 DEF Kids
  <2>2. PICK k \in DOMAIN Branches[g.item] : g.next <= k /\ k <= g.made /\ top = Branches[g.item][k]
    BY <1>11 DEF Kids
  <2>3. j \in 1 .. Len(Branches[g.item]) /\ k \in 1 .. Len(Branches[g.item]) /\ Len(Branches[g.item]) \in Nat
    BY <1>10, BranchesOf
  <2>4. j < k
    <3>1. tree.children[r][2] = Branches[g.item][k] /\ 1 < 2
      BY <2>2, <1>1
    <3> HIDE DEF g
    <3> QED
      BY <2>1, <3>1, <1>5, <1>11 DEF Ascending
  <2>5. g.next \in 1 .. Len(Branches[g.item])
    BY <2>1, <2>3, <1>10
  <2>6. k = g.next
    <3>1. Branches[g.item][k] = Branches[g.item][g.next]
      BY <2>2 DEF NextOf
    <3> DEFINE a == g.next
               b == g.item
    <3>2. Branches[b][k] = Branches[b][a] /\ k \in 1 .. Len(Branches[b]) /\ a \in 1 .. Len(Branches[b]) /\ b \in Item
      BY <3>1, <2>3, <2>5, <1>10
    <3> HIDE DEF a, b
    <3>3. k = a
      BY <3>2, BranchesOf
    <3> QED
      BY <3>3 DEF a
  <2> QED
    BY <2>1, <2>3, <2>4, <2>6, <1>10
<1> QED
  BY <1>1, <1>9, <1>11, <1>12

\* The current node is given away.
LEMMA SendCurrentStep ==
    ASSUME IInv, NEW t \in Thread, NEW how \in {"remote", "local"}, Submitting(t, how),
           tree' = prune_and_fix_parent_root_if_needed(tree, t, Current(t)),
           Delegate(Current(t), how), GoOn(t, Submitted(Top(t))),
           policy' = policy, style' = style, runs' = runs, threw' = threw
    PROVE  IInv'
<1> DEFINE n == Len(stack[t])
           e == Top(t)
           p == Current(t)
           f == Submitted(e)
<1>1. /\ TypeOK /\ ~threw /\ Shape(state, stack) /\ TreeInv(tree, state, stack, runs)
      /\ CallInv /\ BranchInv /\ policy \in {"QUASI_HORIZONTAL", "WORK_STEALING"}
  BY Parts
<1>2. /\ tree' = prune_and_fix_parent_root_if_needed(tree, t, p) /\ Delegate(p, how) /\ GoOn(t, f)
  OBVIOUS
<1>3. Submits(t, n, e, p) /\ state[p] = "UNUSED"
  BY SubmitFacts
<1>4. /\ e \in Frame /\ stack[t] # <<>> /\ n = Len(stack[t]) /\ n \in 1 .. Len(stack[t]) /\ e = stack[t][n] /\ n \in Nat
      /\ p \in Range(Branches[e.item]) /\ p \in Item /\ p # Seed /\ p = NextOf(e) /\ e.next <= Len(Branches[e.item])
      /\ e.next \in Nat /\ e.made \in Nat /\ e.next <= e.made /\ e.made <= Len(Branches[e.item])
      /\ IF style = "late" THEN e.made <= e.next ELSE e.made \in {0, Len(Branches[e.item])}
      /\ e.item \in Item /\ n \in DOMAIN stack[t] /\ p \in Kids(state, e)
  BY <1>3, BranchesOf DEF Submits, Submitting
<1>5. /\ f \in Frame /\ f.item = e.item /\ f.anchor = e.anchor /\ f.made = e.made /\ f.next = e.next + 1
      /\ f.at = "user"
  BY <1>4, SubmittedFields
<1> HIDE DEF f
<1>6. /\ stack \in [Thread -> Seq(Frame)] /\ tree \in Tree
      /\ Waiting(runs, state, queue) /\ AllBranched(runs, state, cached, queue, stack)
  BY <1>1, CallParts DEF TypeOK
<1>7. Replaced(stack, stack', t, n, f)
  BY <1>2, <1>4, <1>5, <1>6, GoOnReplaces
<1> HIDE DEF n, e, p
<1>8. runs[p] = 0
  BY <1>1, <1>4, <1>6, NotRunYet
<1>9. /\ state' \in [Item -> node_state] /\ state'[p] # "UNUSED" /\ OnlyAt(state, state', p)
      /\ cached' \in [Item -> SUBSET BOOLEAN] /\ queue' \in Seq(Item)
      /\ Settled(runs, state', cached', queue', p)
      /\ Advance(runs, state, cached, queue, runs, state', cached', queue')
      /\ Waiting(runs, state', queue')
  BY <1>1, <1>2, <1>3, <1>4, <1>6, <1>8, DelegateFacts
<1>10. Handed(state, runs, state', cached', queue', stack, t)
  <2> SUFFICES ASSUME NEW c \in Item, state'[c] # state[c]
               PROVE  /\ state'[c] # "UNUSED" /\ Settled(runs, state', cached', queue', c)
                      /\ \E k \in 1 .. Len(stack[t]) : c \in Kids(state, stack[t][k])
    BY DEF Handed
  <2>1. c = p
    BY <1>9 DEF OnlyAt
  <2> QED
    BY <2>1, <1>4, <1>9
<1>11. StackInv' /\ CallInv' /\ BranchInv' /\ Shape(state', stack') /\ Running(runs', stack')
  <2>1. /\ f.made >= e.made /\ f.made <= Len(Branches[f.item]) /\ f.next <= f.made + 1
        /\ IF style = "late" THEN f.made <= f.next ELSE f.made \in {0, Len(Branches[f.item])}
        /\ f.at # "user" => f.next <= f.made /\ state'[NextOf(f)] = "UNUSED"
    BY <1>4, <1>5
  <2>2. \/ f.next = e.next /\ n = Len(stack[t])
        \/ f.next = e.next + 1 /\ Settled(runs, state', cached', queue', NextOf(e))
    BY <1>4, <1>5, <1>9
  <2>3. n \in 1 .. n /\ (n < n => p # NextOf(stack[t][n])) /\ p \in Range(Branches[stack[t][n].item])
    BY <1>4
  <2>4. state'[p] # state[p] /\ runs[p] = 1 => state'[p] \notin {"DISCARDED", "SENT_TO_ANOTHER_PROCESS"}
    BY <1>8
  <2>5. \A k \in n + 1 .. Len(stack[t]) : \A c \in Range(Branches[stack[t][k].item]) :
              Settled(runs, state, cached, queue, c)
    BY <1>4
  <2>6. e = stack[t][n]
    BY <1>4
  <2> QED
    BY <2>1, <2>2, <2>3, <2>4, <2>5, <2>6, <1>4, <1>5, <1>7, <1>9, <1>10, GoOnStep
<1>12. Fewer(state, stack, state', stack', t, n, p)
  BY <1>1, <1>4, <1>5, <1>7, <1>9, FewerNext
<1>13. tree.children[p] = <<>>
  <2>1. Anchored(tree, stack)
    BY <1>1 DEF TreeInv
  <2>2. n < Len(stack[t]) => p # stack[t][n + 1].item
    BY <1>4
  <2>3. p \in Range(Branches[stack[t][n].item])
    BY <1>4
  <2>4. n \in 1 .. Len(stack[t]) /\ Shape(state, stack) /\ tree \in Tree
    BY <1>1, <1>4, <1>6
  <2> QED
    BY <2>1, <2>2, <2>3, <2>4, NotAnchor
<1>14. Running(runs, stack')
  BY <1>11
<1>15. TreeInv(prune_and_fix_parent_root_if_needed(tree, t, p), state', stack', runs)
  BY <1>1, <1>11, <1>12, <1>13, <1>14, FixKeeps
<1>16. TreeInv(tree', state', stack', runs')
  BY <1>2, <1>15
<1>17. TreeInv(tree, state, stack, runs)'
  BY <1>16, TreePartsNext
<1>18. stack' \in [Thread -> Seq(Frame)] /\ tree' \in Tree
  BY <1>7, <1>16 DEF Replaced, TreeInv
<1>19. TypeOK'
  BY <1>1, <1>9, <1>18, TypesStay DEF TypeOK
<1>20. ~threw'
  BY <1>1
<1> QED
  BY <1>11, <1>17, <1>19, <1>20, PartsNext

\* A node of the root's level is given away before the current one.
LEMMA SendRootLevelStep ==
    ASSUME IInv, NEW t \in Thread, NEW how \in {"remote", "local"}, Submitting(t, how),
           NEW top, top = root_level_pending(tree, t, Current(t)), top # None,
           tree' = try_correct_root(prune(tree, top), t, Current(t)),
           Delegate(top, how), GoOn(t, [Top(t) EXCEPT !.at = how]),
           policy' = policy, style' = style, runs' = runs, threw' = threw
    PROVE  IInv'
<1> DEFINE n == Len(stack[t])
           e == Top(t)
           p == Current(t)
           f == [e EXCEPT !.at = how]
<1>1. /\ TypeOK /\ ~threw /\ StackInv /\ Shape(state, stack) /\ TreeInv(tree, state, stack, runs)
      /\ CallInv /\ BranchInv
  BY Parts
<1>2. /\ tree' = try_correct_root(prune(tree, top), t, p) /\ GoOn(t, f) /\ top = root_level_pending(tree, t, p)
  OBVIOUS
<1>3. Submits(t, n, e, p) /\ state[p] = "UNUSED"
  BY SubmitFacts
<1>4. /\ e \in Frame /\ stack[t] # <<>> /\ n = Len(stack[t]) /\ n \in 1 .. Len(stack[t]) /\ e = stack[t][n] /\ n \in Nat /\ n >= 1
      /\ p \in Range(Branches[e.item]) /\ p \in Item /\ p = NextOf(e)
      /\ e.next \in Nat /\ e.made \in Nat /\ e.next <= e.made /\ e.made <= Len(Branches[e.item])
      /\ IF style = "late" THEN e.made <= e.next ELSE e.made \in {0, Len(Branches[e.item])}
      /\ e.item \in Item /\ n \in DOMAIN stack[t]
  BY <1>3, BranchesOf DEF Submits, Submitting
<1>5. /\ f \in Frame /\ f.item = e.item /\ f.anchor = e.anchor /\ f.made = e.made /\ f.next = e.next
  <2>1. e \in Frame /\ how \in {"user", "remote", "local", "forward"}
    BY <1>4
  <2>2. f = [e EXCEPT !.at = how]
    OBVIOUS
  <2> HIDE DEF e, f
  <2> QED
    BY <2>1, <2>2, AtFields
<1> HIDE DEF f
<1>6. /\ stack \in [Thread -> Seq(Frame)] /\ tree \in Tree
      /\ Waiting(runs, state, queue) /\ AllBranched(runs, state, cached, queue, stack)
  BY <1>1, CallParts DEF TypeOK
<1>7. Replaced(stack, stack', t, n, f)
  BY <1>2, <1>4, <1>5, <1>6, GoOnReplaces
<1> HIDE DEF n, e, p
<1>8. policy = "QUASI_HORIZONTAL"
  BY <1>2, <1>3, RootPending
<1>9. PICK m \in 1 .. Len(stack[t]) : m < n /\ top \in Kids(state, stack[t][m]) /\ top # NextOf(stack[t][m])
  BY <1>2, <1>3, RootPending
<1> DEFINE g == stack[t][m]
<1>10. /\ g \in Frame /\ g.item \in Item /\ m \in DOMAIN stack[t] /\ m \in Nat /\ m \in 1 .. n /\ m # n
  BY <1>1, <1>4, <1>9, Frames
<1>11. top \in Item /\ state[top] = "UNUSED" /\ top \in Range(Branches[g.item]) /\ top # Seed
  <2>1. top \in Item /\ state[top] = "UNUSED" /\ top \in Range(Branches[g.item])
    BY <1>9, <1>10, KidsOf
  <2> QED
    BY <2>1, <1>10, NoSeed
<1>12. runs[top] = 0
  BY <1>1, <1>6, <1>9, NotRunYet
<1>13. /\ state' \in [Item -> node_state] /\ state'[top] # "UNUSED" /\ OnlyAt(state, state', top)
       /\ cached' \in [Item -> SUBSET BOOLEAN] /\ queue' \in Seq(Item)
       /\ Settled(runs, state', cached', queue', top)
       /\ Advance(runs, state, cached, queue, runs, state', cached', queue')
       /\ Waiting(runs, state', queue')
  BY <1>1, <1>6, <1>11, <1>12, DelegateFacts
<1>14. Handed(state, runs, state', cached', queue', stack, t)
  <2> SUFFICES ASSUME NEW c \in Item, state'[c] # state[c]
               PROVE  /\ state'[c] # "UNUSED" /\ Settled(runs, state', cached', queue', c)
                      /\ \E k \in 1 .. Len(stack[t]) : c \in Kids(state, stack[t][k])
    BY DEF Handed
  <2>1. c = top
    BY <1>13 DEF OnlyAt
  <2> QED
    BY <2>1, <1>9, <1>13
<1>15. p # top
  <2> SUFFICES ASSUME p = top PROVE FALSE
    OBVIOUS
  <2>1. top \in Range(Branches[stack[t][n].item]) /\ top \in Range(Branches[stack[t][m].item])
    BY <1>4, <1>11
  <2>3. n \in 1 .. Len(stack[t]) /\ m \in 1 .. Len(stack[t]) /\ Shape(state, stack)
    BY <1>1, <1>4
  <2>2. n = m
    BY <2>1, <2>3, OneCall
  <2> QED
    BY <2>2, <1>10
<1>16. state'[p] = "UNUSED"
  BY <1>3, <1>4, <1>13, <1>15 DEF OnlyAt
<1>17. StackInv' /\ CallInv' /\ BranchInv' /\ Shape(state', stack') /\ Running(runs', stack')
  <2>1. /\ f.made >= e.made /\ f.made <= Len(Branches[f.item]) /\ f.next <= f.made + 1
        /\ IF style = "late" THEN f.made <= f.next ELSE f.made \in {0, Len(Branches[f.item])}
    BY <1>4, <1>5
  <2>2. f.at # "user" => f.next <= f.made /\ state'[NextOf(f)] = "UNUSED"
    BY <1>4, <1>5, <1>16 DEF NextOf
  <2>3. \/ f.next = e.next /\ n = Len(stack[t])
        \/ f.next = e.next + 1 /\ Settled(runs, state', cached', queue', NextOf(e))
    BY <1>4, <1>5
  <2>4. (m < n => top # NextOf(stack[t][m])) /\ top \in Range(Branches[stack[t][m].item])
    BY <1>9, <1>11
  <2>5. state'[top] # state[top] /\ runs[top] = 1 => state'[top] \notin {"DISCARDED", "SENT_TO_ANOTHER_PROCESS"}
    BY <1>12
  <2>6. \A k \in n + 1 .. Len(stack[t]) : \A c \in Range(Branches[stack[t][k].item]) :
              Settled(runs, state, cached, queue, c)
    BY <1>4
  <2> HIDE DEF g
  <2> QED
    BY <2>1, <2>2, <2>3, <2>4, <2>5, <2>6, <1>4, <1>5, <1>7, <1>10, <1>13, <1>14, GoOnStep
<1>18. Fewer(state, stack, state', stack', t, m, top)
  <2>1. /\ f.item = stack[t][n].item /\ f.anchor = stack[t][n].anchor /\ f.made = stack[t][n].made
        /\ f.next = stack[t][n].next /\ top \in Range(Branches[stack[t][m].item])
    BY <1>4, <1>5, <1>11
  <2> QED
    BY <2>1, <1>1, <1>4, <1>5, <1>7, <1>13, FewerOuter
<1>19. tree.children[top] = <<>>
  <2>1. Anchored(tree, stack)
    BY <1>1 DEF TreeInv
  <2>2. m < Len(stack[t]) => top # stack[t][m + 1].item
    <3>1. Placed(style, state, stack[t], m)
      BY <1>1, <1>10 DEF StackInv
    <3>2. m < Len(stack[t]) => stack[t][m + 1].item = NextOf(stack[t][m])
      BY <3>1 DEF Placed, NextOf
    <3> QED
      BY <3>2, <1>9
  <2>3. top \in Range(Branches[stack[t][m].item])
    BY <1>11
  <2> QED
    BY <2>1, <2>2, <2>3, <1>1, <1>6, NotAnchor
<1>20. Running(runs, stack')
  BY <1>17
<1>21. TreeInv(prune(tree, top), state', stack', runs)
  BY <1>1, <1>17, <1>18, <1>19, <1>20, PruneKeeps
<1>22. TreeInv(try_correct_root(prune(tree, top), t, p), state', stack', runs)
  BY <1>8, <1>17, <1>20, <1>21, CorrectKeeps
<1>23. TreeInv(tree', state', stack', runs')
  BY <1>2, <1>22
<1>24. TreeInv(tree, state, stack, runs)'
  BY <1>23, TreePartsNext
<1>25. stack' \in [Thread -> Seq(Frame)] /\ tree' \in Tree
  BY <1>7, <1>23 DEF Replaced, TreeInv
<1>26. TypeOK'
  BY <1>1, <1>13, <1>25, TypesStay DEF TypeOK
<1>27. ~threw'
  BY <1>1
<1> QED
  BY <1>17, <1>24, <1>26, <1>27, PartsNext

\* A round of send throws nothing and keeps the invariant.
LEMMA SendStep ==
    ASSUME IInv, NEW t \in Thread, NEW how \in {"remote", "local"}, Submitting(t, how), Send(t, how)
    PROVE  IInv'
<1> DEFINE p == Current(t)
           top == root_level_pending(tree, t, p)
<1>1. Submits(t, Len(stack[t]), Top(t), p) /\ state[p] = "UNUSED"
  BY SubmitFacts
<1>2. CASE top = None
  <2>1. ~orphaned(tree, t, p)
    <3> HIDE DEF p
    <3> QED
      BY <1>1, NotOrphaned
  <2>2. /\ tree' = prune_and_fix_parent_root_if_needed(tree, t, p) /\ Delegate(p, how)
        /\ GoOn(t, Submitted(Top(t)))
        /\ policy' = policy /\ style' = style /\ runs' = runs /\ threw' = threw
    BY <2>1, <1>1, <1>2 DEF Send
  <2> QED
    BY <2>2, SendCurrentStep
<1>3. CASE top # None
  <2>1. state[top] = "UNUSED"
    <3>1. top = root_level_pending(tree, t, p)
      OBVIOUS
    <3>2. Shape(state, stack)
      BY Parts
    <3> HIDE DEF p, top
    <3>3. PICK m \in 1 .. Len(stack[t]) : top \in Kids(state, stack[t][m])
      BY <1>1, <1>3, <3>1, RootPending
    <3>4. stack[t][m] \in Frame
      BY <3>2, Frames
    <3> QED
      BY <3>3, <3>4, KidsOf
  <2>2. /\ tree' = try_correct_root(prune(tree, top), t, p) /\ Delegate(top, how)
        /\ GoOn(t, [Top(t) EXCEPT !.at = how])
        /\ policy' = policy /\ style' = style /\ runs' = runs /\ threw' = threw
    BY <2>1, <1>3 DEF Send
  <2>3. top = root_level_pending(tree, t, Current(t))
    OBVIOUS
  <2>4. tree' = try_correct_root(prune(tree, top), t, Current(t))
    BY <2>2
  <2> HIDE DEF top, p
  <2> QED
    BY <2>2, <2>3, <2>4, <1>3, SendRootLevelStep
<1> QED
  BY <1>2, <1>3

\* A step that changes nothing.
LEMMA StutterStep ==
    ASSUME IInv, UNCHANGED vars
    PROVE  IInv'
<1>1. /\ TypeOK /\ ~threw /\ StackInv /\ CallInv /\ BranchInv /\ TreeInv(tree, state, stack, runs)
  BY Parts
<1>2. /\ policy' = policy /\ style' = style /\ tree' = tree /\ state' = state /\ cached' = cached
      /\ queue' = queue /\ stack' = stack /\ runs' = runs /\ threw' = threw
  BY DEF vars
<1>3. TypeOK'
  BY <1>1, <1>2, TypesStay DEF TypeOK
<1>4. StackInv'
  BY <1>1, <1>2, StackPartsNext DEF StackInv
<1>5. CallInv' /\ BranchInv'
  BY <1>1, <1>2, CallParts, CallPartsNext
<1>6. TreeInv(tree, state, stack, runs)'
  BY <1>1, <1>2, TreePartsNext
<1> QED
  BY <1>1, <1>2, <1>3, <1>4, <1>5, <1>6, PartsNext

\* Every step of a pool thread keeps the invariant.
LEMMA NextStep ==
    ASSUME IInv, [Next]_vars
    PROVE  IInv'
<1>1. ASSUME NEW t \in Thread, Take(t) PROVE IInv'
  BY <1>1, TakeStep
<1>2. ASSUME NEW t \in Thread, Create(t) PROVE IInv'
  BY <1>2, CreateStep
<1>3. ASSUME NEW t \in Thread, SendRemotely(t) PROVE IInv'
  BY <1>3, SendStep DEF SendRemotely
<1>4. ASSUME NEW t \in Thread, ChannelClosed(t) PROVE IInv'
  BY <1>4, GiveUpStep DEF ChannelClosed
<1>5. ASSUME NEW t \in Thread, SendLocally(t) PROVE IInv'
  BY <1>5, SendStep DEF SendLocally
<1>6. ASSUME NEW t \in Thread, PoolFull(t) PROVE IInv'
  BY <1>6, GiveUpStep DEF PoolFull
<1>7. ASSUME NEW t \in Thread, forward(t) PROVE IInv'
  <2>1. CASE unused(Current(t)) /\ TRUE \in cached[Current(t)] /\ Run(t, Current(t))
    BY <2>1, <1>7, RunStep DEF forward
  <2>2. CASE (~unused(Current(t)) \/ FALSE \in cached[Current(t)]) /\ Skip(t, Current(t))
    BY <2>2, <1>7, SkipStep DEF forward
  <2> QED
    BY <2>1, <2>2, <1>7 DEF forward
<1>8. ASSUME NEW t \in Thread, Return(t) PROVE IInv'
  <2>1. CASE Len(stack[t]) = 1
    BY <2>1, <1>8, ReturnToPool
  <2>2. CASE Len(stack[t]) # 1
    BY <2>2, <1>8, ReturnStep
  <2> QED
    BY <2>1, <2>2
<1>9. CASE UNCHANGED vars
  BY <1>9, StutterStep
<1>10. CASE Finished
  BY <1>10, StutterStep DEF Finished
<1> QED
  BY <1>1, <1>2, <1>3, <1>4, <1>5, <1>6, <1>7, <1>8, <1>9, <1>10 DEF Next, PoolThread

\* A list without repetitions is as long as it has elements.
LEMMA DistinctLength ==
    ASSUME NEW s \in Seq(Item), \A x, y \in DOMAIN s : s[x] = s[y] => x = y
    PROVE  Cardinality(Range(s)) = Len(s)
<1> DEFINE n == Len(s)
           S == Range(s)
<1>1. n \in Nat /\ DOMAIN s = 1 .. n
  OBVIOUS
<1>2. S = {s[x] : x \in 1 .. n}
  BY <1>1 DEF Range
<1>3. s \in [1 .. n -> S]
  BY <1>1, <1>2
<1>4. s \in Bijection(1 .. n, S)
  BY <1>1, <1>2, <1>3 DEF Bijection, Injection, Surjection, IsInjective
<1>5. ExistsBijection(1 .. n, S)
  BY <1>4 DEF ExistsBijection
<1> HIDE DEF n, S
<1>6. Cardinality(S) = n
  BY <1>1, <1>5, FS_CountingElements
<1> QED
  BY <1>6 DEF n, S

-----------------------------------------------------------------------------
(* The theorems *)

\* A runnable has handed the seed to the pool, and nothing else has happened.
LEMMA InitStep ==
    ASSUME Init
    PROVE  IInv
<1>1. /\ tree = [parent |-> [n \in Node |-> None], children |-> [n \in Node |-> <<>>],
                 rooted |-> [n \in Node |-> FALSE], cell |-> [t \in Thread |-> None]]
      /\ state = [i \in Item |-> "UNUSED"] /\ queue = <<Seed>> /\ stack = [t \in Thread |-> <<>>]
      /\ cached = [i \in Item |-> IF i \in Lazy THEN BOOLEAN ELSE {TRUE}]
      /\ runs = [i \in Item |-> 0] /\ threw = FALSE /\ policy \in Policies /\ style \in Styles
  BY DEF Init
<1>2. /\ \A n \in Node : tree.parent[n] = None /\ tree.children[n] = <<>>
      /\ \A t \in Thread : tree.cell[t] = None
  BY <1>1
<1>3. Seed \in Item
  BY ItemAssumption
<1>4. TypeOK
  <2>1. tree \in Tree
    <3>1. [n \in Node |-> None] \in [Node -> Node \cup {None}] /\ [n \in Node |-> <<>>] \in [Node -> Seq(Item)]
      OBVIOUS
    <3>2. [n \in Node |-> FALSE] \in [Node -> BOOLEAN] /\ [t \in Thread |-> None] \in [Thread -> Node \cup {None}]
      OBVIOUS
    <3> QED
      BY <3>1, <3>2, <1>1 DEF Tree
  <2>2. cached \in [Item -> SUBSET BOOLEAN]
    BY <1>1
  <2>3. stack \in [Thread -> Seq(Frame)] /\ state \in [Item -> node_state] /\ runs \in [Item -> Nat]
    BY <1>1 DEF node_state
  <2>4. queue \in Seq(Item) /\ threw \in BOOLEAN
    <3>1. <<Seed>> \in Seq(Item)
      BY <1>3
    <3>2. threw \in BOOLEAN
      BY <1>1
    <3> QED
      BY <3>1, <3>2, <1>1
  <2> QED
    BY <2>1, <2>2, <2>3, <2>4, <1>1 DEF TypeOK
<1>5. \A t \in Thread : stack[t] = <<>> /\ DOMAIN stack[t] = {}
  BY <1>1
<1>6. StackInv /\ BranchInv
  BY <1>5 DEF StackInv, Apart, BranchInv
<1>7. CallInv
  <2>1. \A x \in DOMAIN queue :
         /\ runs[queue[x]] = 0
         /\ state[queue[x]] = IF queue[x] = Seed THEN "UNUSED" ELSE "PUSHED"
         /\ \A y \in DOMAIN queue : queue[x] = queue[y] => x = y
    <3>1. DOMAIN queue = {1} /\ queue[1] = Seed
      BY <1>1
    <3> QED
      BY <3>1, <1>1, <1>3
  <2>2. ASSUME NEW i \in Item
        PROVE  /\ runs[i] = 0 /\ ~InProgress(i)
               /\ \A c \in Range(Branches[i]) : state[c] = "UNUSED" /\ runs[c] = 0
    <3>1. \A c \in Range(Branches[i]) : c \in Item
      BY BranchesOf
    <3> QED
      BY <3>1, <1>1, <1>5 DEF InProgress
  <2> QED
    BY <2>1, <2>2 DEF CallInv
<1>8. Hung(tree, state, stack)
  BY <1>5 DEF Hung
<1>9. Anchored(tree, stack) /\ Home(tree, runs, stack)
  BY <1>2 DEF Anchored, Home
<1>10. Known(tree, state, stack)
  BY <1>5 DEF Known
<1> QED
  BY <1>1, <1>4, <1>6, <1>7, <1>8, <1>9, <1>10 DEF IInv, NoThrow

\* The inductive invariant: the stacks of the threads, the tree of nodes and the runs agree,
\* whatever the user's function, the channel and the other threads do.
THEOREM Invariance == Spec => []IInv
<1>1. Init => IInv
  BY InitStep
<1>2. IInv /\ [Next]_vars => IInv'
  BY NextStep
<1> QED
  BY <1>1, <1>2, PTL DEF Spec

\* No pool thread is stopped by an exception of the balancer: none is given a consumed node
\* by its own bookkeeping, and no node is without parent and root.
THEOREM NeverThrows == Spec => []NoThrow
<1>1. IInv => NoThrow
  BY DEF IInv
<1> QED
  BY <1>1, Invariance, PTL

\* What the invariant says of the links.
LEMMA LinksInv ==
    ASSUME IInv
    PROVE  LinksAgree
<1>1. /\ TypeOK /\ Shape(state, stack) /\ tree \in Tree /\ Hung(tree, state, stack) /\ Anchored(tree, stack)
  BY Parts DEF TreeInv
<1>2. ASSUME NEW n \in Node, tree.children[n] = <<>>
      PROVE  /\ \A c \in Range(tree.children[n]) : tree.parent[c] = n
             /\ \A x, y \in DOMAIN tree.children[n] : tree.children[n][x] = tree.children[n][y] => x = y
  <2>1. DOMAIN tree.children[n] = {}
    BY <1>2
  <2> QED
    BY <2>1 DEF Range
<1>3. ASSUME NEW n \in Node, tree.children[n] # <<>>
      PROVE  /\ \A c \in Range(tree.children[n]) : tree.parent[c] = n
             /\ \A x, y \in DOMAIN tree.children[n] : tree.children[n][x] = tree.children[n][y] => x = y
  <2>1. PICK u \in Thread : \E k \in 1 .. Len(stack[u]) :
                n = stack[u][k].anchor /\ Linked(tree, state, stack[u][k])
    BY <1>1, <1>3, ChildrenOf
  <2>2. PICK k \in 1 .. Len(stack[u]) : n = stack[u][k].anchor /\ Linked(tree, state, stack[u][k])
    BY <2>1
  <2> DEFINE f == stack[u][k]
  <2>3. f \in Frame /\ f.item \in Item
    BY <1>1, Frames
  <2>4. /\ Range(tree.children[n]) = Kids(state, f) /\ Ascending(tree.children[n], f.item)
        /\ \A c \in Kids(state, f) : tree.parent[c] = n
    BY <2>2 DEF Linked
  <2> HIDE DEF f
  <2>5. Kids(state, f) \subseteq Range(Branches[f.item])
    BY <2>3, KidsOf
  <2>6. tree.children[n] \in Seq(Item)
    BY <1>1, TreeFields
  <2> DEFINE s == tree.children[n]
             i == f.item
  <2>7. s \in Seq(Item) /\ i \in Item /\ Ascending(s, i) /\ Range(s) \subseteq Range(Branches[i])
    BY <2>3, <2>4, <2>5, <2>6
  <2> HIDE DEF s, i
  <2>8. \A x, y \in DOMAIN s : s[x] = s[y] => x = y
    BY <2>7, AscendingDistinct
  <2> QED
    BY <2>4, <2>8 DEF s
<1>4. ASSUME NEW n \in Node
      PROVE  /\ tree.parent[n] # None => n \in Range(tree.children[tree.parent[n]])
             /\ \A c \in Range(tree.children[n]) : tree.parent[c] = n
             /\ Cardinality(Range(tree.children[n])) = Len(tree.children[n])
  <2>1. tree.parent[n] # None => n \in Range(tree.children[tree.parent[n]])
    BY <1>1 DEF Anchored
  <2>2. /\ \A c \in Range(tree.children[n]) : tree.parent[c] = n
        /\ \A x, y \in DOMAIN tree.children[n] : tree.children[n][x] = tree.children[n][y] => x = y
    BY <1>2, <1>3
  <2> DEFINE s == tree.children[n]
  <2>3. s \in Seq(Item) /\ \A x, y \in DOMAIN s : s[x] = s[y] => x = y
    BY <2>2, <1>1, TreeFields
  <2> HIDE DEF s
  <2>4. Cardinality(Range(s)) = Len(s)
    BY <2>3, DistinctLength
  <2> QED
    BY <2>1, <2>2, <2>4 DEF s
<1> QED
  BY <1>1, <1>4 DEF LinksAgree

\* The tree is well-formed and its two directions of links agree, whichever nodes were pruned
\* or made roots, for every tree of calls and any number of threads.
THEOREM LinksAlwaysAgree == Spec => []LinksAgree
<1>1. IInv => LinksAgree
  BY LinksInv
<1> QED
  BY <1>1, Invariance, PTL

\* No call is run twice in a process, and none that was sent away or found not worthy.
THEOREM CallsRunOnce == Spec => []RunsOnce
<1>1. IInv => RunsOnce
  <2> SUFFICES ASSUME IInv, NEW i \in Item
               PROVE  /\ runs[i] <= 1
                      /\ runs[i] = 1 => state[i] \notin {"DISCARDED", "SENT_TO_ANOTHER_PROCESS"}
    BY DEF RunsOnce
  <2>1. runs[i] \in {0, 1} /\ (runs[i] = 1 => state[i] \notin {"DISCARDED", "SENT_TO_ANOTHER_PROCESS"})
    BY DEF IInv, CallInv
  <2> QED
    BY <2>1
<1> QED
  BY <1>1, Invariance, PTL

\* When the pool is done, every worthy branch of a call that was run was run or sent away.
THEOREM NothingIsDropped == Spec => []NothingDropped
<1>1. IInv => NothingDropped
  <2> SUFFICES ASSUME IInv, is_done, NEW i \in Item, runs[i] = 1, NEW c \in Range(Branches[i])
               PROVE  \/ runs[c] = 1
                      \/ state[c] = "SENT_TO_ANOTHER_PROCESS"
                      \/ cached[c] = {FALSE}
    BY DEF NothingDropped
  <2>1. queue = <<>> /\ \A t \in Thread : stack[t] = <<>>
    BY DEF is_done
  <2>2. ~InProgress(i)
    BY <2>1 DEF InProgress
  <2>3. Resolved(c)
    BY <2>2 DEF IInv, CallInv
  <2>4. Range(queue) = {}
    BY <2>1 DEF Range
  <2> QED
    BY <2>3, <2>4 DEF Resolved
<1> QED
  BY <1>1, Invariance, PTL

=============================================================================
