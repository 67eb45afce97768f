--------------------------- MODULE ChannelTheorems ---------------------------
(***************************************************************************)
(* What sending to and receiving from a channel does to the messages on    *)
(* their way, to their number and to their order.                          *)
(***************************************************************************)
EXTENDS Channels, FiniteSetTheorems, TLAPS

\* What it takes to be in Carrying.
LEMMA CarryingDef ==
    ASSUME NEW net, NEW C, NEW tag, NEW x
    PROVE  x \in Carrying(net, C, tag) <=>
             \E c \in C : \E i \in DOMAIN net[c] : net[c][i].tag = tag /\ x = <<c, i>>
  BY DEF Carrying

\* A place with such a message.
LEMMA CarryingIn ==
    ASSUME NEW net, NEW C, NEW tag, NEW c \in C, NEW i \in DOMAIN net[c], net[c][i].tag = tag
    PROVE  <<c, i>> \in Carrying(net, C, tag)
  BY CarryingDef

\* The count of a finite number of messages is a natural number, 0 if there is none.
LEMMA CountZero ==
    ASSUME NEW net, NEW C, NEW tag, IsFiniteSet(Carrying(net, C, tag))
    PROVE  /\ Count(net, C, tag) \in Nat
           /\ Count(net, C, tag) = 0 <=>
                \A c \in C : \A i \in DOMAIN net[c] : net[c][i].tag # tag
<1>1. Count(net, C, tag) \in Nat
  BY FS_CardinalityType DEF Count
<1>2. Count(net, C, tag) = 0 <=> Carrying(net, C, tag) = {}
  BY FS_EmptySet DEF Count
<1>3. Carrying(net, C, tag) = {} <=> \A c \in C : \A i \in DOMAIN net[c] : net[c][i].tag # tag
  <2>1. ASSUME Carrying(net, C, tag) = {}, NEW c \in C, NEW i \in DOMAIN net[c], net[c][i].tag = tag
        PROVE  FALSE
    BY <2>1, CarryingIn
  <2>2. ASSUME NEW x \in Carrying(net, C, tag)
        PROVE  \E c \in C : \E i \in DOMAIN net[c] : net[c][i].tag = tag
    BY CarryingDef
  <2> QED
    BY <2>1, <2>2
<1> QED
  BY <1>1, <1>2, <1>3

\* No channel of C has changed.
LEMMA CountSame ==
    ASSUME NEW net, NEW new, NEW C, NEW tag, \A c \in C : new[c] = net[c]
    PROVE  Carrying(new, C, tag) = Carrying(net, C, tag) /\ Count(new, C, tag) = Count(net, C, tag)
<1>1. ASSUME NEW x PROVE x \in Carrying(new, C, tag) <=> x \in Carrying(net, C, tag)
  BY CarryingDef
<1> QED
  BY <1>1 DEF Count

\* A message m is appended to channel d.
LEMMA CountAppend ==
    ASSUME NEW M, NEW D, NEW C \in SUBSET D, NEW net \in Net(D, M), NEW tag, NEW d \in C,
           NEW m \in M, IsFiniteSet(Carrying(net, C, tag))
    PROVE  /\ m.tag = tag => Count(Post(net, d, m), C, tag) = Count(net, C, tag) + 1
           /\ m.tag # tag => Count(Post(net, d, m), C, tag) = Count(net, C, tag)
<1> DEFINE x == <<d, Len(net[d]) + 1>>
           new == Post(net, d, m)
<1>0. /\ DOMAIN net[d] = 1 .. Len(net[d]) /\ Len(net[d]) \in Nat
      /\ DOMAIN new[d] = 1 .. Len(net[d]) + 1
      /\ new[d][Len(net[d]) + 1] = m
      /\ \A i \in 1 .. Len(net[d]) : new[d][i] = net[d][i]
      /\ \A c \in C : c # d => new[c] = net[c]
  <2>1. net[d] \in Seq(M) /\ new[d] = Append(net[d], m) /\ \A c \in C : c # d => new[c] = net[c]
    BY DEF Net, Post
  <2> QED
    BY <2>1
<1> HIDE DEF new
<1> SUFFICES /\ m.tag = tag => Count(new, C, tag) = Count(net, C, tag) + 1
             /\ m.tag # tag => Count(new, C, tag) = Count(net, C, tag)
  BY DEF new
<1>1. CASE m.tag = tag
  <2>1. Carrying(new, C, tag) = Carrying(net, C, tag) \cup {x}
    <3>1. ASSUME NEW y \in Carrying(new, C, tag) PROVE y \in Carrying(net, C, tag) \cup {x}
      <4>1. PICK c \in C : \E i \in DOMAIN new[c] : new[c][i].tag = tag /\ y = <<c, i>>
        BY <3>1, CarryingDef
      <4>2. PICK i \in DOMAIN new[c] : new[c][i].tag = tag /\ y = <<c, i>>
        BY <4>1
      <4>3. CASE c # d
        BY <1>0, <4>2, <4>3, CarryingDef
      <4>4. CASE c = d /\ i = Len(net[d]) + 1
        BY <4>2, <4>4
      <4>5. CASE c = d /\ i # Len(net[d]) + 1
        <5>1. i \in DOMAIN net[d] /\ net[d][i].tag = tag
          BY <4>2, <4>5, <1>0
        <5> QED
          BY <4>2, <4>5, <5>1, CarryingDef
      <4> QED
        BY <4>3, <4>4, <4>5
    <3>2. ASSUME NEW y \in Carrying(net, C, tag) PROVE y \in Carrying(new, C, tag)
      <4>1. PICK c \in C : \E i \in DOMAIN net[c] : net[c][i].tag = tag /\ y = <<c, i>>
        BY <3>2, CarryingDef
      <4>2. PICK i \in DOMAIN net[c] : net[c][i].tag = tag /\ y = <<c, i>>
        BY <4>1
      <4>3. i \in DOMAIN new[c] /\ new[c][i].tag = tag
        BY <4>2, <1>0
      <4> QED
        BY <4>2, <4>3, CarryingDef
    <3>3. x \in Carrying(new, C, tag)
      BY <1>0, <1>1, CarryingDef
    <3> QED
      BY <3>1, <3>2, <3>3
  <2>2. x \notin Carrying(net, C, tag)
    BY <1>0, CarryingDef
  <2> HIDE DEF x
  <2>3. /\ IsFiniteSet(Carrying(net, C, tag) \cup {x})
        /\ Cardinality(Carrying(net, C, tag) \cup {x}) = Cardinality(Carrying(net, C, tag)) + 1
    BY <2>2, FS_AddElement
  <2> QED
    BY <1>1, <2>1, <2>3 DEF Count
<1>2. CASE m.tag # tag
  <2>1. Carrying(new, C, tag) = Carrying(net, C, tag)
    <3>1. ASSUME NEW c \in C, NEW i
          PROVE  i \in DOMAIN new[c] /\ new[c][i].tag = tag <=>
                 i \in DOMAIN net[c] /\ net[c][i].tag = tag
      BY <1>0, <1>2
    <3>2. ASSUME NEW y PROVE y \in Carrying(new, C, tag) <=> y \in Carrying(net, C, tag)
      BY <3>1, CarryingDef
    <3> QED
      BY <3>2
  <2> QED
    BY <1>2, <2>1, FS_CardinalityType DEF Count
<1> QED
  BY <1>1, <1>2

\* The first message of channel d is taken.
LEMMA CountTail ==
    ASSUME NEW M, NEW D, NEW C \in SUBSET D, NEW net \in Net(D, M), NEW tag, NEW d \in C,
           net[d] # <<>>, IsFiniteSet(Carrying(net, C, tag))
    PROVE  /\ Head(net[d]).tag = tag => Count(Drop(net, d), C, tag) = Count(net, C, tag) - 1
           /\ Head(net[d]).tag # tag => Count(Drop(net, d), C, tag) = Count(net, C, tag)
<1> DEFINE x == <<d, 1>>
           old == Carrying(net, C, tag) \ {x}
           f == [y \in old |-> IF y[1] = d THEN <<d, y[2] - 1>> ELSE y]
           new == Drop(net, d)
<1>0. /\ DOMAIN net[d] = 1 .. Len(net[d]) /\ Len(net[d]) \in Nat /\ Len(net[d]) > 0
      /\ DOMAIN new[d] = 1 .. Len(net[d]) - 1
      /\ net[d][1] = Head(net[d])
      /\ \A i \in 1 .. Len(net[d]) - 1 : new[d][i] = net[d][i + 1]
      /\ \A c \in C : c # d => new[c] = net[c]
  <2>1. net[d] \in Seq(M) /\ new[d] = Tail(net[d]) /\ \A c \in C : c # d => new[c] = net[c]
    BY DEF Net, Drop
  <2> QED
    BY <2>1
<1> HIDE DEF new
<1> SUFFICES /\ Head(net[d]).tag = tag => Count(new, C, tag) = Count(net, C, tag) - 1
             /\ Head(net[d]).tag # tag => Count(new, C, tag) = Count(net, C, tag)
  BY DEF new
<1>1. f \in [old -> Carrying(new, C, tag)]
  <2> SUFFICES ASSUME NEW y \in old PROVE f[y] \in Carrying(new, C, tag)
    OBVIOUS
  <2>1. PICK c \in C : \E i \in DOMAIN net[c] : net[c][i].tag = tag /\ y = <<c, i>>
    BY CarryingDef
  <2>2. PICK i \in DOMAIN net[c] : net[c][i].tag = tag /\ y = <<c, i>>
    BY <2>1
  <2>3. CASE c # d
    BY <1>0, <2>2, <2>3, CarryingDef
  <2>4. CASE c = d
    <3>1. i # 1 /\ i - 1 \in DOMAIN new[d] /\ new[d][i - 1].tag = tag
      BY <2>2, <2>4, <1>0
    <3>2. f[y] = <<d, i - 1>>
      BY <2>2, <2>4
    <3> HIDE DEF f
    <3> QED
      BY <3>1, <3>2, CarryingIn
  <2> QED
    BY <2>3, <2>4
<1>2. ASSUME NEW y \in old, NEW z \in old, f[y] = f[z] PROVE y = z
  <2>1. PICK c, i : c \in C /\ i \in DOMAIN net[c] /\ y = <<c, i>>
    BY CarryingDef
  <2>2. PICK b, j : b \in C /\ j \in DOMAIN net[b] /\ z = <<b, j>>
    BY CarryingDef
  <2>3. /\ f[y] = IF c = d THEN <<d, i - 1>> ELSE <<c, i>>
        /\ f[z] = IF b = d THEN <<d, j - 1>> ELSE <<b, j>>
    BY <2>1, <2>2
  <2> QED
    BY <1>0, <1>2, <2>1, <2>2, <2>3
<1>3. ASSUME NEW z \in Carrying(new, C, tag) PROVE \E y \in old : f[y] = z
  <2>1. PICK c \in C : \E i \in DOMAIN new[c] : new[c][i].tag = tag /\ z = <<c, i>>
    BY CarryingDef
  <2>2. PICK i \in DOMAIN new[c] : new[c][i].tag = tag /\ z = <<c, i>>
    BY <2>1
  <2>3. CASE c # d
    <3>1. z \in old
      BY <1>0, <2>2, <2>3, CarryingDef
    <3> QED
      BY <2>2, <2>3, <3>1
  <2>4. CASE c = d
    <3>0. i \in 1 .. Len(net[d]) - 1 /\ new[d][i].tag = tag /\ z = <<d, i>>
      BY <2>2, <2>4, <1>0
    <3>1. i + 1 \in DOMAIN net[d] /\ net[d][i + 1].tag = tag /\ i + 1 # 1 /\ (i + 1) - 1 = i
      BY <3>0, <1>0
    <3>2. <<d, i + 1>> \in old
      BY <3>1, CarryingIn
    <3>3. f[<<d, i + 1>>] = <<d, i>>
      BY <3>1, <3>2
    <3> QED
      BY <2>2, <2>4, <3>2, <3>3
  <2> QED
    BY <2>3, <2>4
<1> HIDE DEF f
<1>4. ExistsBijection(old, Carrying(new, C, tag))
  <2>1. f \in Injection(old, Carrying(new, C, tag))
    BY <1>1, <1>2 DEF Injection, IsInjective
  <2>2. f \in Surjection(old, Carrying(new, C, tag))
    BY <1>1, <1>3 DEF Surjection
  <2> QED
    BY <2>1, <2>2 DEF ExistsBijection, Bijection
<1>5. /\ IsFiniteSet(old)
      /\ Head(net[d]).tag = tag => Cardinality(old) = Count(net, C, tag) - 1
      /\ Head(net[d]).tag # tag => Cardinality(old) = Count(net, C, tag)
  <2>1. x \in Carrying(net, C, tag) <=> Head(net[d]).tag = tag
    BY <1>0, CarryingDef
  <2> QED
    BY <2>1, FS_RemoveElement, FS_CardinalityType DEF Count
<1> QED
  BY <1>4, <1>5, FS_Bijection DEF Count

\* In finitely many channels there are finitely many messages.
LEMMA CarryingFinite ==
    ASSUME NEW M, NEW C, NEW net, NEW tag, IsFiniteSet(C), \A c \in C : net[c] \in Seq(M)
    PROVE  IsFiniteSet(Carrying(net, C, tag))
<1> DEFINE at(c) == {j \in DOMAIN net[c] : net[c][j].tag = tag}
           part(c) == {<<c, i>> : i \in at(c)}
           all == {part(c) : c \in C}
<1>1. ASSUME NEW c \in C PROVE IsFiniteSet(part(c))
  <2>1. at(c) \in SUBSET (1 .. Len(net[c])) /\ Len(net[c]) \in Int
    OBVIOUS
  <2> DEFINE f == [i \in at(c) |-> <<c, i>>]
  <2>2. f \in Surjection(at(c), part(c))
    BY DEF Surjection
  <2> HIDE DEF at, f, part
  <2>3. IsFiniteSet(1 .. Len(net[c]))
    BY <2>1, FS_Interval
  <2>4. IsFiniteSet(at(c))
    BY <2>1, <2>3, FS_Subset
  <2> QED
    BY <2>2, <2>4, FS_Surjection
<1>2. IsFiniteSet(all)
  <2> DEFINE g == [c \in C |-> part(c)]
  <2> HIDE DEF part
  <2>1. g \in Surjection(C, all)
    BY DEF Surjection
  <2> QED
    BY <2>1, FS_Surjection
<1>3. \A T \in all : IsFiniteSet(T)
  BY <1>1
<1>4. Carrying(net, C, tag) = UNION all
  BY DEF Carrying
<1> QED
  BY <1>2, <1>3, <1>4, FS_UNION

-----------------------------------------------------------------------------
(* The operators of a network with the finitely many channels D and messages M. *)

\* A message of the network is one of M, and the head of a channel is in it.
THEOREM MessagesType ==
    ASSUME NEW M, NEW D, NEW net \in Net(D, M), NEW c \in D
    PROVE  /\ \A m \in Messages(net, c) : m \in M
           /\ net[c] # <<>> => Head(net[c]) \in M /\ Head(net[c]) \in Messages(net, c)
           /\ net[c] = <<>> => Messages(net, c) = {}
  BY DEF Net, Messages

\* Appending m to channel d puts m on its way there and nothing else anywhere.
THEOREM PostIn ==
    ASSUME NEW M, NEW D, NEW net \in Net(D, M), NEW d \in D, NEW m \in M
    PROVE  /\ Post(net, d, m) \in Net(D, M)
           /\ \A c \in D : \A x :
                x \in Messages(Post(net, d, m), c) <=> x \in Messages(net, c) \/ (c = d /\ x = m)
<1>1. Post(net, d, m) \in Net(D, M)
  BY DEF Net, Post
<1>2. ASSUME NEW c \in D, NEW x
      PROVE  x \in Messages(Post(net, d, m), c) <=> x \in Messages(net, c) \/ (c = d /\ x = m)
  <2>1. CASE c # d
    BY <2>1 DEF Net, Post, Messages
  <2>2. CASE c = d
    <3>1. Post(net, d, m)[c] = Append(net[d], m) /\ net[d] \in Seq(M)
      BY <2>2 DEF Net, Post
    <3>2. /\ DOMAIN Append(net[d], m) = 1 .. Len(net[d]) + 1 /\ DOMAIN net[d] = 1 .. Len(net[d])
          /\ Len(net[d]) \in Nat
          /\ Append(net[d], m)[Len(net[d]) + 1] = m
          /\ \A i \in 1 .. Len(net[d]) : Append(net[d], m)[i] = net[d][i]
      BY <3>1
    <3> QED
      BY <2>2, <3>1, <3>2 DEF Messages
  <2> QED
    BY <2>1, <2>2
<1> QED
  BY <1>1, <1>2

\* Taking the first message of channel d leaves every other message on its way.
THEOREM DropIn ==
    ASSUME NEW M, NEW D, NEW net \in Net(D, M), NEW d \in D, net[d] # <<>>
    PROVE  /\ Drop(net, d) \in Net(D, M)
           /\ \A c \in D : \A x :
                /\ x \in Messages(Drop(net, d), c) => x \in Messages(net, c)
                /\ x \in Messages(net, c) =>
                     x \in Messages(Drop(net, d), c) \/ (c = d /\ x = Head(net[d]))
<1>1. Drop(net, d) \in Net(D, M)
  BY DEF Net, Drop
<1>2. ASSUME NEW c \in D, NEW x
      PROVE  /\ x \in Messages(Drop(net, d), c) => x \in Messages(net, c)
             /\ x \in Messages(net, c) =>
                  x \in Messages(Drop(net, d), c) \/ (c = d /\ x = Head(net[d]))
  <2>1. CASE c # d
    BY <2>1 DEF Net, Drop, Messages
  <2>2. CASE c = d
    <3>1. Drop(net, d)[c] = Tail(net[d]) /\ net[d] \in Seq(M)
      BY <2>2 DEF Net, Drop
    <3>2. /\ DOMAIN net[d] = 1 .. Len(net[d]) /\ Len(net[d]) \in Nat /\ Len(net[d]) > 0
          /\ DOMAIN Tail(net[d]) = 1 .. Len(net[d]) - 1
          /\ net[d][1] = Head(net[d])
          /\ \A i \in 1 .. Len(net[d]) - 1 : Tail(net[d])[i] = net[d][i + 1]
      BY <3>1
    <3>3. ASSUME NEW i \in DOMAIN net[d], net[d][i] = x, x # Head(net[d])
          PROVE  \E j \in DOMAIN Tail(net[d]) : Tail(net[d])[j] = x
      <4>1. i - 1 \in 1 .. Len(net[d]) - 1 /\ Tail(net[d])[i - 1] = net[d][(i - 1) + 1]
        BY <3>2, <3>3
      <4> QED
        BY <3>2, <3>3, <4>1
    <3>4. ASSUME NEW j \in DOMAIN Tail(net[d]), Tail(net[d])[j] = x
          PROVE  \E i \in DOMAIN net[d] : net[d][i] = x
      <4>1. j + 1 \in DOMAIN net[d]
        BY <3>2
      <4> QED
        BY <3>2, <3>4, <4>1
    <3> QED
      BY <2>2, <3>1, <3>3, <3>4 DEF Messages
  <2> QED
    BY <2>1, <2>2
<1> QED
  BY <1>1, <1>2

\* PostAll puts m on its way in every channel and nothing else.
THEOREM PostAllIn ==
    ASSUME NEW M, NEW D, NEW net \in Net(D, M), NEW m \in M
    PROVE  /\ PostAll(net, m) \in Net(D, M)
           /\ \A c \in D : \A x :
                x \in Messages(PostAll(net, m), c) <=> x \in Messages(net, c) \/ x = m
<1>1. PostAll(net, m) \in Net(D, M)
  BY DEF Net, PostAll
<1>2. ASSUME NEW c \in D, NEW x
      PROVE  x \in Messages(PostAll(net, m), c) <=> x \in Messages(net, c) \/ x = m
  <2>1. PostAll(net, m)[c] = Append(net[c], m) /\ net[c] \in Seq(M)
    BY DEF Net, PostAll
  <2>2. /\ DOMAIN Append(net[c], m) = 1 .. Len(net[c]) + 1 /\ DOMAIN net[c] = 1 .. Len(net[c])
        /\ Len(net[c]) \in Nat
        /\ Append(net[c], m)[Len(net[c]) + 1] = m
        /\ \A i \in 1 .. Len(net[c]) : Append(net[c], m)[i] = net[c][i]
    BY <2>1
  <2> QED
    BY <2>1, <2>2 DEF Messages
<1> QED
  BY <1>1, <1>2

\* A message of its own to every channel in the domain of f.
THEOREM PostEachIn ==
    ASSUME NEW M, NEW D, NEW net \in Net(D, M), NEW C \in SUBSET D, NEW f \in [C -> M]
    PROVE  /\ PostEach(net, f) \in Net(D, M)
           /\ \A c \in D : \A x :
                x \in Messages(PostEach(net, f), c) <=>
                  x \in Messages(net, c) \/ (c \in C /\ x = f[c])
<1>1. PostEach(net, f) \in Net(D, M)
  BY DEF Net, PostEach
<1>2. ASSUME NEW c \in D, NEW x
      PROVE  x \in Messages(PostEach(net, f), c) <=> x \in Messages(net, c) \/ (c \in C /\ x = f[c])
  <2>1. CASE c \notin C
    <3>1. PostEach(net, f)[c] = net[c]
      BY <2>1 DEF Net, PostEach
    <3> QED
      BY <2>1, <3>1 DEF Messages
  <2>2. CASE c \in C
    <3> DEFINE m == f[c]
    <3>1. PostEach(net, f)[c] = Append(net[c], m) /\ net[c] \in Seq(M) /\ m \in M
      BY <2>2 DEF Net, PostEach
    <3> HIDE DEF m
    <3>2. /\ DOMAIN Append(net[c], m) = 1 .. Len(net[c]) + 1 /\ DOMAIN net[c] = 1 .. Len(net[c])
          /\ Len(net[c]) \in Nat
          /\ Append(net[c], m)[Len(net[c]) + 1] = m
          /\ \A i \in 1 .. Len(net[c]) : Append(net[c], m)[i] = net[c][i]
      BY <3>1
    <3>3. x \in Messages(PostEach(net, f), c) <=> x \in Messages(net, c) \/ x = m
      BY <3>1, <3>2 DEF Messages
    <3> QED
      BY <2>2, <3>3 DEF m
  <2> QED
    BY <2>1, <2>2
<1> QED
  BY <1>1, <1>2

\* The number of messages in finitely many channels is a natural number, 0 if none is on
\* its way.
THEOREM CountNat ==
    ASSUME NEW M, NEW D, IsFiniteSet(D), NEW C \in SUBSET D, NEW net \in Net(D, M), NEW tag
    PROVE  /\ Count(net, C, tag) \in Nat
           /\ Count(net, C, tag) = 0 <=> \A c \in C : \A m \in Messages(net, c) : m.tag # tag
<1>1. IsFiniteSet(C)
  BY FS_Subset
<1>2. \A c \in C : net[c] \in Seq(M)
  BY DEF Net
<1>3. IsFiniteSet(Carrying(net, C, tag))
  BY <1>1, <1>2, CarryingFinite
<1>4. /\ Count(net, C, tag) \in Nat
      /\ Count(net, C, tag) = 0 <=>
           \A c \in C : \A i \in DOMAIN net[c] : net[c][i].tag # tag
  BY <1>3, CountZero
<1> QED
  BY <1>4 DEF Messages

\* Sending a message to channel d counts it once, if d is counted.
THEOREM CountPost ==
    ASSUME NEW M, NEW D, IsFiniteSet(D), NEW C \in SUBSET D, NEW net \in Net(D, M),
           NEW d \in D, NEW m \in M, NEW tag
    PROVE  /\ d \in C /\ m.tag = tag => Count(Post(net, d, m), C, tag) = Count(net, C, tag) + 1
           /\ d \notin C \/ m.tag # tag => Count(Post(net, d, m), C, tag) = Count(net, C, tag)
<1> DEFINE new == Post(net, d, m)
<1>1. IsFiniteSet(C)
  BY FS_Subset
<1>2. /\ net[d] \in Seq(M) /\ \A c \in C : net[c] \in Seq(M)
      /\ new[d] = Append(net[d], m)
      /\ \A c \in C : c # d => new[c] = net[c]
  BY DEF Net, Post
<1>3. IsFiniteSet(Carrying(net, C, tag))
  BY <1>1, <1>2, CarryingFinite
<1>4. Count(net, C, tag) \in Nat
  BY CountNat
<1> HIDE DEF new
<1>5. CASE d \in C
  BY <1>3, <1>4, <1>5, CountAppend
<1>6. CASE d \notin C
  <2>1. \A c \in C : new[c] = net[c]
    BY <1>2, <1>6
  <2>2. Count(new, C, tag) = Count(net, C, tag)
    BY <2>1, CountSame
  <2> QED
    BY <1>6, <2>2 DEF new
<1> QED
  BY <1>5, <1>6

\* Taking the first message of channel d.
THEOREM CountDrop ==
    ASSUME NEW M, NEW D, IsFiniteSet(D), NEW C \in SUBSET D, NEW net \in Net(D, M),
           NEW d \in D, net[d] # <<>>, NEW tag
    PROVE  /\ d \in C /\ Head(net[d]).tag = tag =>
                Count(Drop(net, d), C, tag) = Count(net, C, tag) - 1
           /\ d \notin C \/ Head(net[d]).tag # tag =>
                Count(Drop(net, d), C, tag) = Count(net, C, tag)
<1> DEFINE new == Drop(net, d)
<1>1. IsFiniteSet(C)
  BY FS_Subset
<1>2. /\ net[d] \in Seq(M) /\ \A c \in C : net[c] \in Seq(M)
      /\ new[d] = Tail(net[d])
      /\ \A c \in C : c # d => new[c] = net[c]
  BY DEF Net, Drop
<1>3. IsFiniteSet(Carrying(net, C, tag))
  BY <1>1, <1>2, CarryingFinite
<1>4. Count(net, C, tag) \in Nat
  BY CountNat
<1> HIDE DEF new
<1>5. CASE d \in C
  BY <1>3, <1>4, <1>5, CountTail
<1>6. CASE d \notin C
  <2>1. \A c \in C : new[c] = net[c]
    BY <1>2, <1>6
  <2>2. Count(new, C, tag) = Count(net, C, tag)
    BY <2>1, CountSame
  <2> QED
    BY <1>6, <2>2 DEF new
<1> QED
  BY <1>5, <1>6

\* A message to every channel counts for none of the other tags.
THEOREM CountPostAll ==
    ASSUME NEW M, NEW D, NEW C \in SUBSET D, NEW net \in Net(D, M), NEW m, NEW tag, m.tag # tag
    PROVE  Count(PostAll(net, m), C, tag) = Count(net, C, tag)
<1> DEFINE new == PostAll(net, m)
<1>1. ASSUME NEW c \in C, NEW i
      PROVE  i \in DOMAIN new[c] /\ new[c][i].tag = tag <=>
             i \in DOMAIN net[c] /\ net[c][i].tag = tag
  <2>1. new[c] = Append(net[c], m) /\ net[c] \in Seq(M)
    BY DEF Net, PostAll
  <2>2. /\ DOMAIN Append(net[c], m) = 1 .. Len(net[c]) + 1 /\ DOMAIN net[c] = 1 .. Len(net[c])
        /\ Len(net[c]) \in Nat
        /\ Append(net[c], m)[Len(net[c]) + 1] = m
        /\ \A j \in 1 .. Len(net[c]) : Append(net[c], m)[j] = net[c][j]
    BY <2>1
  <2> QED
    BY <2>1, <2>2
<1> HIDE DEF new
<1>2. ASSUME NEW y PROVE y \in Carrying(new, C, tag) <=> y \in Carrying(net, C, tag)
  BY <1>1, CarryingDef
<1>3. Carrying(new, C, tag) = Carrying(net, C, tag)
  BY <1>2
<1> QED
  BY <1>3 DEF Count, new

\* The same for a message of its own to every channel.
THEOREM CountPostEach ==
    ASSUME NEW M, NEW D, NEW C \in SUBSET D, NEW net \in Net(D, M), NEW f, NEW tag,
           \A c \in DOMAIN f : f[c].tag # tag
    PROVE  Count(PostEach(net, f), C, tag) = Count(net, C, tag)
<1> DEFINE new == PostEach(net, f)
<1>1. ASSUME NEW c \in C, NEW i
      PROVE  i \in DOMAIN new[c] /\ new[c][i].tag = tag <=>
             i \in DOMAIN net[c] /\ net[c][i].tag = tag
  <2>1. CASE c \notin DOMAIN f
    BY <2>1 DEF Net, PostEach
  <2>2. CASE c \in DOMAIN f
    <3> DEFINE m == f[c]
    <3>1. new[c] = Append(net[c], m) /\ net[c] \in Seq(M) /\ m.tag # tag
      BY <2>2 DEF Net, PostEach
    <3> HIDE DEF m, new
    <3>2. /\ DOMAIN Append(net[c], m) = 1 .. Len(net[c]) + 1 /\ DOMAIN net[c] = 1 .. Len(net[c])
          /\ Len(net[c]) \in Nat
          /\ Append(net[c], m)[Len(net[c]) + 1] = m
          /\ \A j \in 1 .. Len(net[c]) : Append(net[c], m)[j] = net[c][j]
      BY <3>1
    <3> QED
      BY <3>1, <3>2
  <2> QED
    BY <2>1, <2>2
<1> HIDE DEF new
<1>2. ASSUME NEW y PROVE y \in Carrying(new, C, tag) <=> y \in Carrying(net, C, tag)
  BY <1>1, CarryingDef
<1>3. Carrying(new, C, tag) = Carrying(net, C, tag)
  BY <1>2
<1> QED
  BY <1>3 DEF Count, new

\* A message may follow one with this tag if its own tag is not in S.
THEOREM PostBehind ==
    ASSUME NEW M, NEW D, NEW net \in Net(D, M), NEW d \in D, NEW m \in M, NEW c \in D,
           NEW tag, NEW S, NoneBehind(net, c, tag, S),
           m.tag \notin S \/ \A x \in Messages(net, d) : x.tag # tag
    PROVE  NoneBehind(Post(net, d, m), c, tag, S)
<1>1. CASE c # d
  BY <1>1 DEF NoneBehind, Net, Post
<1>2. CASE c = d
  <2>1. Post(net, d, m)[c] = Append(net[d], m) /\ net[d] \in Seq(M)
    BY <1>2 DEF Net, Post
  <2>2. /\ DOMAIN Append(net[d], m) = 1 .. Len(net[d]) + 1 /\ DOMAIN net[d] = 1 .. Len(net[d])
        /\ Len(net[d]) \in Nat
        /\ Append(net[d], m)[Len(net[d]) + 1] = m
        /\ \A i \in 1 .. Len(net[d]) : Append(net[d], m)[i] = net[d][i]
    BY <2>1
  <2>3. \A i \in DOMAIN net[d] : m.tag \notin S \/ net[d][i].tag # tag
    BY DEF Messages
  <2>4. ASSUME NEW i \in DOMAIN Append(net[d], m), NEW j \in DOMAIN Append(net[d], m),
               i < j, Append(net[d], m)[i].tag = tag
        PROVE  Append(net[d], m)[j].tag \notin S
    <3>1. CASE j = Len(net[d]) + 1
      BY <2>2, <2>3, <2>4, <3>1
    <3>2. CASE j # Len(net[d]) + 1
      <4>1. i \in DOMAIN net[d] /\ j \in DOMAIN net[d]
        BY <2>2, <2>4, <3>2
      <4> QED
        BY <1>2, <2>2, <2>4, <4>1 DEF NoneBehind
    <3> QED
      BY <3>1, <3>2
  <2> QED
    BY <1>2, <2>1, <2>4 DEF NoneBehind
<1> QED
  BY <1>1, <1>2

\* Taking a message keeps the order of the others, and behind a message with this tag
\* nothing with a tag in S is left.
THEOREM DropBehind ==
    ASSUME NEW M, NEW D, NEW net \in Net(D, M), NEW d \in D, net[d] # <<>>, NEW c \in D,
           NEW tag, NEW S, NoneBehind(net, c, tag, S)
    PROVE  /\ NoneBehind(Drop(net, d), c, tag, S)
           /\ c = d /\ Head(net[d]).tag = tag =>
                \A x \in Messages(Drop(net, d), d) : x.tag \notin S
<1>1. CASE c # d
  BY <1>1 DEF NoneBehind, Net, Drop
<1>2. CASE c = d
  <2>1. Drop(net, d)[c] = Tail(net[d]) /\ net[d] \in Seq(M)
    BY <1>2 DEF Net, Drop
  <2>2. /\ DOMAIN net[d] = 1 .. Len(net[d]) /\ Len(net[d]) \in Nat /\ Len(net[d]) > 0
        /\ DOMAIN Tail(net[d]) = 1 .. Len(net[d]) - 1
        /\ net[d][1] = Head(net[d])
        /\ \A i \in 1 .. Len(net[d]) - 1 : Tail(net[d])[i] = net[d][i + 1]
    BY <2>1
  <2>3. ASSUME NEW j \in DOMAIN Tail(net[d])
        PROVE  j + 1 \in DOMAIN net[d] /\ Tail(net[d])[j] = net[d][j + 1] /\ 1 < j + 1
    BY <2>2
  <2>4. ASSUME NEW i \in DOMAIN Tail(net[d]), NEW j \in DOMAIN Tail(net[d]),
               i < j, Tail(net[d])[i].tag = tag
        PROVE  Tail(net[d])[j].tag \notin S
    <3>1. i + 1 \in DOMAIN net[d] /\ j + 1 \in DOMAIN net[d] /\ i + 1 < j + 1
          /\ net[d][i + 1].tag = tag
      BY <2>2, <2>3, <2>4
    <3> QED
      BY <1>2, <2>3, <3>1 DEF NoneBehind
  <2>5. ASSUME Head(net[d]).tag = tag, NEW j \in DOMAIN Tail(net[d])
        PROVE  Tail(net[d])[j].tag \notin S
    <3>1. 1 \in DOMAIN net[d] /\ net[d][1].tag = tag
      BY <2>2, <2>5
    <3> QED
      BY <1>2, <2>3, <3>1 DEF NoneBehind
  <2>6. NoneBehind(Drop(net, d), c, tag, S)
    BY <2>1, <2>4 DEF NoneBehind
  <2>7. Head(net[d]).tag = tag => \A x \in Messages(Drop(net, d), d) : x.tag \notin S
    BY <1>2, <2>1, <2>5 DEF Messages
  <2> QED
    BY <2>6, <2>7
<1> QED
  BY <1>1, <1>2

\* Sending keeps a message followed, unless what is sent is such a message itself.
THEOREM PostFollowed ==
    ASSUME NEW M, NEW D, NEW net \in Net(D, M), NEW d \in D, NEW m \in M, NEW c \in D,
           NEW tag, NEW by
    PROVE  /\ Followed(net, c, tag, by) /\ m.tag # tag => Followed(Post(net, d, m), c, tag, by)
           /\ Followed(net, c, tag, by) /\ c # d => Followed(Post(net, d, m), c, tag, by)
           /\ m.tag = by /\ m.tag # tag => Followed(Post(net, d, m), d, tag, by)
<1>1. c # d /\ Followed(net, c, tag, by) => Followed(Post(net, d, m), c, tag, by)
  BY DEF Followed, Net, Post
<1>2. Post(net, d, m)[d] = Append(net[d], m) /\ net[d] \in Seq(M)
  BY DEF Net, Post
<1>3. /\ DOMAIN Append(net[d], m) = 1 .. Len(net[d]) + 1 /\ DOMAIN net[d] = 1 .. Len(net[d])
      /\ Len(net[d]) \in Nat
      /\ Append(net[d], m)[Len(net[d]) + 1] = m
      /\ \A i \in 1 .. Len(net[d]) : Append(net[d], m)[i] = net[d][i]
  BY <1>2
<1>4. m.tag = by /\ m.tag # tag => Followed(Post(net, d, m), d, tag, by)
  BY <1>2, <1>3, SMTT(30) DEF Followed
<1>5. ASSUME c = d, Followed(net, c, tag, by), m.tag # tag
      PROVE  Followed(Post(net, d, m), c, tag, by)
  <2>1. ASSUME NEW i \in 1 .. Len(net[d]) + 1, Append(net[d], m)[i].tag = tag
        PROVE  \E j \in 1 .. Len(net[d]) + 1 : i < j /\ Append(net[d], m)[j].tag = by
    <3>1. i \in 1 .. Len(net[d]) /\ net[d][i].tag = tag
      BY <1>3, <1>5, <2>1
    <3>2. PICK j \in 1 .. Len(net[d]) : i < j /\ net[d][j].tag = by
      BY <1>3, <1>5, <3>1 DEF Followed
    <3> QED
      BY <1>3, <3>2
  <2>2. Post(net, d, m)[c] = Append(net[d], m) /\ DOMAIN Post(net, d, m)[c] = 1 .. Len(net[d]) + 1
    BY <1>2, <1>3, <1>5
  <2> QED
    BY <2>1, <2>2 DEF Followed
<1> QED
  BY <1>1, <1>4, <1>5

\* Receiving keeps every message followed that is left.
THEOREM DropFollowed ==
    ASSUME NEW M, NEW D, NEW net \in Net(D, M), NEW d \in D, net[d] # <<>>, NEW c \in D,
           NEW tag, NEW by, Followed(net, c, tag, by)
    PROVE  Followed(Drop(net, d), c, tag, by)
<1>1. CASE c # d
  BY <1>1 DEF Followed, Net, Drop
<1>2. CASE c = d
  <2>1. Drop(net, d)[c] = Tail(net[d]) /\ net[d] \in Seq(M)
    BY <1>2 DEF Net, Drop
  <2>2. /\ DOMAIN net[d] = 1 .. Len(net[d]) /\ Len(net[d]) \in Nat /\ Len(net[d]) > 0
        /\ DOMAIN Tail(net[d]) = 1 .. Len(net[d]) - 1
        /\ \A i \in 1 .. Len(net[d]) - 1 : Tail(net[d])[i] = net[d][i + 1]
    BY <2>1
  <2>3. ASSUME NEW i \in 1 .. Len(net[d]) - 1, Tail(net[d])[i].tag = tag
        PROVE  \E j \in 1 .. Len(net[d]) - 1 : i < j /\ Tail(net[d])[j].tag = by
    <3>1. i + 1 \in 1 .. Len(net[d]) /\ net[d][i + 1].tag = tag
      BY <2>2, <2>3
    <3>2. PICK j \in 1 .. Len(net[d]) : i + 1 < j /\ net[d][j].tag = by
      BY <3>1, <2>2, <1>2 DEF Followed
    <3>3. j - 1 \in 1 .. Len(net[d]) - 1 /\ i < j - 1 /\ Tail(net[d])[j - 1] = net[d][j - 1 + 1]
      BY <3>2, <2>2
    <3>4. j - 1 + 1 = j
      BY <3>2
    <3> QED
      BY <3>2, <3>3, <3>4
  <2>4. DOMAIN Drop(net, d)[c] = 1 .. Len(net[d]) - 1
    BY <2>1, <2>2
  <2> QED
    BY <2>1, <2>3, <2>4 DEF Followed
<1> QED
  BY <1>1, <1>2

\* A followed message is not the only kind in its channel.
THEOREM FollowedBy ==
    ASSUME NEW net, NEW c, NEW tag, NEW by, Followed(net, c, tag, by),
           \A m \in Messages(net, c) : m.tag # by
    PROVE  \A m \in Messages(net, c) : m.tag # tag
  BY DEF Followed, Messages

\* What is left of a sequence when its first n elements have been received.
THEOREM SkipIn ==
    ASSUME NEW M, NEW s \in Seq(M), NEW n \in 0 .. Len(s)
    PROVE  /\ Skip(s, n) \in Seq(M) /\ Len(Skip(s, n)) = Len(s) - n
           /\ \A i \in 1 .. Len(s) - n : Skip(s, n)[i] = s[n + i]
           /\ Skip(s, n) = <<>> <=> n = Len(s)
<1> DEFINE r == Skip(s, n)
<1>1. r \in Seq(M) /\ Len(r) = Len(s) - n /\ \A i \in 1 .. Len(r) : r[i] = s[n + i]
  BY SMTT(30) DEF Skip
<1> HIDE DEF r
<1>2. r = <<>> <=> n = Len(s)
  BY <1>1
<1> QED
  BY <1>1, <1>2 DEF r
=============================================================================
