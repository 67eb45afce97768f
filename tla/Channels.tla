------------------------------ MODULE Channels ------------------------------
(***************************************************************************)
(* Channels that keep the order of their messages, as MPI does for two     *)
(* messages of one communicator from one rank to another.  A network is a  *)
(* function from channels to the sequences of messages that are on their   *)
(* way, each a record with a tag.                                          *)
(***************************************************************************)
EXTENDS Integers, Sequences, FiniteSets

Net(D, M) == [D -> Seq(M)]

\* MPI_Send to, and MPI_Recv from, one channel.
Post(net, c, m) == [net EXCEPT ![c] = Append(@, m)]
Drop(net, c) == [net EXCEPT ![c] = Tail(@)]

\* What is left in a channel when its first n messages have been received.
Skip(s, n) == SubSeq(s, n + 1, Len(s))

\* The same message to every channel: a loop over the ranks.
PostAll(net, m) == [c \in DOMAIN net |-> Append(net[c], m)]

\* A message of its own, f[c], to every channel in the domain of f.
PostEach(net, f) ==
    [c \in DOMAIN net |-> IF c \in DOMAIN f THEN Append(net[c], f[c]) ELSE net[c]]

\* What is on its way in channel c.
Messages(net, c) == {net[c][i] : i \in DOMAIN net[c]}

\* The places in the channels C at which a message with this tag is.
Carrying(net, C, tag) ==
    UNION {{<<c, i>> : i \in {j \in DOMAIN net[c] : net[c][j].tag = tag}} : c \in C}

\* How many such messages there are.
Count(net, C, tag) == Cardinality(Carrying(net, C, tag))

\* No message with a tag in S is behind one with this tag in channel c.
NoneBehind(net, c, tag, S) ==
    \A i, j \in DOMAIN net[c] : i < j /\ net[c][i].tag = tag => net[c][j].tag \notin S

\* Behind every message with this tag in channel c there is one with tag `by`.
Followed(net, c, tag, by) ==
    \A i \in DOMAIN net[c] :
        net[c][i].tag = tag => \E j \in DOMAIN net[c] : i < j /\ net[c][j].tag = by
=============================================================================
