----------------------------- MODULE MCElection -----------------------------
(***************************************************************************)
(* Election on small networks.  An endpoint <<c, o>> is the end at connector*)
(* c[1] of the channel c = <<i, j, k>> (the k-th one between i and j); o is  *)
(* 1 or 2.                                                                   *)
(***************************************************************************)
EXTENDS Election

CONSTANT Channels    \* the channels <<i, j, k>>

MCEndpoints == Channels \X {1, 2}
MCOwner == [e \in MCEndpoints |-> e[1][e[2]]]
MCPeer == [e \in MCEndpoints |-> <<e[1], 3 - e[2]>>]
\* Some order of the endpoints of each connector.
Before(e, f) ==
    \/ e[1][1] < f[1][1]
    \/ e[1][1] = f[1][1] /\ e[1][2] < f[1][2]
    \/ e[1][1] = f[1][1] /\ e[1][2] = f[1][2] /\ e[1][3] < f[1][3]
    \/ e[1] = f[1] /\ e[2] < f[2]
MCIndex == [e \in MCEndpoints |->
    Cardinality({f \in MCEndpoints : MCOwner[f] = MCOwner[e] /\ Before(f, e)})]

\* A cycle of four with a chord; 4 is not next to 2.
Diamond == {<<1, 2, 1>>, <<2, 3, 1>>, <<3, 4, 1>>, <<1, 4, 1>>, <<1, 3, 1>>}
\* Two channels between 1 and 2, one from 2 to itself, and 4 is on its own.
Multigraph == {<<1, 2, 1>>, <<1, 2, 2>>, <<2, 2, 1>>, <<3, 1, 1>>}

MCChannels == Diamond \cup Multigraph

\* A larger network in which nothing fails, and a smaller one in which any
\* connector with a neighbour may time out and those that are done go on.
MCSessions ==
    {[net |-> Diamond \X {1, 2}, timeouts |-> {}, comm |-> 0],
     [net |-> Multigraph \X {1, 2}, timeouts |-> {1, 2, 3}, comm |-> 1]}
=============================================================================
