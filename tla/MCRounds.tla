------------------------------ MODULE MCRounds ------------------------------
(***************************************************************************)
(* Rounds on small trees.  There is one channel, with the variable x.        *)
(***************************************************************************)
EXTENDS Rounds

CONSTANT x

MCSpecVars == {x}
MCNodes == {1, 2, 3}
\* 1 is the leader; 3 can only be reached through 2
ChainParent == [n \in MCNodes |-> IF n = 1 THEN NoParent ELSE n - 1]
\* 1 is the leader of 2 and 3
StarParent == [n \in MCNodes |-> IF n = 1 THEN NoParent ELSE 1]
\* In the star a child may crash; in the chain the leader may leave a round
\* early and the connector between the others may fail, or the leader has a
\* deadline and the one between may leave early.
MCSessions ==
    {[parent |-> StarParent, timeouts |-> {1}, unsat |-> {}, exits |-> {}, crashes |-> {2}],
     [parent |-> ChainParent, timeouts |-> {3}, unsat |-> {2}, exits |-> {1}, crashes |-> {}],
     [parent |-> ChainParent, timeouts |-> {1}, unsat |-> {}, exits |-> {2}, crashes |-> {}]}
\* 2 may put to 3: x fires or not; 3 needs the payload for x to fire.  The
\* leader has no say.
MCPayloadTo == [n \in MCNodes |-> IF n = 2 THEN {3} ELSE {}]
MCCandidates == [n \in MCNodes |->
    CASE n = 1 -> {[pred |-> NoAssignments, needs |-> {}]}
      [] n = 2 -> {[pred |-> Singleton(x, v), needs |-> {}] : v \in {0, 1}}
      [] n = 3 -> {[pred |-> Singleton(x, 0), needs |-> {}],
                   [pred |-> Singleton(x, 1), needs |-> {2}]}]
=============================================================================
