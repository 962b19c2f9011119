---------------------------- MODULE MCUdpRounds -----------------------------
(***************************************************************************)
(* Two UDP endpoints.  The variable b stands for what else a branch of the   *)
(* putter may have learned before its put.                                   *)
(***************************************************************************)
EXTENDS UdpRounds

CONSTANTS o1, o2, n1, n2, b

MCSpecVars == {o1, o2, n1, n2, b}
MCOutVar == <<o1, o2>>
MCInVar == <<n1, n2>>
\* a branch that puts to 1 may have learned b first
MCPutPredicates ==
    <<{Singleton(o1, FIRING)} \cup {Inserted(Singleton(o1, FIRING), b, v) : v \in {0, 1}},
      {Singleton(o2, FIRING)}>>
MCSolutionPredicates ==
    {[v \in MCSpecVars |-> f[v]] : f \in [MCSpecVars -> {0, 1}]}
=============================================================================
