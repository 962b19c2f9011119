----------------------------- MODULE MCBranches -----------------------------
(***************************************************************************)
(* One connector, so small that what is assumed of Run can be evaluated:       *)
(* its native puts a message to c, in one of two batches, c asks d about it,    *)
(* and d answers.  Programs and Run are those of MCSyncRound.                  *)
(***************************************************************************)
EXTENDS Branches, MCSyncRound

MCOneNative == {A}
MCThreeChannels == {e, g, k}
MCFourVars == {A, e, g, k}
MCPutterOfAsking == [ch \in MCThreeChannels |-> CASE ch = e -> A [] ch = g -> c [] ch = k -> d]
MCGetterOfAsking == [ch \in MCThreeChannels |-> IF ch = g THEN d ELSE c]
MCStates == [z \in MCComps |-> [pc : IF z = c THEN {26, 27, 28, 1} ELSE {44, 45, 46, 1}, reg : Payloads]]
MCTwoBatches ==
    {[start |-> [z \in MCComps |-> At(IF z = c THEN 26 ELSE 44)],
      batches |-> [n \in MCOneNative |-> <<Batch(PutOn(e, 0), {}), Batch(PutOn(e, 1), {})>>]]}
=============================================================================
