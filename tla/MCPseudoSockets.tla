-------------------------- MODULE MCPseudoSockets ---------------------------
(***************************************************************************)
(* Pseudo sockets with a thread that receives, one that sends, and one that  *)
(* opens and closes descriptors under them.                                  *)
(***************************************************************************)
EXTENDS PseudoSockets

CONSTANTS receiver, sender, opener

MCThreads == {receiver, sender, opener}
MCSpecVars == {out, in}
MCUses == [t \in MCThreads |->
    CASE t = receiver -> {"socket", "bind", "connect", "recv"}
      [] t = sender   -> {"close", "bind", "connect", "send"}
      [] t = opener   -> {"socket", "close", "recv"}]
=============================================================================
