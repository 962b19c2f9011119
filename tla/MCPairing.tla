----------------------------- MODULE MCPairing ------------------------------
(***************************************************************************)
(* Pairing of two connectors with a channel in either direction.             *)
(***************************************************************************)
EXTENDS Pairing

CONSTANTS A, B, g, h

MCConnectors == {A, B}
MCChannels == {g, h}
MCActive == [x \in MCChannels |-> IF x = g THEN A ELSE B]
MCPassive == [x \in MCChannels |-> IF x = g THEN B ELSE A]
MCAttempts == [c \in MCConnectors |-> IF c = A THEN 2 ELSE 1]
=============================================================================
