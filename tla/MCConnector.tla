----------------------------- MODULE MCConnector ----------------------------
(***************************************************************************)
(* Connector with concrete identifiers and bounds.                           *)
(***************************************************************************)
EXTENDS Connector
=============================================================================
