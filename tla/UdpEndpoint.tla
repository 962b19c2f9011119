---------------------------- MODULE UdpEndpoint -----------------------------
(***************************************************************************)
(* What a UDP mediator keeps: struct UdpEndpointExt (runtime/mod.rs) and the *)
(* code that works on it in runtime/communication.rs and endpoints.rs.       *)
(*                                                                           *)
(* Payloads put by speculative branches wait in an outbox under the branch's *)
(* predicate until the round is decided; of the datagrams that arrive, one a *)
(* round is handed to the port.  What a datagram contains does not matter:   *)
(* the kernel's buffer is a number.                                          *)
(***************************************************************************)
EXTENDS Predicates, Naturals, FiniteSets

FIRING == 1
SILENT == 0

\* The endpoint setup_endpoints_and_pair_ports builds.
NewEndpoint == [outgoing_payloads |-> {}, received_this_round |-> FALSE, arrived |-> 0]

UdpEndpointExt(Payloads, MaxArrived) ==
    [outgoing_payloads   : SUBSET [predicate : Predicate, payload : Payloads],
     received_this_round : BOOLEAN,
     arrived             : 0..MaxArrived]

\* HashMap::insert: a payload of the same predicate is replaced.
Outgoing(ee, p, d) ==
    [ee EXCEPT !.outgoing_payloads =
        {o \in @ : o.predicate # p} \cup {[predicate |-> p, payload |-> d]}]

\* A datagram reaches the socket's buffer (the network).
Arrived(ee) == [ee EXCEPT !.arrived = @ + 1]

\* try_recv_any_comms: is a datagram handed to getter_for_incoming when the
\* socket is drained?
HandsOver(ee) == ee.arrived > 0 /\ ~ee.received_this_round

\* The same for the endpoint: the socket is read until it would block, and
\* whatever follows the first datagram of the round is lost.
Drained(ee) ==
    [ee EXCEPT !.arrived = 0, !.received_this_round = @ \/ ee.arrived > 0]

\* (mutant) the outbox is emptied on the wire without a look at the decision
SendableAny(ee, solution) == ee.outgoing_payloads

\* The payloads of the branches that are consistent with the decision.
Sendable(ee, solution) ==
    {o \in ee.outgoing_payloads : AssignsSubset(o.predicate, solution)}

\* (mutant) the flag is not reset
CommittedDeaf(ee) == [ee EXCEPT !.outgoing_payloads = {}]

\* udp_endpoints_round_end after Decision::Success: the outbox is drained
\* (dropping the iterator removes what the loop has not visited).
Committed(ee) ==
    [ee EXCEPT !.outgoing_payloads = {}, !.received_this_round = FALSE]

\* The same when the send fails: the `?` leaves before the flag is reset.
CommitFailed(ee) == [ee EXCEPT !.outgoing_payloads = {}]
=============================================================================
