----------------------------- MODULE UdpRounds ------------------------------
(***************************************************************************)
(* The UDP mediators of one connector over several rounds: the UdpEndpoint   *)
(* arm of sync_reach_decision, the UDP part of try_recv_any_comms, and        *)
(* udp_endpoints_round_end.                                                   *)
(*                                                                           *)
(* The branches that put, and the decision of the round, come from the rest  *)
(* of the session (SyncRound, Rounds).  SyncRound!MessagesUnambiguous says    *)
(* what may be assumed of the puts of one round on one port: their           *)
(* predicates contradict each other.  A payload is the number of the round    *)
(* it was put in.                                                             *)
(***************************************************************************)
EXTENDS UdpEndpoint

CONSTANTS
    Endpoints,        \* the indices of the UDP endpoints
    OutVar,           \* OutVar[i]: the variable of the channel into mediator i
    InVar,            \* InVar[i]: the variable of the channel out of mediator i
    PutPredicates,    \* the predicates under which branches may put to i
    SolutionPredicates,
    MaxRounds,        \* bound: the number of rounds
    MaxArrived        \* bound: the datagrams waiting in a socket's buffer

ASSUME EndpointsAssumption == Endpoints \subseteq Nat
ASSUME VarsAssumption ==
    /\ {FIRING, SILENT} \subseteq SpecVals
    /\ OutVar \in [Endpoints -> SpecVars]
    /\ InVar \in [Endpoints -> SpecVars]
ASSUME BoundsAssumption == MaxRounds \in Nat /\ MaxArrived \in Nat
ASSUME PutPredicatesAssumption ==
    /\ PutPredicates \in [Endpoints -> SUBSET Predicate]
    /\ \A i \in Endpoints : \A p \in PutPredicates[i] : p[OutVar[i]] = FIRING
ASSUME SolutionPredicatesAssumption == SolutionPredicates \subseteq Predicate

VARIABLES
    phase,      \* idle, running or broken (an unrecoverable error)
    round,      \* comm.round_index
    ee,         \* udp_endpoint_store.endpoint_exts
    puts,       \* puts[i]: the predicates of this round's puts to mediator i
    handed,     \* the endpoints that have handed over a datagram in this round
    wire,       \* history: the datagrams sent, with the round they left in
    decided,    \* history: the predicate of every round that succeeded
    failed      \* history: the last round failed

vars == <<phase, round, ee, puts, handed, wire, decided, failed>>

Rounds == 0..(MaxRounds - 1)
Undecided == [kind |-> "Undecided"]
Failure == [kind |-> "Failure"]
Success(s) == [kind |-> "Success", predicate |-> s]
Datagram == [round : Rounds, index : Endpoints, predicate : Predicate, payload : Rounds]

TypeOK ==
    /\ phase \in {"idle", "running", "broken"}
    /\ round \in 0..MaxRounds
    /\ ee \in [Endpoints -> UdpEndpointExt(Rounds, MaxArrived)]
    /\ puts \in [Endpoints -> SUBSET Predicate]
    /\ handed \subseteq Endpoints
    /\ wire \subseteq Datagram
    /\ DOMAIN decided = Rounds
    /\ failed \in BOOLEAN

Init ==
    /\ phase = "idle"
    /\ round = 0
    /\ ee = [i \in Endpoints |-> NewEndpoint]
    /\ puts = [i \in Endpoints |-> {}]
    /\ handed = {}
    /\ wire = {}
    /\ decided = [r \in Rounds |-> Undecided]
    /\ failed = FALSE
-----------------------------------------------------------------------------
\* sync() is called.
StartRound ==
    /\ phase = "idle"
    /\ round < MaxRounds
    /\ phase' = "running"
    /\ puts' = [i \in Endpoints |-> {}]
    /\ handed' = {}
    /\ UNCHANGED <<round, ee, wire, decided, failed>>

\* A payload put by a branch is routed to the mediator, which keeps it.
RouteToUdp(i, p) ==
    /\ phase = "running"
    /\ \A q \in puts[i] : ~Consistent(p, q)
    /\ puts' = [puts EXCEPT ![i] = @ \cup {p}]
    /\ ee' = [ee EXCEPT ![i] = Outgoing(@, p, round)]
    /\ UNCHANGED <<phase, round, handed, wire, decided, failed>>

\* The network delivers a datagram to the socket, in a round or between rounds.
Arrive(i) ==
    /\ ee[i].arrived < MaxArrived
    /\ ee' = [ee EXCEPT ![i] = Arrived(@)]
    /\ UNCHANGED <<phase, round, puts, handed, wire, decided, failed>>

\* The decision loop polls and drains the socket.
DrainUdp(i) ==
    /\ phase = "running"
    /\ ee[i].arrived > 0
    /\ ee' = [ee EXCEPT ![i] = Drained(@)]
    /\ handed' = IF HandsOver(ee[i]) THEN handed \cup {i} ELSE handed
    /\ UNCHANGED <<phase, round, puts, wire, decided, failed>>

\* The solutions the session may decide on: a port fires exactly if a branch of
\* the decision put to it, or took the datagram handed to it.
Possible(s) ==
    \A i \in Endpoints :
        /\ s[OutVar[i]] = FIRING <=> \E p \in puts[i] : AssignsSubset(p, s)
        /\ s[InVar[i]] = FIRING => i \in handed

\* udp_endpoints_round_end for Decision::Failure does nothing.
EndFailure ==
    /\ phase = "running"
    /\ phase' = "idle"
    /\ round' = round + 1
    /\ decided' = [decided EXCEPT ![round] = Failure]
    /\ failed' = TRUE
    /\ UNCHANGED <<ee, puts, handed, wire>>

\* The datagrams of the endpoints in `is`: one each, picked in no order.
Sent(is, s, pick) ==
    {[round |-> round, index |-> i, predicate |-> pick[i].predicate, payload |-> pick[i].payload] :
        i \in {j \in is : Sendable(ee[j], s) # {}}}

\* What the loop over drain() of a HashMap may send first.
Picks(s) == {pick \in [Endpoints -> UNION {ee[i].outgoing_payloads : i \in Endpoints}
                                        \cup {Undecided}] :
                \A i \in Endpoints :
                    pick[i] \in IF Sendable(ee[i], s) = {} THEN {Undecided}
                                ELSE Sendable(ee[i], s)}

\* udp_endpoints_round_end for Decision::Success: every endpoint sends at most
\* one datagram.
EndSuccess(s) ==
    /\ phase = "running"
    /\ Possible(s)
    /\ \E pick \in Picks(s) : wire' = wire \cup Sent(Endpoints, s, pick)
    /\ ee' = [i \in Endpoints |-> Committed(ee[i])]
    /\ phase' = "idle"
    /\ round' = round + 1
    /\ decided' = [decided EXCEPT ![round] = Success(s)]
    /\ failed' = FALSE
    /\ UNCHANGED <<puts, handed>>

\* The send of endpoint b fails: the endpoints before it have committed, those
\* after it are not visited, and the session is broken.
EndBroken(s, b) ==
    /\ phase = "running"
    /\ Possible(s)
    /\ Sendable(ee[b], s) # {}
    /\ \E pick \in Picks(s) : wire' = wire \cup Sent({i \in Endpoints : i < b}, s, pick)
    /\ ee' = [i \in Endpoints |-> IF i < b THEN Committed(ee[i])
                                  ELSE IF i = b THEN CommitFailed(ee[i]) ELSE ee[i]]
    /\ phase' = "broken"
    /\ round' = round + 1
    /\ decided' = [decided EXCEPT ![round] = Success(s)]
    /\ UNCHANGED <<puts, handed, failed>>

Next ==
    \/ StartRound
    \/ \E i \in Endpoints : \E p \in PutPredicates[i] : RouteToUdp(i, p)
    \/ \E i \in Endpoints : Arrive(i)
    \/ \E i \in Endpoints : DrainUdp(i)
    \/ EndFailure
    \/ \E s \in SolutionPredicates : EndSuccess(s)
    \/ \E s \in SolutionPredicates, b \in Endpoints : EndBroken(s, b)

Spec == Init /\ [][Next]_vars
-----------------------------------------------------------------------------
(* Properties *)

\* No speculation escapes through UDP: a datagram leaves only in a round that
\* succeeded, and only if its branch is consistent with the decision, whatever
\* was left in the outbox by rounds that failed.
NoSpeculationEscapes ==
    \A d \in wire : /\ decided[d.round].kind = "Success"
                    /\ AssignsSubset(d.predicate, decided[d.round].predicate)

\* A committed put is sent, once: an endpoint has sent one datagram in a
\* successful round in which its port fired, and none in any other round.
\* (The last round of a broken session may be incomplete.)
OneDatagramPerPut ==
    \A r \in Rounds, i \in Endpoints :
        r < round /\ ~(phase = "broken" /\ r = round - 1) =>
            Cardinality({d \in wire : d.round = r /\ d.index = i})
                = IF decided[r].kind = "Success" /\ decided[r].predicate[OutVar[i]] = FIRING
                  THEN 1 ELSE 0

\* What leaves is exactly what was committed.
DatagramsExact == NoSpeculationEscapes /\ OneDatagramPerPut

\* A connector whose last round succeeded is not deaf: until a datagram has been
\* handed over in the round, the next one that arrives will be
\* (ee.received_this_round = false at the end of a successful round).
NotDeafAfterSuccess ==
    phase = "running" /\ ~failed =>
        \A i \in Endpoints : i \notin handed => ~ee[i].received_this_round

\* "we commit the branch of the component consistent with the predicate decided
\* upon": a datagram was put in the round it is sent in.
SentInItsRound == \A d \in wire : d.payload = d.round
=============================================================================
