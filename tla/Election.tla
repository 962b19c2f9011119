------------------------------ MODULE Election ------------------------------
(***************************************************************************)
(* Construction of the consensus tree: runtime/setup.rs, init_neighborhood, *)
(* run by every connector at the end of connect().                          *)
(*                                                                          *)
(* Phase 1 elects the connector with the greatest identifier by an echo     *)
(* algorithm with extinction; phase 2 makes the others agree on a spanning  *)
(* tree.  Connectors enter at different times, exchange messages over FIFO  *)
(* TCP streams, may time out, and may start to communicate (CommMsg) while  *)
(* their neighbours are still constructing the tree.                        *)
(*                                                                          *)
(* An endpoint is one end of a net channel.  Channels may be parallel, and  *)
(* both ends may belong to one connector.                                   *)
(***************************************************************************)
EXTENDS Naturals, Sequences, FiniteSets, SequencesExt

CONSTANTS
    Connectors,    \* the ConnectorIds; they are compared by the election
    Endpoints,     \* the net endpoints connectors may have
    Owner,         \* Owner[e]: the connector that has endpoint e
    Peer,          \* Peer[e]: the other end of the TCP stream of e
    Index,         \* Index[e]: position in the owner's endpoint_exts
    NoEndpoint,    \* parent: None
    Sessions       \* the sessions considered, see Session

ASSUME ConnectorsAssumption == Connectors \subseteq Nat
ASSUME OwnerAssumption == Owner \in [Endpoints -> Connectors]
ASSUME PeerAssumption ==
    /\ Peer \in [Endpoints -> Endpoints]
    /\ \A e \in Endpoints : Peer[e] # e /\ Peer[Peer[e]] = e
ASSUME IndexAssumption ==
    /\ Index \in [Endpoints -> Nat]
    /\ \A e, f \in Endpoints : Owner[e] = Owner[f] /\ Index[e] = Index[f] => e = f
ASSUME NoEndpointAssumption == NoEndpoint \notin Endpoints

Session == [net : SUBSET Endpoints,           \* the endpoints there are
            timeouts : SUBSET Connectors,     \* whose connect() was given a timeout
            comm : Nat]                       \* bound: CommMsgs sent per endpoint

ASSUME SessionsAssumption ==
    /\ Sessions \subseteq Session
    /\ \A s \in Sessions : \A e \in s.net : Peer[e] \in s.net

VARIABLES
    session,     \* what the applications have asked for; it does not change
    node,        \* node[n]: the locals of n's init_neighborhood, see Node
    chan,        \* chan[e]: the messages on their way to endpoint e
    commSent     \* commSent[e]: CommMsgs sent so far through e

vars == <<session, node, chan, commSent>>

LeaderWave(l) == [type |-> "LeaderWave", leader |-> l]
LeaderAnnounce(l) == [type |-> "LeaderAnnounce", leader |-> l]
YouAreMyParent == [type |-> "YouAreMyParent"]
CommMsg == [type |-> "CommMsg"]
Msg == [type : {"LeaderWave", "LeaderAnnounce"}, leader : Connectors]
         \cup {YouAreMyParent, CommMsg}

\* The phase says where in connect() the connector is, or how connect() ended.
Phases == {"pairing", "election", "tree", "done",
           "timeout", "broken", "misbehavior", "panic"}

Node == [phase : Phases,
         leader : Connectors,                       \* best_wave / election_result
         parent : Endpoints \cup {NoEndpoint},
         awaiting : SUBSET Endpoints,
         children : SUBSET Endpoints,
         delayed : Seq(Endpoints \X Msg),           \* em.delayed_messages
         undelayed : Seq(Endpoints \X Msg)]         \* em.undelayed_messages

TypeOK ==
    /\ node \in [Connectors -> Node]
    /\ chan \in [Endpoints -> Seq(Msg)]
    /\ session \in Sessions
    /\ commSent \in [Endpoints -> 0..session.comm]

EndpointsOf(n) == {e \in session.net : Owner[e] = n}
Neighbor(e) == Owner[Peer[e]]

\* connect() of n returned an error and its sockets are closed.
Failed(n) == node[n].phase \in {"timeout", "broken", "misbehavior", "panic"}
\* n has left the election loop and has not failed since
Settled(n) == node[n].phase \in {"tree", "done"}

Init ==
    /\ session \in Sessions
    /\ node = [n \in Connectors |->
                 [phase |-> "pairing", leader |-> n, parent |-> NoEndpoint,
                  awaiting |-> {}, children |-> {}, delayed |-> <<>>, undelayed |-> <<>>]]
    /\ chan = [e \in Endpoints |-> <<>>]
    /\ commSent = [e \in Endpoints |-> 0]
-----------------------------------------------------------------------------
(* Sending and receiving *)

\* chan after n has sent out[f] through each endpoint f in DOMAIN out.
Deliver(ch, out) ==
    [e \in Endpoints |-> IF Peer[e] \in DOMAIN out THEN Append(ch[e], out[Peer[e]]) ELSE ch[e]]

\* The messages that precede endpoint f in `for index in em.index_iter()`.
SentBefore(out, f) ==
    [g \in {h \in DOMAIN out : Index[h] < Index[f]} |-> out[g]]

\* The rest of a handler that sends `out` and leaves n in state `new`.  A send
\* to a closed peer may be buffered, or may fail: send_to_setup(..)? then
\* returns NetEndpointSetupError after the earlier sends have gone out.
Proceed(n, ch, out, new) ==
    \/ /\ chan' = Deliver(ch, out)
       /\ node' = [node EXCEPT ![n] = new]
    \/ \E f \in DOMAIN out :
         /\ Failed(Neighbor(f))
         /\ chan' = Deliver(ch, SentBefore(out, f))
         /\ node' = [node EXCEPT ![n].phase = "broken"]

\* undelay_all
UndelayAll(rec) ==
    [rec EXCEPT !.undelayed = @ \o rec.delayed, !.delayed = <<>>]

\* What try_recv_any_setup may yield to n: the last undelayed message if there
\* is one, otherwise the first message of any stream ...
Incoming(n) ==
    IF node[n].undelayed # <<>>
    THEN {Last(node[n].undelayed)}
    ELSE {<<e, Head(chan[e])>> : e \in {f \in EndpointsOf(n) : chan[f] # <<>>}}

\* ... and the streams and the record of n without it.
ChanAfter(n, e) ==
    IF node[n].undelayed # <<>> THEN chan ELSE [chan EXCEPT ![e] = Tail(@)]

NodeAfter(n) ==
    IF node[n].undelayed # <<>> THEN [node[n] EXCEPT !.undelayed = Front(@)] ELSE node[n]
-----------------------------------------------------------------------------
(* Phase 1: leader election *)

\* (mutant) the parent is told again
WaveToAll(n, leader, parent) == [f \in EndpointsOf(n) |-> LeaderWave(leader)]

\* do_wave: everyone but the parent is told and has to answer.
Wave(n, leader, parent) ==
    [f \in EndpointsOf(n) \ {parent} |-> LeaderWave(leader)]

\* setup_endpoints_and_pair_ports has returned: n starts its own wave, or is
\* done if it has no endpoints.
Begin(n) ==
    /\ node[n].phase = "pairing"
    /\ IF EndpointsOf(n) = {}
       THEN /\ node' = [node EXCEPT ![n].phase = "done"]
            /\ UNCHANGED chan
       ELSE Proceed(n, chan, Wave(n, n, NoEndpoint),
                    UndelayAll([node[n] EXCEPT !.phase = "election",
                                               !.awaiting = EndpointsOf(n)]))
    /\ UNCHANGED <<session, commSent>>

\* Leaving the election loop: phase 2 starts with one message per neighbour.
\* A connector whose only neighbour is its parent awaits nobody and is done.
StartTree(n, rec, ch, leader, parent) ==
    LET awaiting == EndpointsOf(n) \ {parent}
        out == [f \in EndpointsOf(n) |->
                   IF f = parent THEN YouAreMyParent ELSE LeaderAnnounce(leader)]
    IN  Proceed(n, ch, out,
                UndelayAll([rec EXCEPT !.phase = IF awaiting = {} THEN "done" ELSE "tree",
                                       !.leader = leader,
                                       !.parent = parent,
                                       !.awaiting = awaiting,
                                       !.children = {}]))

\* LeaderAnnounce ends the election for a loser.
ElectionAnnounce(n, e, m) ==
    /\ node[n].phase = "election"
    /\ m.type = "LeaderAnnounce"
    /\ IF m.leader >= node[n].leader /\ m.leader # n
       THEN StartTree(n, NodeAfter(n), ChanAfter(n, e), m.leader, e)
       ELSE /\ node' = [node EXCEPT ![n].phase = "panic"]     \* the two asserts
            /\ UNCHANGED chan
    /\ UNCHANGED commSent

\* O::Less: the wave is extinct.  A wave that is still there once the tree is
\* under construction is an "old message" and discarded too.
IgnoreWave(n, e, m) ==
    /\ m.type = "LeaderWave"
    /\ node[n].phase = "election" => m.leader < node[n].leader
    /\ chan' = ChanAfter(n, e)
    /\ node' = [node EXCEPT ![n] = NodeAfter(n)]
    /\ UNCHANGED commSent

\* O::Greater: join the wave; a leaf of the wave replies at once.
JoinWave(n, e, m) ==
    /\ node[n].phase = "election"
    /\ m.type = "LeaderWave"
    /\ m.leader > node[n].leader
    /\ LET awaiting == EndpointsOf(n) \ {e}
           out == IF awaiting = {} THEN [f \in {e} |-> m] ELSE Wave(n, m.leader, e)
       IN  Proceed(n, ChanAfter(n, e), out,
                   [NodeAfter(n) EXCEPT !.leader = m.leader,
                                        !.parent = e,
                                        !.awaiting = awaiting])
    /\ UNCHANGED commSent

\* (mutant) the first reply is taken for the last
CountReplyHasty(n, e, m) ==
    /\ node[n].phase = "election"
    /\ m.type = "LeaderWave"
    /\ m.leader = node[n].leader
    /\ IF node[n].parent # NoEndpoint
       THEN Proceed(n, ChanAfter(n, e), [f \in {node[n].parent} |-> m], NodeAfter(n))
       ELSE StartTree(n, NodeAfter(n), ChanAfter(n, e), node[n].leader, NoEndpoint)
    /\ UNCHANGED commSent

\* O::Equal: a reply.  The last one is passed on to the parent; at the
\* initiator it wins the election.
CountReply(n, e, m) ==
    /\ node[n].phase = "election"
    /\ m.type = "LeaderWave"
    /\ m.leader = node[n].leader
    /\ LET awaiting == node[n].awaiting \ {e}
           parent == node[n].parent
           rec == [NodeAfter(n) EXCEPT !.awaiting = awaiting]
       IN  IF e \notin node[n].awaiting
           THEN /\ node' = [node EXCEPT ![n].phase = "panic"]  \* assert!(awaiting.remove(..))
                /\ UNCHANGED chan
           ELSE \/ /\ awaiting # {}
                   /\ chan' = ChanAfter(n, e)
                   /\ node' = [node EXCEPT ![n] = rec]
                \/ /\ awaiting = {}
                   /\ parent # NoEndpoint
                   /\ Proceed(n, ChanAfter(n, e), [f \in {parent} |-> m], rec)
                \/ /\ awaiting = {}
                   /\ parent = NoEndpoint
                   /\ StartTree(n, rec, ChanAfter(n, e), node[n].leader, NoEndpoint)
    /\ UNCHANGED commSent
-----------------------------------------------------------------------------
(* Phase 2: tree construction *)

\* (mutant) the loop condition is not re-evaluated
AnsweredForever(n, e) == [NodeAfter(n) EXCEPT !.awaiting = @ \ {e}]

\* One neighbour of n has answered; the loop ends when all have.
Answered(n, e) ==
    LET rec == [NodeAfter(n) EXCEPT !.awaiting = @ \ {e}]
    IN  IF rec.awaiting = {} THEN [rec EXCEPT !.phase = "done"] ELSE rec

\* (mutant) a second announcement is adopted as well
TreeAnnounceReparents(n, e, m) ==
    /\ node[n].phase = "tree"
    /\ m.type = "LeaderAnnounce"
    /\ chan' = ChanAfter(n, e)
    /\ node' = [node EXCEPT ![n] = 
                  IF node[n].parent = NoEndpoint
                  THEN Answered(n, e) ELSE [Answered(n, e) EXCEPT !.parent = e]]
    /\ UNCHANGED commSent

\* LeaderAnnounce: the neighbour is not a child.
TreeAnnounce(n, e, m) ==
    /\ node[n].phase = "tree"
    /\ m.type = "LeaderAnnounce"
    /\ chan' = ChanAfter(n, e)
    /\ node' = [node EXCEPT ![n] =
                  IF e \in node[n].awaiting
                  THEN Answered(n, e) ELSE [NodeAfter(n) EXCEPT !.phase = "misbehavior"]]
    /\ UNCHANGED commSent

\* YouAreMyParent: the neighbour is a child.  It is an error during the election
\* and when the neighbour has answered before.
ChildMsg(n, e, m) ==
    /\ m.type = "YouAreMyParent"
    /\ chan' = ChanAfter(n, e)
    /\ node' = [node EXCEPT ![n] =
                  IF node[n].phase = "tree" /\ e \in node[n].awaiting
                  THEN [Answered(n, e) EXCEPT !.children = @ \cup {e}]
                  ELSE [NodeAfter(n) EXCEPT !.phase = "misbehavior"]]
    /\ UNCHANGED commSent

\* (mutant) early messages are discarded like old ones
DelayCommDiscards(n, e, m) ==
    /\ m.type = "CommMsg"
    /\ chan' = ChanAfter(n, e)
    /\ node' = [node EXCEPT ![n] = NodeAfter(n)]
    /\ UNCHANGED commSent

\* A CommMsg of a neighbour that is already done is kept for the first round.
DelayComm(n, e, m) ==
    /\ m.type = "CommMsg"
    /\ chan' = ChanAfter(n, e)
    /\ node' = [node EXCEPT ![n] = [NodeAfter(n) EXCEPT !.delayed = Append(@, <<e, m>>)]]
    /\ UNCHANGED commSent

Recv(n) ==
    /\ node[n].phase \in {"election", "tree"}
    /\ \E em \in Incoming(n) : LET e == em[1]  m == em[2] IN
        \/ ElectionAnnounce(n, e, m)
        \/ IgnoreWave(n, e, m)
        \/ JoinWave(n, e, m)
        \/ CountReply(n, e, m)
        \/ TreeAnnounce(n, e, m)
        \/ ChildMsg(n, e, m)
        \/ DelayComm(n, e, m)
    /\ UNCHANGED session
-----------------------------------------------------------------------------
(* Failures, and the rounds that follow *)

\* The deadline of connect() passes while n waits: ConnectError::Timeout.
Timeout(n) ==
    /\ n \in session.timeouts
    /\ node[n].phase \in {"pairing", "election", "tree"}
    /\ node' = [node EXCEPT ![n].phase = "timeout"]
    /\ UNCHANGED <<session, chan, commSent>>

\* Reading from a stream that a failed neighbour has reset is an error (one
\* that was merely closed just stays silent: try_recv takes Ok(0) for no data).
ReadBroken(n) ==
    /\ node[n].phase \in {"election", "tree"}
    /\ \E f \in EndpointsOf(n) : Failed(Neighbor(f))
    /\ node' = [node EXCEPT ![n].phase = "broken"]
    /\ UNCHANGED <<session, chan, commSent>>

\* sync() of a connected connector sends a payload or a control message.
SendComm(n) ==
    /\ node[n].phase = "done"
    /\ \E f \in EndpointsOf(n) :
         /\ commSent[f] < session.comm
         /\ commSent' = [commSent EXCEPT ![f] = @ + 1]
         /\ chan' = [chan EXCEPT ![Peer[f]] = Append(@, CommMsg)]
    /\ UNCHANGED <<session, node>>

Next ==
    \E n \in Connectors :
        \/ Begin(n)
        \/ Recv(n)
        \/ Timeout(n)
        \/ ReadBroken(n)
        \/ SendComm(n)

Spec == Init /\ [][Next]_vars

\* Every connector keeps polling until init_neighborhood returns.
Fairness == \A n \in Connectors : WF_vars(Begin(n)) /\ WF_vars(Recv(n))

FairSpec == Spec /\ Fairness
-----------------------------------------------------------------------------
(* Properties *)

\* The connectors that are linked to n by channels, directly or not.
Closed(S) == \A e \in session.net : Owner[e] \in S => Neighbor(e) \in S
Component(n) == {m \in Connectors : \A S \in SUBSET Connectors : n \in S /\ Closed(S) => m \in S}

\* init_neighborhood, "Only the wave of the connector with GREATEST ID
\* completes": whoever leaves the election believes in the greatest connector
\* it is linked to, and only that one has no parent.
GreatestLeads ==
    \A n \in Connectors : Settled(n) =>
        /\ node[n].leader \in Component(n)
        /\ \A m \in Component(n) : m <= node[n].leader
        /\ node[n].parent = NoEndpoint <=> n = node[n].leader

\* The parents of settled connectors never form a cycle, so that with
\* GreatestLeads every path of parents ends at the leader.
ParentsAcyclic ==
    \A S \in SUBSET Connectors : S # {} =>
        \E n \in S : ~ /\ Settled(n)
                       /\ node[n].parent # NoEndpoint
                       /\ Neighbor(node[n].parent) \in S

\* A connector that is done knows its children: of the endpoints to connectors
\* that have not failed, exactly those whose other end is the parent of its
\* owner.  Suggestions and announcements of a round travel along these.
ChildrenKnown ==
    \A n \in Connectors : node[n].phase = "done" =>
        \A e \in EndpointsOf(n) : ~Failed(Neighbor(e)) =>
            (e \in node[n].children <=> node[Neighbor(e)].parent = Peer[e])

\* The parents and children of the connectors make up one tree.
ConsensusTree == ParentsAcyclic /\ ChildrenKnown

\* However waves, replies and announcements of connectors that enter at
\* different times interleave: no assert of the election loop fails and no
\* neighbour is accused of SetupAlgMisbehavior.
NoMisbehavior == \A n \in Connectors : node[n].phase \notin {"panic", "misbehavior"}

\* How often x occurs in a list.
Occurrences(seq, x) == Cardinality({i \in DOMAIN seq : seq[i] = x})

\* A message of round 0 that arrives while the receiver is still constructing
\* the tree is neither lost nor duplicated.
CommMsgsKept ==
    \A e \in Endpoints : ~Failed(Owner[e]) =>
        commSent[Peer[e]] = Occurrences(chan[e], CommMsg)
                              + Occurrences(node[Owner[e]].delayed, <<e, CommMsg>>)
                              + Occurrences(node[Owner[e]].undelayed, <<e, CommMsg>>)

\* If nobody times out, every connector ends up in the tree.
EveryoneConnects ==
    <>(\/ \A n \in Connectors : node[n].phase = "done"
       \/ \E n \in Connectors : Failed(n))
=============================================================================
