------------------------------ MODULE Pairing -------------------------------
(***************************************************************************)
(* The first half of connect(): setup_endpoints_and_pair_ports               *)
(* (runtime/setup.rs).  Every connector opens its endpoints, connects or      *)
(* accepts, and exchanges with the peer of each the port behind it.           *)
(*                                                                           *)
(* TCP is modelled from its use: a channel is an address at which its passive*)
(* end listens; a connection of a channel has two ends and a stream of bytes  *)
(* in either direction.  MyPortInfo is long enough to be read in two parts.   *)
(* connect() may fail at any moment and be called again; the ends that it     *)
(* leaves behind are closed, which the other side may notice or not.          *)
(***************************************************************************)
EXTENDS Naturals, Sequences, FiniteSets

CONSTANTS
    Connectors,
    Channels,
    Active,         \* Active[h]: the connector that connects channel h
    Passive,        \* Passive[h]: the connector that accepts it
    MayMismatch,    \* the channels whose ports may have the same polarity
    Fragmented,     \* bound: the channels whose bytes may be read in parts
    MayTimeout,     \* the connectors that call connect() with a timeout
    MaxAttempts,    \* bound: MaxAttempts[c], how often c calls connect()
    MaxConns        \* bound: the connections of a channel at one time

ASSUME ChannelEnds == Active \in [Channels -> Connectors] /\ Passive \in [Channels -> Connectors]
ASSUME MismatchAssumption == MayMismatch \subseteq Channels
ASSUME PairingBounds == MaxAttempts \in [Connectors -> Nat] /\ MaxConns \in Nat

VARIABLES
    mismatched, \* the channels whose two ports are both putters or both getters
    status,     \* idle (not in connect), setup, done, panicked
    attempts,   \* the number of calls of connect()
    todo,       \* net_todos: one NetTodo for every end of a channel
    conns       \* conns[h][k]: the connections of channel h

vars == <<mismatched, status, attempts, todo, conns>>

Ends == Channels \X {"active", "passive"}
Owner(e) == IF e[2] = "active" THEN Active[e[1]] ELSE Passive[e[1]]
EndsOf(c) == {e \in Ends : Owner(e) = c}
Other(e) == <<e[1], IF e[2] = "active" THEN "passive" ELSE "active">>

\* What the streams carry: MyPortInfo in two parts, and the messages of the
\* election that follows.
PortInfo == <<"MyPortInfo1", "MyPortInfo2">>
Bytes == {"MyPortInfo1", "MyPortInfo2", "Election"}
Slots == 1..MaxConns

\* struct NetTodo, with net_connect_to_retry, setup_incomplete and
\* net_polled_undrained as flags.  conn is the connection of the endpoint's
\* stream (0: none).
NewTodo(kind, k) ==
    [kind |-> kind, conn |-> k, inbox |-> <<>>, sent_local_port |-> FALSE,
     recv_peer_port |-> FALSE, retry |-> FALSE, incomplete |-> TRUE, polled |-> FALSE]
NoTodo == NewTodo("none", 0)

\* A connection: the state of its two ends, what is on its way to each of them,
\* and whether the open end has been told that the other one is gone.
FreeConn == [active |-> "none", passive |-> "none", toactive |-> <<>>, topassive |-> <<>>,
             reset |-> FALSE]
EndStates == {"none", "connecting", "refused", "backlog", "open", "closed"}
To(e) == IF e[2] = "active" THEN "toactive" ELSE "topassive"

TypeOK ==
    /\ mismatched \subseteq Channels
    /\ status \in [Connectors -> {"idle", "setup", "done", "panicked"}]
    /\ attempts \in [Connectors -> Nat]
    /\ \A c \in Connectors : attempts[c] <= MaxAttempts[c]
    /\ todo \in [Ends -> [kind : {"none", "Accepting", "PeerInfoRecving"}, conn : 0..MaxConns,
                          inbox : Seq(Bytes), sent_local_port : BOOLEAN,
                          recv_peer_port : BOOLEAN, retry : BOOLEAN,
                          incomplete : BOOLEAN, polled : BOOLEAN]]
    /\ conns \in [Channels -> [Slots -> [active : EndStates, passive : EndStates,
                                         toactive : Seq(Bytes), topassive : Seq(Bytes),
                                         reset : BOOLEAN]]]

Init ==
    /\ mismatched \in SUBSET MayMismatch
    /\ status = [c \in Connectors |-> "idle"]
    /\ attempts = [c \in Connectors |-> 0]
    /\ todo = [e \in Ends |-> NoTodo]
    /\ conns = [h \in Channels |-> [k \in Slots |-> FreeConn]]
-----------------------------------------------------------------------------
(* TCP *)

FreeSlots(h) == {k \in Slots : conns[h][k] = FreeConn}
\* The slot of the next connection of channel h.
NextSlot(h) == CHOOSE k \in FreeSlots(h) : TRUE

\* The connection without the ends in `roles`; nothing is left of it when both
\* ends are gone.
Without(conn, roles) ==
    LET rest == [conn EXCEPT !.active  = IF "active" \in roles THEN "closed" ELSE @,
                             !.passive = IF "passive" \in roles /\ @ # "none" THEN "closed" ELSE @]
    IN  IF rest.active = "closed" /\ rest.passive \in {"none", "closed"} THEN FreeConn ELSE rest

\* The connections cs with `conn` in slot k.
With(cs, k, conn) == [j \in Slots |-> IF j = k THEN conn ELSE cs[j]]

Listening(h) == todo[<<h, "passive">>].kind = "Accepting"

\* A connection attempt reaches its address: it joins the backlog of the
\* listener, or is refused.
Reach(h, k) ==
    /\ conns[h][k].active = "connecting"
    /\ conns' = [conns EXCEPT ![h][k] =
                    IF Listening(h) THEN [@ EXCEPT !.active = "open", !.passive = "backlog"]
                    ELSE [@ EXCEPT !.active = "refused"]]
    /\ UNCHANGED <<mismatched, status, attempts, todo>>

\* The open end of a connection learns that the other one is closed.
Reset(h, k) ==
    /\ {conns[h][k].active, conns[h][k].passive} = {"open", "closed"}
    /\ ~conns[h][k].reset
    /\ conns' = [conns EXCEPT ![h][k].reset = TRUE]
    /\ UNCHANGED <<mismatched, status, attempts, todo>>
-----------------------------------------------------------------------------
(* Starting, retrying and giving up *)

\* connect() is called: every active endpoint begins to connect, every passive
\* one listens.
Start(c) ==
    /\ status[c] = "idle"
    /\ attempts[c] < MaxAttempts[c]
    /\ \A e \in EndsOf(c) : e[2] = "active" => FreeSlots(e[1]) # {}
    /\ status' = [status EXCEPT ![c] = "setup"]
    /\ attempts' = [attempts EXCEPT ![c] = @ + 1]
    /\ todo' = [e \in Ends |->
                    IF Owner(e) # c THEN todo[e]
                    ELSE IF e[2] = "active" THEN NewTodo("PeerInfoRecving", NextSlot(e[1]))
                    ELSE NewTodo("Accepting", 0)]
    /\ conns' = [h \in Channels |-> [k \in Slots |->
                    IF Active[h] = c /\ FreeSlots(h) # {} /\ k = NextSlot(h)
                    THEN [FreeConn EXCEPT !.active = "connecting"] ELSE conns[h][k]]]
    /\ UNCHANGED mismatched

\* The connections of channel h after its passive end has stopped listening and
\* kept only the connection k, if any.
ListenerDropped(h, k, cs) ==
    [j \in Slots |-> IF cs[j].passive = "backlog" /\ j # k THEN Without(cs[j], {"passive"}) ELSE cs[j]]

\* connect_inner returns Err, and everything it made is dropped; td and cs are
\* the endpoints and connections at that moment.
FailFrom(c, td, cs) ==
    LET mine(h, k) == {e[2] : e \in {f \in EndsOf(c) : f[1] = h /\ td[f].conn = k}}
        left(h) == [k \in Slots |-> IF mine(h, k) = {} THEN cs[h][k]
                                    ELSE Without(cs[h][k], mine(h, k))]
    IN  /\ status' = [status EXCEPT ![c] = "idle"]
        /\ todo' = [e \in Ends |-> IF Owner(e) = c THEN NoTodo ELSE td[e]]
        /\ conns' = [h \in Channels |-> IF Passive[h] = c THEN ListenerDropped(h, 0, left(h))
                                        ELSE left(h)]
Fail(c) == FailFrom(c, todo, conns)

\* Ce::Timeout, when the loop is entered again too late.  (Every other way in
\* which connect() may fail from outside ends in the same state.)
Timeout(c) ==
    /\ status[c] = "setup"
    /\ c \in MayTimeout
    /\ attempts[c] < MaxAttempts[c]      \* the last call has no timeout
    /\ \E e \in EndsOf(c) : todo[e].incomplete
    /\ Fail(c)
    /\ UNCHANGED <<mismatched, attempts>>

\* (mutant) the endpoint is taken off the list without a new stream
RetryForgets(c) ==
    /\ status[c] = "setup"
    /\ \E e \in EndsOf(c) : todo[e].retry
    /\ todo' = [e \in Ends |-> IF Owner(e) = c THEN [todo[e] EXCEPT !.retry = FALSE] ELSE todo[e]]
    /\ UNCHANGED <<mismatched, status, attempts, conns>>

\* RETRY_PERIOD has elapsed: every endpoint on the list gets a new stream.  Its
\* inbox and its two flags are kept.
Retry(c) ==
    /\ status[c] = "setup"
    /\ \E e \in EndsOf(c) : todo[e].retry
    /\ \A e \in EndsOf(c) : todo[e].retry => FreeSlots(e[1]) # {}
    /\ todo' = [e \in Ends |->
                    IF Owner(e) = c /\ todo[e].retry
                    THEN [todo[e] EXCEPT !.retry = FALSE, !.conn = NextSlot(e[1])] ELSE todo[e]]
    /\ conns' = [h \in Channels |->
                    LET e == <<h, "active">>
                    IN  IF Owner(e) = c /\ todo[e].retry
                        THEN [k \in Slots |->
                                IF k = todo[e].conn THEN Without(conns[h][k], {"active"})
                                ELSE IF k = NextSlot(h) THEN [FreeConn EXCEPT !.active = "connecting"]
                                ELSE conns[h][k]]
                        ELSE conns[h]]
    /\ UNCHANGED <<mismatched, status, attempts>>
-----------------------------------------------------------------------------
(* Reacting to an event of a net endpoint *)

\* What Msg deserialisation makes of the bytes in the inbox.
Decoded(inbox) ==
    IF inbox \in {<<>>, <<"MyPortInfo1">>} THEN "incomplete"
    ELSE IF Head(inbox) = "Election" THEN "Election"
    ELSE IF Head(inbox) = "MyPortInfo1" /\ inbox[2] = "MyPortInfo2" THEN "MyPortInfo"
    ELSE "malformed"
Undecoded(inbox) ==
    CASE Decoded(inbox) = "MyPortInfo" -> Tail(Tail(inbox))
      [] Decoded(inbox) = "Election"   -> Tail(inbox)
      [] OTHER                         -> inbox

\* (mutant) the rest of the inbox is left for the next event of the poll
ReceivedUnpolled(t, bytes) ==
    LET inbox == t.inbox \o bytes
    IN  [t EXCEPT !.inbox = Undecoded(inbox),
                  !.recv_peer_port = @ \/ Decoded(inbox) = "MyPortInfo"]

\* try_recv has read `bytes`: one message is taken from the inbox, and an
\* endpoint with more in its inbox is not drained.  (An early message of the
\* election is delayed.)
Received(t, bytes) ==
    LET inbox == t.inbox \o bytes
    IN  [t EXCEPT !.inbox = Undecoded(inbox),
                  !.recv_peer_port = @ \/ Decoded(inbox) = "MyPortInfo",
                  !.polled = @ \/ (Undecoded(inbox) # inbox /\ Undecoded(inbox) # <<>>)]

\* MalformedMessage, or PortPeerPolarityMismatch.
Rejected(h, t, bytes) ==
    \/ Decoded(t.inbox \o bytes) = "malformed"
    \/ Decoded(t.inbox \o bytes) = "MyPortInfo" /\ h \in mismatched

\* (mutant) an endpoint is complete once it knows its peer
CompletedEarly(t) == [t EXCEPT !.incomplete = ~t.recv_peer_port]

Completed(t) == [t EXCEPT !.incomplete = ~(t.sent_local_port /\ t.recv_peer_port)]

\* The connections cs after e has sent its port, or read all but `rest`, ...
PortSent(e, t, cs) ==
    IF cs[t.conn][Other(e)[2]] = "closed" THEN cs
    ELSE With(cs, t.conn, [cs[t.conn] EXCEPT ![To(Other(e))] = @ \o PortInfo])
Drained(e, t, cs, rest) == With(cs, t.conn, [cs[t.conn] EXCEPT ![To(e)] = rest])

\* ... and the outcomes of a handler that has got e to state t.
Becomes(e, t, cs) ==
    /\ todo' = [todo EXCEPT ![e] = t]
    /\ conns' = [conns EXCEPT ![e[1]] = cs]
    /\ UNCHANGED status
FailsWith(e, t, cs) ==
    FailFrom(Owner(e), [todo EXCEPT ![e] = t], [conns EXCEPT ![e[1]] = cs])

\* The rest of the handler for an endpoint e in state t that has a stream: send
\* the local port if `w` (writable), receive if `r` (readable), in this order.
\* cs are the connections of the channel.
Exchange(e, t, cs, w, r) ==
    LET send  == w /\ ~t.sent_local_port
        cs1   == IF send THEN PortSent(e, t, cs) ELSE cs
        t1    == [t EXCEPT !.sent_local_port = @ \/ send]
        recv  == r /\ ~t.recv_peer_port
        queue == cs1[t.conn][To(e)]
    IN  CASE \* the stream was reset after the poll: send(..).unwrap() panics ...
             send /\ cs[t.conn].reset ->
                /\ status' = [status EXCEPT ![Owner(e)] = "panicked"]
                /\ UNCHANGED <<todo, conns>>
          [] \* ... and try_recv fails
             ~send /\ recv /\ cs[t.conn].reset -> FailsWith(e, t1, cs1)
          [] ~recv /\ ~(send /\ cs[t.conn].reset) -> Becomes(e, Completed(t1), cs1)
          [] recv /\ ~cs[t.conn].reset ->
                \* as much as has arrived
                \E n \in (IF e[1] \in Fragmented THEN 0 ELSE Len(queue))..Len(queue) :
                    LET bytes == SubSeq(queue, 1, n)
                        cs2   == Drained(e, t, cs1, SubSeq(queue, n + 1, Len(queue)))
                    IN  IF Rejected(e[1], t1, bytes) THEN FailsWith(e, t1, cs2)
                        ELSE Becomes(e, Completed(Received(t1, bytes)), cs2)

\* The event of a listener: accept the first of the backlog, and receive what
\* it has sent.
Accept(e) ==
    /\ status[Owner(e)] = "setup"
    /\ todo[e].kind = "Accepting"
    /\ \E k \in Slots :
         /\ conns[e[1]][k].passive = "backlog"
         /\ LET cs == With(ListenerDropped(e[1], k, conns[e[1]]), k,
                            [conns[e[1]][k] EXCEPT !.passive = "open"])
            IN  Exchange(e, [todo[e] EXCEPT !.kind = "PeerInfoRecving", !.conn = k], cs, FALSE, TRUE)
    /\ UNCHANGED <<mismatched, attempts>>

Stream(e) == conns[e[1]][todo[e].conn]
HasError(e) == Stream(e)[e[2]] = "refused" \/ Stream(e).reset

\* An error of an accepted stream is unrecoverable, ...
ErrorPassive(e) ==
    /\ status[Owner(e)] = "setup"
    /\ todo[e].kind = "PeerInfoRecving" /\ e[2] = "passive"
    /\ HasError(e)
    /\ Fail(Owner(e))
    /\ UNCHANGED <<mismatched, attempts>>

\* ... a connecting one is scheduled for a retry.
ErrorActive(e) ==
    /\ status[Owner(e)] = "setup"
    /\ todo[e].kind = "PeerInfoRecving" /\ e[2] = "active"
    /\ HasError(e) /\ ~todo[e].retry
    /\ todo' = [todo EXCEPT ![e].retry = TRUE]
    /\ UNCHANGED <<mismatched, status, attempts, conns>>

\* An event without error on an endpoint that is not complete.
Ready(e, w, r) ==
    /\ status[Owner(e)] = "setup"
    /\ todo[e].kind = "PeerInfoRecving"
    /\ ~todo[e].retry
    /\ todo[e].incomplete
    /\ Stream(e)[e[2]] = "open"
    /\ w \/ r
    /\ w => ~todo[e].sent_local_port      \* otherwise nothing happens
    /\ r => ~todo[e].recv_peer_port /\ Stream(e)[To(e)] # <<>>
    /\ Exchange(e, todo[e], conns[e[1]], w, r)
    /\ UNCHANGED <<mismatched, attempts>>

\* A readable event on an endpoint that is complete: there is more to read.
ReadyComplete(e) ==
    /\ status[Owner(e)] = "setup"
    /\ ~todo[e].incomplete /\ ~todo[e].retry /\ ~todo[e].polled
    /\ Stream(e)[e[2]] = "open"
    /\ Stream(e)[To(e)] # <<>>
    /\ todo' = [todo EXCEPT ![e].polled = TRUE]
    /\ UNCHANGED <<mismatched, status, attempts, conns>>

\* Every endpoint is complete: the election begins.
Finish(c) ==
    /\ status[c] = "setup"
    /\ \A e \in EndsOf(c) : ~todo[e].incomplete
    /\ status' = [status EXCEPT ![c] = "done"]
    /\ UNCHANGED <<mismatched, attempts, todo, conns>>

\* The election sends messages, here one through each endpoint.
Elect(e) ==
    /\ status[Owner(e)] = "done"
    /\ todo[e].kind = "PeerInfoRecving"
    /\ Stream(e)[Other(e)[2]] # "closed"
    /\ \A i \in DOMAIN Stream(e)[To(Other(e))] : Stream(e)[To(Other(e))][i] # "Election"
    /\ "Election" \notin {todo[Other(e)].inbox[i] : i \in DOMAIN todo[Other(e)].inbox}
    /\ status[Owner(Other(e))] = "setup"
    /\ conns' = [conns EXCEPT ![e[1]][todo[e].conn][To(Other(e))] = Append(@, "Election")]
    /\ UNCHANGED <<mismatched, status, attempts, todo>>

Event(e) ==
    \/ Accept(e) \/ ErrorPassive(e) \/ ErrorActive(e) \/ ReadyComplete(e)
    \/ \E w, r \in BOOLEAN : Ready(e, w, r)

Next ==
    \/ \E c \in Connectors : Start(c) \/ Timeout(c) \/ Retry(c) \/ Finish(c)
    \/ \E e \in Ends : Event(e) \/ Elect(e)
    \/ \E h \in Channels, k \in Slots : Reach(h, k) \/ Reset(h, k)

Spec == Init /\ [][Next]_vars

\* connect() is called, the loop keeps polling and handles every endpoint it is
\* told of, and TCP does its part.
FairSpec ==
    /\ Spec
    /\ \A c \in Connectors : WF_vars(Start(c) \/ Retry(c) \/ Finish(c))
    /\ \A e \in Ends : WF_vars(Event(e))
    /\ WF_vars(\E h \in Channels, k \in Slots : Reach(h, k))
-----------------------------------------------------------------------------
(* Properties *)

\* Nothing that has been read is overlooked: when the election begins, an
\* endpoint with bytes in its inbox is in polled_undrained, since the poll will
\* not report bytes that have left the socket.
NothingStranded ==
    \A e \in Ends : status[Owner(e)] = "done" /\ todo[e].inbox # <<>> => todo[e].polled

\* Two ports of the same polarity never form a channel: neither connector gets
\* past the set-up, however often they try.
MismatchNeverPairs ==
    \A h \in mismatched : status[Active[h]] # "done" /\ status[Passive[h]] # "done"

\* The peer of a finished endpoint can finish too: their connection carries, or
\* has delivered, what it needs.
InfoReaches(e) ==
    LET f == Other(e)
        Has(bytes) == \E i \in DOMAIN bytes : bytes[i] = "MyPortInfo2"
    IN  \/ todo[f].kind = "PeerInfoRecving" /\ todo[f].recv_peer_port
        \/ Has(Stream(e)[To(f)])
        \/ todo[f].kind = "PeerInfoRecving" /\ Has(todo[f].inbox)

\* As long as nobody's connect() has failed, nobody is left behind: whoever is
\* done has told every peer its port, through however many refused connections.
NobodyLeftBehind ==
    (\A c \in Connectors : attempts[c] = 0 \/ (attempts[c] = 1 /\ status[c] # "idle")) =>
        \A e \in Ends : status[Owner(e)] = "done" => InfoReaches(e)

\* Who is done is rightly done: its ports match and its peers can follow.
PairsRightly == MismatchNeverPairs /\ NobodyLeftBehind

\* Whatever the order in which the connectors start, retries make every
\* connect() finish its set-up, unless somebody gives up or ports do not match.
EveryonePairs ==
    <>(\/ \A c \in Connectors : status[c] = "done"
       \/ \E c \in Connectors : status[c] # "done" /\ attempts[c] > 1
       \/ \E c \in Connectors : status[c] = "idle" /\ attempts[c] > 0
       \/ \E c \in Connectors : status[c] = "panicked")

\* "yes! connected, sent my info and received peer's info": the endpoints of a
\* connector that is done are connected, and a peer at the other end of the same
\* connection has been told, or will be.
CompleteMeansExchanged ==
    \A e \in Ends : status[Owner(e)] = "done" =>
        /\ Stream(e)[e[2]] = "open"
        /\ Stream(e)[Other(e)[2]] = "open" /\ ~Stream(e).reset => InfoReaches(e)
=============================================================================
