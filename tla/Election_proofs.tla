--------------------------- MODULE Election_proofs --------------------------
(***************************************************************************)
(* The consensus tree, for every network: any number of connectors, any       *)
(* channels between them, any order of their steps, any timeouts and broken    *)
(* endpoints.                                                                 *)
(***************************************************************************)
EXTENDS Election, FiniteSetTheorems, TLAPS

(* Streams *)

\* No message of q, at most one message of q, is in K.
NoneOf(q, K) == \A i \in DOMAIN q : q[i] \notin K
OneOf(q, K) == \A i, j \in DOMAIN q : q[i] \in K /\ q[j] \in K => i = j

Announces == {LeaderAnnounce(l) : l \in Connectors}
TreeMsgs == Announces \cup {YouAreMyParent}
-----------------------------------------------------------------------------
(* Early messages *)

\* Only messages of the rounds are delayed.
OnlyCommDelayed ==
    \A n \in Connectors : /\ node[n].delayed \in Seq(Endpoints \X {CommMsg})
                          /\ node[n].undelayed \in Seq(Endpoints \X {CommMsg})

\* Before init_neighborhood.
PairingFresh ==
    \A n \in Connectors : node[n].phase = "pairing" =>
        node[n].leader = n /\ node[n].parent = NoEndpoint /\ node[n].awaiting = {}

\* connect() of n has left its election loop, or has failed.
PastElection(n) == node[n].phase \notin {"pairing", "election"}
-----------------------------------------------------------------------------
(* Waves *)

\* The history of the wave of w: J are the connectors that have joined it, P the
\* endpoints through which they did (all but w itself), C those that have heard
\* it from every neighbour.  It has been sent through f if the owner has joined
\* it, and to the parent only once the owner was complete.
Sent(f, J, P, C) == Owner[f] \in J /\ (f \in P => Owner[f] \in C)

\* Nobody joins a lesser wave than its own, or than one it has joined.
JoinsGrow(w, J) ==
    \A n \in J : /\ n <= w
                 /\ node[n].phase # "pairing"
                 /\ node[n].phase = "election" => w <= node[n].leader

\* What the locals of n say about the wave that n is in.
InWave(w, J, P, C) ==
    \A n \in Connectors : node[n].phase = "election" /\ node[n].leader = w =>
        /\ n \in J
        /\ \A e \in EndpointsOf(n) : e \in P <=> e = node[n].parent
        /\ node[n].parent = NoEndpoint <=> n = w
        /\ node[n].parent # NoEndpoint => node[n].parent \in EndpointsOf(n)
        /\ n \in C => node[n].awaiting = {}

\* Those who no longer need to answer have answered, and only once.
Answers(w, J, P, C) ==
    \A n \in Connectors : node[n].phase = "election" /\ node[n].leader = w =>
        \A e \in EndpointsOf(n) : e \notin node[n].awaiting =>
            Sent(Peer[e], J, P, C) /\ NoneOf(chan[e], {LeaderWave(w)})

InFlight(w, J, P, C) ==
    \A e \in session.net :
        /\ OneOf(chan[e], {LeaderWave(w)})
        /\ ~Sent(Peer[e], J, P, C) => NoneOf(chan[e], {LeaderWave(w)})

\* The complete ones have heard from all their neighbours.
HeardAll(J, P, C) == \A e \in session.net : Owner[e] \in C => Sent(Peer[e], J, P, C)

\* Who has joined is connected to w by the endpoints in P: every set that
\* contains w and is closed under P contains them.
GrownFrom(w, J, P) ==
    \A S \in SUBSET Connectors :
        w \in S /\ (\A f \in P : Owner[Peer[f]] \in S => Owner[f] \in S) => J \subseteq S

WaveHistory(w, J, P, C) ==
    /\ J \subseteq Connectors /\ P \subseteq session.net /\ C \subseteq J
    /\ \A f \in P : Owner[f] \in J
    /\ JoinsGrow(w, J)
    /\ InWave(w, J, P, C)
    /\ Answers(w, J, P, C)
    /\ InFlight(w, J, P, C)
    /\ HeardAll(J, P, C)
    /\ GrownFrom(w, J, P)

HasHistory(w) ==
    \E J \in SUBSET Connectors, P \in SUBSET Endpoints, C \in SUBSET Connectors :
        WaveHistory(w, J, P, C)

WavesInv == \A w \in Connectors : HasHistory(w)
-----------------------------------------------------------------------------
(* Leaders *)

Greatest(l) == \A m \in Component(l) : m <= l

LeadersInv ==
    /\ \A n \in Connectors : n <= node[n].leader /\ node[n].leader \in Component(n)
    /\ \A n \in Connectors : Settled(n) =>
        /\ Greatest(node[n].leader)
        /\ node[n].parent = NoEndpoint <=> n = node[n].leader
    /\ \A e \in session.net, l \in Connectors :
        /\ ~NoneOf(chan[e], {LeaderWave(l), LeaderAnnounce(l)}) => l \in Component(Owner[e])
        /\ ~NoneOf(chan[e], {LeaderAnnounce(l)}) => Greatest(l) /\ PastElection(l)
-----------------------------------------------------------------------------
(* The tree *)

\* One message of the second phase per endpoint, from one who has left the
\* first, and a child only to its parent.
TreeMessages ==
    \A e \in session.net :
        /\ OneOf(chan[e], TreeMsgs)
        /\ ~NoneOf(chan[e], TreeMsgs) => PastElection(Neighbor(e))
        /\ ~NoneOf(chan[e], {YouAreMyParent}) => PastElection(Owner[e])
        /\ Settled(Neighbor(e)) =>
            /\ ~NoneOf(chan[e], {YouAreMyParent}) => node[Neighbor(e)].parent = Peer[e]
            /\ ~NoneOf(chan[e], Announces) => node[Neighbor(e)].parent # Peer[e]

\* What a connector knows about a neighbour that it no longer awaits.
TreeAnswers ==
    \A n \in Connectors : Settled(n) =>
        /\ node[n].parent # NoEndpoint => node[n].parent \in EndpointsOf(n) \ node[n].awaiting
        /\ \A e \in EndpointsOf(n) : e \in node[n].awaiting => e \notin node[n].children
        /\ node[n].phase = "done" => node[n].awaiting = {}
        /\ \A e \in EndpointsOf(n) : e \notin node[n].awaiting =>
            /\ NoneOf(chan[e], TreeMsgs)
            /\ PastElection(Neighbor(e))
            /\ Settled(Neighbor(e)) => (e \in node[n].children <=> node[Neighbor(e)].parent = Peer[e])

TreeInv == TreeMessages /\ TreeAnswers

IInv ==
    /\ TypeOK
    /\ OnlyCommDelayed /\ PairingFresh
    /\ NoMisbehavior
    /\ WavesInv
    /\ LeadersInv
    /\ TreeInv
    /\ ParentsAcyclic

-----------------------------------------------------------------------------
(* Facts about streams and messages *)

LEMMA TailStream ==
    ASSUME NEW M, NEW q \in Seq(M), q # <<>>
    PROVE  /\ Head(q) \in M /\ Tail(q) \in Seq(M)
           /\ \A K : NoneOf(q, K) => NoneOf(Tail(q), K) /\ Head(q) \notin K
           /\ \A K : OneOf(q, K) => OneOf(Tail(q), K)
           /\ \A K : OneOf(q, K) /\ Head(q) \in K => NoneOf(Tail(q), K)
<1>1. /\ Head(q) \in M /\ Tail(q) \in Seq(M) /\ Head(q) = q[1] /\ 1 \in DOMAIN q
      /\ \A i \in DOMAIN Tail(q) : i + 1 \in DOMAIN q /\ Tail(q)[i] = q[i + 1] /\ i \in Nat /\ i >= 1
  OBVIOUS
<1>2. ASSUME NEW K, NoneOf(q, K)
      PROVE  NoneOf(Tail(q), K) /\ Head(q) \notin K
  BY <1>1, <1>2 DEF NoneOf
<1>3. ASSUME NEW K, OneOf(q, K)
      PROVE  OneOf(Tail(q), K)
  <2> SUFFICES ASSUME NEW i \in DOMAIN Tail(q), NEW j \in DOMAIN Tail(q),
                      Tail(q)[i] \in K, Tail(q)[j] \in K
               PROVE  i = j
    BY DEF OneOf
  <2>1. i + 1 = j + 1
    BY <1>1, <1>3 DEF OneOf
  <2> QED
    BY <1>1, <2>1
<1>4. ASSUME NEW K, OneOf(q, K), Head(q) \in K
      PROVE  NoneOf(Tail(q), K)
  <2> SUFFICES ASSUME NEW i \in DOMAIN Tail(q), Tail(q)[i] \in K
               PROVE  FALSE
    BY DEF NoneOf
  <2>1. i + 1 = 1
    BY <1>1, <1>4 DEF OneOf
  <2> QED
    BY <1>1, <2>1
<1> QED
  BY <1>1, <1>2, <1>3, <1>4

LEMMA AppendStream ==
    ASSUME NEW M, NEW q \in Seq(M), NEW m \in M
    PROVE  /\ Append(q, m) \in Seq(M)
           /\ \A K : NoneOf(q, K) /\ m \notin K => NoneOf(Append(q, m), K)
           /\ \A K : OneOf(q, K) /\ m \notin K => OneOf(Append(q, m), K)
           /\ \A K : NoneOf(q, K) => OneOf(Append(q, m), K)
<1>1. /\ Append(q, m) \in Seq(M)
      /\ DOMAIN Append(q, m) = DOMAIN q \cup {Len(q) + 1}
      /\ \A i \in DOMAIN q : Append(q, m)[i] = q[i]
      /\ Append(q, m)[Len(q) + 1] = m
  OBVIOUS
<1> QED
  BY <1>1 DEF NoneOf, OneOf

LEMMA EmptyStream ==
    /\ \A M : <<>> \in Seq(M)
    /\ \A K : NoneOf(<<>>, K) /\ OneOf(<<>>, K)
BY DEF NoneOf, OneOf

LEMMA NoneOfParts ==
    ASSUME NEW q, NEW K, NEW L, L \subseteq K, NoneOf(q, K)
    PROVE  NoneOf(q, L)
BY DEF NoneOf

\* The kinds of messages.
LEMMA Messages ==
    /\ \A l \in Connectors : LeaderWave(l) \in Msg /\ LeaderAnnounce(l) \in Msg
    /\ YouAreMyParent \in Msg /\ CommMsg \in Msg
    /\ \A l : /\ LeaderWave(l).type = "LeaderWave" /\ LeaderWave(l).leader = l
              /\ LeaderAnnounce(l).type = "LeaderAnnounce" /\ LeaderAnnounce(l).leader = l
    /\ YouAreMyParent.type = "YouAreMyParent" /\ CommMsg.type = "CommMsg"
BY DEF Msg, LeaderWave, LeaderAnnounce, YouAreMyParent, CommMsg

LEMMA MessageKinds ==
    ASSUME NEW m \in Msg
    PROVE  /\ m.type = "LeaderWave" => m.leader \in Connectors /\ m = LeaderWave(m.leader)
           /\ m.type = "LeaderAnnounce" => m.leader \in Connectors /\ m = LeaderAnnounce(m.leader)
           /\ m.type = "YouAreMyParent" => m = YouAreMyParent
           /\ m.type = "CommMsg" => m = CommMsg
           /\ m \in TreeMsgs <=> m.type \in {"LeaderAnnounce", "YouAreMyParent"}
           /\ m \in Announces <=> m.type = "LeaderAnnounce"
<1>1. m \in [type : {"LeaderWave", "LeaderAnnounce"}, leader : Connectors]
        \/ m = YouAreMyParent \/ m = CommMsg
  BY DEF Msg
<1>2. CASE m = YouAreMyParent \/ m = CommMsg
  BY <1>2, Messages DEF TreeMsgs, Announces
<1>3. CASE m \in [type : {"LeaderWave", "LeaderAnnounce"}, leader : Connectors]
  <2>1. m = [type |-> m.type, leader |-> m.leader] /\ m.leader \in Connectors
        /\ m.type \in {"LeaderWave", "LeaderAnnounce"}
    BY <1>3
  <2>2. CASE m.type = "LeaderWave"
    <3>1. m = LeaderWave(m.leader)
      BY <2>1, <2>2 DEF LeaderWave
    <3> QED
      BY <2>1, <2>2, <3>1, Messages DEF TreeMsgs, Announces
  <2>3. CASE m.type = "LeaderAnnounce"
    <3>1. m = LeaderAnnounce(m.leader)
      BY <2>1, <2>3 DEF LeaderAnnounce
    <3> QED
      BY <2>1, <2>3, <3>1, Messages DEF TreeMsgs, Announces
  <2> QED
    BY <2>1, <2>2, <2>3
<1> QED
  BY <1>1, <1>2, <1>3

-----------------------------------------------------------------------------
(* What a step does to the streams and to the locals *)

\* Stream x has no message in K that it had not before.
Quiet(x, K) ==
    /\ NoneOf(chan[x], K) => NoneOf(chan'[x], K)
    /\ OneOf(chan[x], K) => OneOf(chan'[x], K)

\* At most one message has entered stream x, out[f] if it comes from f in D.
Entered(D, out) ==
    \A x \in Endpoints, K \in SUBSET Msg :
        /\ (Peer[x] \in D => out[Peer[x]] \notin K) => Quiet(x, K)
        /\ NoneOf(chan[x], K) => OneOf(chan'[x], K)

\* m has left stream e.
Left(e, m, D, out) ==
    \A K \in SUBSET Msg : m \in K =>
        /\ ~NoneOf(chan[e], K)
        /\ OneOf(chan[e], K) /\ (Peer[e] \in D => out[Peer[e]] \notin K) => NoneOf(chan'[e], K)

\* Only connector n has moved, to `rec`.
Moved(n, rec) ==
    /\ node'[n] = rec
    /\ \A x \in Connectors : x # n => node'[x] = node[x]
    /\ session' = session

StreamsOver(ch, D, out) ==
    [x \in Endpoints |-> IF Peer[x] \in D THEN Append(ch[x], out[Peer[x]]) ELSE ch[x]]

LEMMA SendStreams ==
    ASSUME chan \in [Endpoints -> Seq(Msg)], NEW D, NEW out, \A f \in D : out[f] \in Msg,
           chan' = StreamsOver(chan, D, out)
    PROVE  chan' \in [Endpoints -> Seq(Msg)] /\ Entered(D, out)
<1>1. ASSUME NEW x \in Endpoints
      PROVE  /\ chan'[x] \in Seq(Msg)
             /\ \A K : /\ (Peer[x] \in D => out[Peer[x]] \notin K) => Quiet(x, K)
                       /\ NoneOf(chan[x], K) => OneOf(chan'[x], K)
  <2>1. chan[x] \in Seq(Msg) /\ \A K : NoneOf(chan[x], K) => OneOf(chan[x], K)
    BY DEF NoneOf, OneOf
  <2>2. CASE Peer[x] \in D
    <3>1. chan'[x] = Append(chan[x], out[Peer[x]]) /\ out[Peer[x]] \in Msg
      BY <2>2 DEF StreamsOver
    <3>2. PICK m \in Msg : m = out[Peer[x]]
      BY <3>1
    <3>3. PICK q \in Seq(Msg) : q = chan[x]
      BY <2>1
    <3>4. /\ Append(q, m) \in Seq(Msg)
          /\ \A K : NoneOf(q, K) /\ m \notin K => NoneOf(Append(q, m), K)
          /\ \A K : OneOf(q, K) /\ m \notin K => OneOf(Append(q, m), K)
          /\ \A K : NoneOf(q, K) => OneOf(Append(q, m), K)
      BY AppendStream
    <3> QED
      BY <2>1, <2>2, <3>1, <3>2, <3>3, <3>4 DEF Quiet
  <2>3. CASE Peer[x] \notin D
    BY <2>1, <2>3 DEF StreamsOver, Quiet
  <2> QED
    BY <2>2, <2>3
<1>2. chan' = [x \in Endpoints |-> chan'[x]]
  BY DEF StreamsOver
<1>3. chan' \in [Endpoints -> Seq(Msg)]
  BY <1>1, <1>2
<1> QED
  BY <1>1, <1>3 DEF Entered

LEMMA ReceiveStreams ==
    ASSUME chan \in [Endpoints -> Seq(Msg)], NEW e \in Endpoints, chan[e] # <<>>,
           NEW D, NEW out, \A f \in D : out[f] \in Msg,
           chan' = StreamsOver([chan EXCEPT ![e] = Tail(@)], D, out)
    PROVE  /\ chan' \in [Endpoints -> Seq(Msg)]
           /\ Head(chan[e]) \in Msg
           /\ Entered(D, out)
           /\ Left(e, Head(chan[e]), D, out)
<1>1. /\ Head(chan[e]) \in Msg /\ Tail(chan[e]) \in Seq(Msg)
      /\ \A K : NoneOf(chan[e], K) => NoneOf(Tail(chan[e]), K) /\ Head(chan[e]) \notin K
      /\ \A K : OneOf(chan[e], K) => OneOf(Tail(chan[e]), K)
      /\ \A K : OneOf(chan[e], K) /\ Head(chan[e]) \in K => NoneOf(Tail(chan[e]), K)
  <2>1. chan[e] \in Seq(Msg)
    OBVIOUS
  <2> QED
    BY <2>1, TailStream
<1>2. PICK h : h = Head(chan[e])
  OBVIOUS
<1>3. PICK t \in Seq(Msg) : t = Tail(chan[e])
  BY <1>1
<1>4. /\ \A K : NoneOf(chan[e], K) => NoneOf(t, K) /\ h \notin K
      /\ \A K : OneOf(chan[e], K) => OneOf(t, K)
      /\ \A K : OneOf(chan[e], K) /\ h \in K => NoneOf(t, K)
  BY <1>1, <1>2, <1>3
<1>5. ASSUME NEW x \in Endpoints
      PROVE  chan'[x] = IF Peer[x] \in D THEN Append(IF x = e THEN t ELSE chan[x], out[Peer[x]])
                        ELSE IF x = e THEN t ELSE chan[x]
  BY <1>3 DEF StreamsOver
<1>6. ASSUME NEW x \in Endpoints
      PROVE  /\ chan'[x] \in Seq(Msg)
             /\ \A K : /\ (Peer[x] \in D => out[Peer[x]] \notin K) => Quiet(x, K)
                       /\ NoneOf(chan[x], K) => OneOf(chan'[x], K)
                       /\ x = e /\ h \in K /\ OneOf(chan[e], K)
                            /\ (Peer[e] \in D => out[Peer[e]] \notin K) => NoneOf(chan'[e], K)
  <2>1. PICK q \in Seq(Msg) : q = IF x = e THEN t ELSE chan[x]
    OBVIOUS
  <2>2. \A K : /\ NoneOf(chan[x], K) => NoneOf(q, K)
               /\ OneOf(chan[x], K) => OneOf(q, K)
               /\ x = e /\ h \in K /\ OneOf(chan[e], K) => NoneOf(q, K)
    BY <1>4, <2>1
  <2>3. \A K : NoneOf(q, K) => OneOf(q, K)
    BY DEF NoneOf, OneOf
  <2>4. CASE Peer[x] \in D
    <3>1. PICK m \in Msg : m = out[Peer[x]]
      BY <2>4
    <3>2. chan'[x] = Append(q, m)
      BY <1>5, <2>1, <2>4, <3>1
    <3>3. /\ Append(q, m) \in Seq(Msg)
          /\ \A K : NoneOf(q, K) /\ m \notin K => NoneOf(Append(q, m), K)
          /\ \A K : OneOf(q, K) /\ m \notin K => OneOf(Append(q, m), K)
          /\ \A K : NoneOf(q, K) => OneOf(Append(q, m), K)
      BY AppendStream
    <3> QED
      BY <2>2, <2>4, <3>1, <3>2, <3>3 DEF Quiet
  <2>5. CASE Peer[x] \notin D
    <3>1. chan'[x] = q
      BY <1>5, <2>1, <2>5
    <3> QED
      BY <2>2, <2>3, <2>5, <3>1 DEF Quiet
  <2> QED
    BY <2>4, <2>5
<1>7. chan' = [x \in Endpoints |-> chan'[x]]
  BY DEF StreamsOver
<1>8. chan' \in [Endpoints -> Seq(Msg)]
  BY <1>6, <1>7
<1> QED
  BY <1>1, <1>2, <1>4, <1>6, <1>8 DEF Entered, Left

\* Proceed: some of `out` is sent, and n is in its new state or broken.
LEMMA ProceedForm ==
    ASSUME NEW n, NEW ch, NEW out, NEW new, Proceed(n, ch, out, new)
    PROVE  \E D \in SUBSET DOMAIN out :
              /\ chan' = StreamsOver(ch, D, out)
              /\ \/ node' = [node EXCEPT ![n] = new]
                 \/ node' = [node EXCEPT ![n].phase = "broken"]
<1>1. CASE chan' = Deliver(ch, out) /\ node' = [node EXCEPT ![n] = new]
  <2>1. PICK D : D = DOMAIN out
    OBVIOUS
  <2>2. chan' = StreamsOver(ch, D, out) /\ D \in SUBSET DOMAIN out
    BY <1>1, <2>1 DEF Deliver, StreamsOver
  <2> QED
    BY <1>1, <2>2
<1>2. CASE \E f \in DOMAIN out : /\ chan' = Deliver(ch, SentBefore(out, f))
                                 /\ node' = [node EXCEPT ![n].phase = "broken"]
  <2>1. PICK f \in DOMAIN out : /\ chan' = Deliver(ch, SentBefore(out, f))
                                /\ node' = [node EXCEPT ![n].phase = "broken"]
    BY <1>2
  <2>2. PICK D : D = {h \in DOMAIN out : Index[h] < Index[f]}
    OBVIOUS
  <2>3. DOMAIN SentBefore(out, f) = D /\ \A g \in D : SentBefore(out, f)[g] = out[g]
    BY <2>2 DEF SentBefore
  <2>4. chan' = StreamsOver(ch, D, out) /\ D \in SUBSET DOMAIN out
    BY <2>1, <2>2, <2>3 DEF Deliver, StreamsOver
  <2> QED
    BY <2>1, <2>4
<1> QED
  BY <1>1, <1>2 DEF Proceed

-----------------------------------------------------------------------------
(* The history of a wave through a step *)

LEMMA NetClosed ==
    ASSUME TypeOK
    PROVE  /\ session.net \subseteq Endpoints
           /\ \A e \in session.net : /\ Peer[e] \in session.net /\ Peer[Peer[e]] = e /\ Peer[e] # e
                                     /\ Owner[e] \in Connectors
           /\ \A n \in Connectors : node[n] \in Node
           /\ \A x \in Endpoints : chan[x] \in Seq(Msg)
BY SessionsAssumption, PeerAssumption, OwnerAssumption DEF TypeOK, Session

\* A step of n in which nobody joins or completes the wave of w; n may leave it,
\* or take note of an answer.
WaveGoesOn(n, w) ==
    /\ node'[n].phase = "pairing" => node[n].phase = "pairing"
    /\ node'[n].phase = "election" =>
        \/ node[n].phase = "pairing" /\ node'[n].leader # w
        \/ /\ node[n].phase = "election"
           /\ node[n].leader <= node'[n].leader
           /\ node'[n].leader = w => /\ node[n].leader = w
                                     /\ node'[n].parent = node[n].parent
                                     /\ node'[n].awaiting \subseteq node[n].awaiting
           /\ \A e \in EndpointsOf(n) : e \in node[n].awaiting /\ e \notin node'[n].awaiting =>
                \/ ~NoneOf(chan[e], {LeaderWave(w)}) /\ NoneOf(chan'[e], {LeaderWave(w)})
                \/ node'[n].leader # w

LEMMA WaveQuiet ==
    ASSUME TypeOK, NEW n \in Connectors, NEW w \in Connectors, HasHistory(w),
           NEW rec \in Node, Moved(n, rec), \A x \in session.net : Quiet(x, {LeaderWave(w)}),
           WaveGoesOn(n, w)
    PROVE  HasHistory(w)'
<1>1. PICK J \in SUBSET Connectors, P \in SUBSET Endpoints, C \in SUBSET Connectors :
        WaveHistory(w, J, P, C)
  BY DEF HasHistory
<1>2. /\ session.net \subseteq Endpoints /\ session'.net = session.net
      /\ \A x : EndpointsOf(x)' = EndpointsOf(x)
      /\ \A x \in Connectors : x # n => node'[x] = node[x]
      /\ node[n].leader \in Nat /\ node'[n].leader \in Nat /\ w \in Nat
  BY NetClosed, ConnectorsAssumption DEF Moved, EndpointsOf, Node
<1>3. JoinsGrow(w, J)'
  <2> SUFFICES ASSUME NEW x \in J
               PROVE  /\ x <= w
                      /\ node'[x].phase # "pairing"
                      /\ node'[x].phase = "election" => w <= node'[x].leader
    BY DEF JoinsGrow
  <2>1. /\ x <= w /\ node[x].phase # "pairing"
        /\ node[x].phase = "election" => w <= node[x].leader
    BY <1>1 DEF WaveHistory, JoinsGrow
  <2>2. CASE x = n
    BY <1>2, <2>1, <2>2 DEF WaveGoesOn
  <2> QED
    BY <1>2, <2>1, <2>2
<1>4. ASSUME NEW x \in Connectors, node'[x].phase = "election", node'[x].leader = w
      PROVE  /\ node[x].phase = "election" /\ node[x].leader = w
             /\ node'[x].parent = node[x].parent
             /\ node'[x].awaiting \subseteq node[x].awaiting
             /\ \A e \in EndpointsOf(x) : e \in node[x].awaiting /\ e \notin node'[x].awaiting =>
                   ~NoneOf(chan[e], {LeaderWave(w)}) /\ NoneOf(chan'[e], {LeaderWave(w)})
  <2>1. CASE x = n
    BY <1>4, <2>1 DEF WaveGoesOn
  <2> QED
    BY <1>2, <1>4, <2>1
<1>5. InWave(w, J, P, C)'
  <2> SUFFICES ASSUME NEW x \in Connectors, node'[x].phase = "election", node'[x].leader = w
               PROVE  /\ x \in J
                      /\ \A e \in EndpointsOf(x) : e \in P <=> e = node'[x].parent
                      /\ node'[x].parent = NoEndpoint <=> x = w
                      /\ node'[x].parent # NoEndpoint => node'[x].parent \in EndpointsOf(x)
                      /\ x \in C => node'[x].awaiting = {}
    BY <1>2 DEF InWave
  <2>1. /\ x \in J
        /\ \A e \in EndpointsOf(x) : e \in P <=> e = node[x].parent
        /\ node[x].parent = NoEndpoint <=> x = w
        /\ node[x].parent # NoEndpoint => node[x].parent \in EndpointsOf(x)
        /\ x \in C => node[x].awaiting = {}
    BY <1>1, <1>4 DEF WaveHistory, InWave
  <2>2. node'[x].parent = node[x].parent /\ node'[x].awaiting \subseteq node[x].awaiting
    BY <1>4
  <2> QED
    BY <2>1, <2>2
<1>6. InFlight(w, J, P, C)'
  BY <1>1, <1>2 DEF WaveHistory, InFlight, Quiet, Sent
<1>7. Answers(w, J, P, C)'
  <2> SUFFICES ASSUME NEW x \in Connectors, node'[x].phase = "election", node'[x].leader = w,
                      NEW e \in EndpointsOf(x), e \notin node'[x].awaiting
               PROVE  Sent(Peer[e], J, P, C) /\ NoneOf(chan'[e], {LeaderWave(w)})
    BY <1>2 DEF Answers, Sent
  <2>1. e \in session.net /\ Quiet(e, {LeaderWave(w)})
    BY DEF EndpointsOf
  <2>2. CASE e \notin node[x].awaiting
    BY <1>1, <1>4, <2>1, <2>2 DEF WaveHistory, Answers, Quiet
  <2>3. CASE e \in node[x].awaiting
    <3>1. ~NoneOf(chan[e], {LeaderWave(w)}) /\ NoneOf(chan'[e], {LeaderWave(w)})
      BY <1>4, <2>3
    <3> QED
      BY <1>1, <2>1, <3>1 DEF WaveHistory, InFlight
  <2> QED
    BY <2>2, <2>3
<1>8. HeardAll(J, P, C)' /\ GrownFrom(w, J, P)' /\ P \subseteq session'.net
  BY <1>1, <1>2 DEF WaveHistory, HeardAll, Sent, GrownFrom
<1>9. WaveHistory(w, J, P, C)'
  BY <1>1, <1>3, <1>5, <1>6, <1>7, <1>8 DEF WaveHistory
<1> QED
  BY <1>9 DEF HasHistory

\* n joins the wave of w: its own, or one that has come through e.
LEMMA WaveJoined ==
    ASSUME TypeOK, NEW n \in Connectors, NEW w \in Connectors, HasHistory(w),
           NEW rec \in Node, Moved(n, rec),
           NEW D \in SUBSET EndpointsOf(n), NEW out, Entered(D, out),
           NEW e \in Endpoints \cup {NoEndpoint},
           n <= w, e = NoEndpoint <=> n = w,
           \/ node[n].phase = "pairing"
           \/ node[n].phase = "election" /\ node[n].leader < w,
           rec.phase # "pairing",
           rec.phase = "election" =>
              rec.leader = w /\ rec.parent = e /\ rec.awaiting = EndpointsOf(n) \ {e},
           e # NoEndpoint =>
              /\ e \in EndpointsOf(n)
              /\ ~NoneOf(chan[e], {LeaderWave(w)})
              /\ Peer[e] \notin D => NoneOf(chan'[e], {LeaderWave(w)})
              /\ e \in D => EndpointsOf(n) = {e},
           e = NoEndpoint => EndpointsOf(n) # {}
    PROVE  HasHistory(w)'
<1>1. PICK J \in SUBSET Connectors, P \in SUBSET Endpoints, C \in SUBSET Connectors :
        WaveHistory(w, J, P, C)
  BY DEF HasHistory
<1>2. /\ session.net \subseteq Endpoints /\ session'.net = session.net
      /\ \A x : EndpointsOf(x)' = EndpointsOf(x)
      /\ \A x \in Connectors : x # n => node'[x] = node[x]
      /\ node[n].leader \in Nat /\ w \in Nat /\ node'[n] = rec
      /\ \A x \in session.net : Peer[x] \in session.net /\ Peer[Peer[x]] = x
      /\ NoEndpoint \notin Endpoints /\ LeaderWave(w) \in Msg
  BY NetClosed, ConnectorsAssumption, NoEndpointAssumption, Messages DEF Moved, EndpointsOf, Node
<1>3. n \notin J
  <2>1. n \in J => /\ node[n].phase # "pairing"
                   /\ node[n].phase = "election" => w <= node[n].leader
    BY <1>1 DEF WaveHistory, JoinsGrow
  <2> QED
    BY <1>2, <2>1
<1>4. n \notin C /\ \A f \in EndpointsOf(n) : f \notin P /\ ~Sent(f, J, P, C)
  BY <1>1, <1>3 DEF WaveHistory, EndpointsOf, Sent
<1>5. PICK J1 \in SUBSET Connectors : J1 = J \cup {n}
  OBVIOUS
<1>6. PICK P1 \in SUBSET Endpoints : P1 = P \cup ({e} \ {NoEndpoint})
  BY <1>2
<1>7. PICK C1 \in SUBSET Connectors : C1 = C \cup {x \in {n} : EndpointsOf(n) = {e}}
  OBVIOUS
<1>8. ASSUME NEW f, Sent(f, J, P, C)
      PROVE  Sent(f, J1, P1, C1)
  BY <1>3, <1>5, <1>6, <1>7, <1>8 DEF Sent, EndpointsOf
<1>9. ASSUME NEW f \in D
      PROVE  Sent(f, J1, P1, C1)
  <2>1. Owner[f] = n /\ f \in EndpointsOf(n)
    BY DEF EndpointsOf
  <2>2. f \in P1 => f = e
    BY <1>4, <1>6, <2>1
  <2>3. f = e => n \in C1
    BY <1>2, <1>7, <2>1 DEF EndpointsOf
  <2> QED
    BY <1>5, <2>1, <2>2, <2>3 DEF Sent
<1>10. e # NoEndpoint => /\ Sent(Peer[e], J, P, C)
                         /\ Peer[e] \notin D /\ NoneOf(chan'[e], {LeaderWave(w)})
                         /\ Owner[Peer[e]] \in J
  <2> SUFFICES ASSUME e # NoEndpoint
               PROVE  /\ Sent(Peer[e], J, P, C)
                      /\ Peer[e] \notin D /\ NoneOf(chan'[e], {LeaderWave(w)})
                      /\ Owner[Peer[e]] \in J
    OBVIOUS
  <2>1. e \in session.net /\ ~NoneOf(chan[e], {LeaderWave(w)})
    BY DEF EndpointsOf
  <2>2. Sent(Peer[e], J, P, C)
    BY <1>1, <2>1 DEF WaveHistory, InFlight
  <2>3. Peer[e] \notin D
    BY <1>4, <2>2
  <2> QED
    BY <2>2, <2>3 DEF Sent
<1>11. JoinsGrow(w, J1)'
  <2> SUFFICES ASSUME NEW x \in J1
               PROVE  /\ x <= w
                      /\ node'[x].phase # "pairing"
                      /\ node'[x].phase = "election" => w <= node'[x].leader
    BY DEF JoinsGrow
  <2>1. CASE x = n
    BY <1>2, <2>1
  <2>2. CASE x # n
    BY <1>1, <1>2, <1>5, <2>2 DEF WaveHistory, JoinsGrow
  <2> QED
    BY <2>1, <2>2
<1>12. InWave(w, J1, P1, C1)'
  <2> SUFFICES ASSUME NEW x \in Connectors, node'[x].phase = "election", node'[x].leader = w
               PROVE  /\ x \in J1
                      /\ \A f \in EndpointsOf(x) : f \in P1 <=> f = node'[x].parent
                      /\ node'[x].parent = NoEndpoint <=> x = w
                      /\ node'[x].parent # NoEndpoint => node'[x].parent \in EndpointsOf(x)
                      /\ x \in C1 => node'[x].awaiting = {}
    BY <1>2 DEF InWave
  <2>1. CASE x = n
    <3>1. \A f \in EndpointsOf(n) : f # NoEndpoint /\ (f \in P1 <=> f = e)
      BY <1>2, <1>4, <1>6 DEF EndpointsOf
    <3>2. n \in C1 => EndpointsOf(n) \ {e} = {}
      BY <1>4, <1>7
    <3> QED
      BY <1>2, <1>5, <2>1, <3>1, <3>2
  <2>2. CASE x # n
    <3>1. /\ x \in J
          /\ \A f \in EndpointsOf(x) : f \in P <=> f = node[x].parent
          /\ node[x].parent = NoEndpoint <=> x = w
          /\ node[x].parent # NoEndpoint => node[x].parent \in EndpointsOf(x)
          /\ x \in C => node[x].awaiting = {}
      BY <1>1, <1>2, <2>2 DEF WaveHistory, InWave
    <3>2. \A f \in EndpointsOf(x) : f \in P1 <=> f \in P
      BY <1>6, <2>2 DEF EndpointsOf
    <3>3. x \in C1 => x \in C
      BY <1>7, <2>2
    <3> QED
      BY <1>2, <1>5, <2>2, <3>1, <3>2, <3>3
  <2> QED
    BY <2>1, <2>2
<1>13. ASSUME NEW x \in session.net
       PROVE  /\ OneOf(chan'[x], {LeaderWave(w)})
              /\ ~Sent(Peer[x], J1, P1, C1) => NoneOf(chan'[x], {LeaderWave(w)})
              /\ Peer[x] \notin D => Quiet(x, {LeaderWave(w)})
  <2>1. x \in Endpoints /\ {LeaderWave(w)} \in SUBSET Msg
    BY <1>2
  <2>2. /\ OneOf(chan[x], {LeaderWave(w)})
        /\ ~Sent(Peer[x], J, P, C) => NoneOf(chan[x], {LeaderWave(w)})
    BY <1>1 DEF WaveHistory, InFlight
  <2>3. CASE Peer[x] \in D
    BY <1>4, <1>9, <2>1, <2>2, <2>3 DEF Entered
  <2>4. CASE Peer[x] \notin D
    <3>1. Quiet(x, {LeaderWave(w)})
      BY <2>1, <2>4 DEF Entered
    <3> QED
      BY <1>8, <2>2, <2>4, <3>1 DEF Quiet
  <2> QED
    BY <2>3, <2>4
<1>14. InFlight(w, J1, P1, C1)'
  BY <1>2, <1>13 DEF InFlight, Sent
<1>15. Answers(w, J1, P1, C1)'
  <2> SUFFICES ASSUME NEW x \in Connectors, node'[x].phase = "election", node'[x].leader = w,
                      NEW f \in EndpointsOf(x), f \notin node'[x].awaiting
               PROVE  Sent(Peer[f], J1, P1, C1) /\ NoneOf(chan'[f], {LeaderWave(w)})
    BY <1>2 DEF Answers, Sent
  <2>1. f \in session.net
    BY DEF EndpointsOf
  <2>2. CASE x = n
    <3>1. f = e /\ e # NoEndpoint
      BY <1>2, <2>1, <2>2
    <3> QED
      BY <1>8, <1>10, <3>1
  <2>3. CASE x # n
    <3>1. Sent(Peer[f], J, P, C) /\ NoneOf(chan[f], {LeaderWave(w)})
      BY <1>1, <1>2, <2>3 DEF WaveHistory, Answers
    <3>2. Peer[f] \notin D
      BY <1>4, <3>1
    <3> QED
      BY <1>8, <1>13, <2>1, <3>1, <3>2 DEF Quiet
  <2> QED
    BY <2>2, <2>3
<1>16. HeardAll(J1, P1, C1)'
  <2> SUFFICES ASSUME NEW x \in session.net, Owner[x] \in C1
               PROVE  Sent(Peer[x], J1, P1, C1)
    BY <1>2 DEF HeardAll, Sent
  <2>1. CASE Owner[x] \in C
    BY <1>1, <1>8, <2>1 DEF WaveHistory, HeardAll
  <2>2. CASE Owner[x] \notin C
    <3>1. Owner[x] = n /\ EndpointsOf(n) = {e} /\ x = e
      BY <1>7, <2>2 DEF EndpointsOf
    <3> QED
      BY <1>2, <1>8, <1>10, <3>1
  <2> QED
    BY <2>1, <2>2
<1>17. GrownFrom(w, J1, P1)'
  <2> SUFFICES ASSUME NEW S \in SUBSET Connectors, w \in S,
                      \A f \in P1 : Owner[Peer[f]] \in S => Owner[f] \in S
               PROVE  J1 \subseteq S
    BY DEF GrownFrom
  <2>1. J \subseteq S
    BY <1>1, <1>6 DEF WaveHistory, GrownFrom
  <2>2. n \in S
    <3>1. CASE e = NoEndpoint
      BY <3>1
    <3>2. CASE e # NoEndpoint
      <4>1. e \in P1 /\ Owner[e] = n /\ Owner[Peer[e]] \in S
        BY <1>6, <1>10, <2>1, <3>2 DEF EndpointsOf
      <4> QED
        BY <4>1
    <3> QED
      BY <3>1, <3>2
  <2> QED
    BY <1>5, <2>1, <2>2
<1>18. /\ P1 \subseteq session'.net /\ C1 \subseteq J1
       /\ \A f \in P1 : Owner[f] \in J1
  BY <1>1, <1>2, <1>5, <1>6, <1>7 DEF WaveHistory, EndpointsOf
<1>19. WaveHistory(w, J1, P1, C1)'
  BY <1>11, <1>12, <1>14, <1>15, <1>16, <1>17, <1>18 DEF WaveHistory
<1> QED
  BY <1>19 DEF HasHistory

\* When the wave of w has come back to w, everyone linked to w has joined it:
\* the complete ones are closed under P, hence everyone who joined is complete,
\* and those who joined are closed under channels.
LEMMA CompleteWave ==
    ASSUME TypeOK, NEW w \in Connectors,
           NEW J \in SUBSET Connectors, NEW P \in SUBSET Endpoints, NEW C \in SUBSET Connectors,
           P \subseteq session.net, C \subseteq J, \A f \in P : Owner[f] \in J,
           \A x \in J : x <= w, HeardAll(J, P, C), GrownFrom(w, J, P), w \in C
    PROVE  Greatest(w)
<1>1. \A f \in P : Owner[Peer[f]] \in C => Owner[f] \in C
  <2> SUFFICES ASSUME NEW f \in P, Owner[Peer[f]] \in C PROVE Owner[f] \in C
    OBVIOUS
  <2>1. Peer[f] \in session.net /\ Peer[Peer[f]] = f
    BY NetClosed
  <2>2. Sent(f, J, P, C)
    BY <2>1 DEF HeardAll
  <2> QED
    BY <2>2 DEF Sent
<1>2. J \subseteq C
  BY <1>1 DEF GrownFrom
<1>3. Closed(J)
  BY <1>2 DEF Closed, HeardAll, Sent, Neighbor
<1>4. Component(w) \subseteq J
  BY <1>3 DEF Component
<1> QED
  BY <1>4 DEF Greatest

\* w hears the last answer: it has won the election.
LEMMA RootComplete ==
    ASSUME TypeOK, NEW w \in Connectors, HasHistory(w),
           node[w].phase = "election", node[w].leader = w,
           NEW e \in EndpointsOf(w), node[w].awaiting \subseteq {e},
           ~NoneOf(chan[e], {LeaderWave(w)})
    PROVE  Greatest(w)
<1>1. PICK J \in SUBSET Connectors, P \in SUBSET Endpoints, C \in SUBSET Connectors :
        WaveHistory(w, J, P, C)
  BY DEF HasHistory
<1>2. w \in J
  BY <1>1 DEF WaveHistory, InWave
<1>3. PICK C1 \in SUBSET Connectors : C1 = C \cup {w}
  OBVIOUS
<1>4. \A f : Sent(f, J, P, C) => Sent(f, J, P, C1)
  BY <1>3 DEF Sent
<1>5. Sent(Peer[e], J, P, C)
  BY <1>1 DEF WaveHistory, InFlight, EndpointsOf
<1>6. \A f \in EndpointsOf(w) : Sent(Peer[f], J, P, C)
  BY <1>1, <1>5 DEF WaveHistory, Answers
<1>7. HeardAll(J, P, C1)
  <2> SUFFICES ASSUME NEW x \in session.net, Owner[x] \in C1
               PROVE  Sent(Peer[x], J, P, C1)
    BY DEF HeardAll
  <2>1. CASE Owner[x] \in C
    BY <1>1, <1>4, <2>1 DEF WaveHistory, HeardAll
  <2>2. CASE Owner[x] = w
    BY <1>4, <1>6, <2>2 DEF EndpointsOf
  <2> QED
    BY <1>3, <2>1, <2>2
<1>8. GrownFrom(w, J, P) /\ P \subseteq session.net /\ C1 \subseteq J
      /\ (\A f \in P : Owner[f] \in J) /\ (\A x \in J : x <= w)
  BY <1>1, <1>2, <1>3 DEF WaveHistory, JoinsGrow
<1> QED
  BY <1>3, <1>7, <1>8, CompleteWave

\* n, which is in the wave of w, hears the last answer and answers its parent.
LEMMA WaveCompleted ==
    ASSUME TypeOK, NEW n \in Connectors, NEW w \in Connectors, HasHistory(w),
           node[n].phase = "election", node[n].leader = w,
           NEW rec \in Node, Moved(n, rec),
           NEW D, NEW out, Entered(D, out),
           \A f \in D : out[f] = LeaderWave(w) => f = node[n].parent,
           NEW e \in EndpointsOf(n), e \in node[n].awaiting, node[n].awaiting \subseteq {e},
           Left(e, LeaderWave(w), D, out),
           rec.phase # "pairing",
           rec.phase = "election" =>
              rec.leader = w /\ rec.parent = node[n].parent /\ rec.awaiting = {}
    PROVE  HasHistory(w)'
<1>1. PICK J \in SUBSET Connectors, P \in SUBSET Endpoints, C \in SUBSET Connectors :
        WaveHistory(w, J, P, C)
  BY DEF HasHistory
<1>2. /\ session.net \subseteq Endpoints /\ session'.net = session.net
      /\ \A x : EndpointsOf(x)' = EndpointsOf(x)
      /\ \A x \in Connectors : x # n => node'[x] = node[x]
      /\ w \in Nat /\ node'[n] = rec
      /\ \A x \in session.net : Peer[x] \in session.net /\ Peer[Peer[x]] = x
      /\ NoEndpoint \notin Endpoints /\ {LeaderWave(w)} \in SUBSET Msg
  BY NetClosed, ConnectorsAssumption, NoEndpointAssumption, Messages DEF Moved, EndpointsOf
<1>3. /\ n \in J /\ n \notin C
      /\ \A f \in EndpointsOf(n) : f \in P <=> f = node[n].parent
      /\ node[n].parent = NoEndpoint <=> n = w
      /\ node[n].parent # NoEndpoint => node[n].parent \in EndpointsOf(n)
  BY <1>1 DEF WaveHistory, InWave
<1>4. node[n].parent # NoEndpoint => ~Sent(node[n].parent, J, P, C)
  BY <1>3 DEF Sent, EndpointsOf
<1>5. PICK C1 \in SUBSET Connectors : C1 = C \cup {n}
  OBVIOUS
<1>6. \A f : Sent(f, J, P, C) => Sent(f, J, P, C1)
  BY <1>5 DEF Sent
<1>7. node[n].parent # NoEndpoint => Sent(node[n].parent, J, P, C1)
  BY <1>3, <1>5 DEF Sent, EndpointsOf
<1>8. e \in session.net /\ Sent(Peer[e], J, P, C)
  <2>1. ~NoneOf(chan[e], {LeaderWave(w)})
    BY <1>2 DEF Left
  <2> QED
    BY <1>1, <2>1 DEF WaveHistory, InFlight, EndpointsOf
<1>9. \A f \in EndpointsOf(n) : Sent(Peer[f], J, P, C)
  BY <1>1, <1>8 DEF WaveHistory, Answers
<1>10. ASSUME NEW x \in session.net
       PROVE  \/ Quiet(x, {LeaderWave(w)})
              \/ /\ node[n].parent # NoEndpoint /\ Peer[x] = node[n].parent
                 /\ OneOf(chan'[x], {LeaderWave(w)})
  <2>1. x \in Endpoints /\ OneOf(chan[x], {LeaderWave(w)})
        /\ (~Sent(Peer[x], J, P, C) => NoneOf(chan[x], {LeaderWave(w)}))
    BY <1>1, <1>2 DEF WaveHistory, InFlight
  <2>2. CASE Peer[x] \in D => out[Peer[x]] # LeaderWave(w)
    BY <1>2, <2>1, <2>2 DEF Entered
  <2>3. CASE Peer[x] \in D /\ out[Peer[x]] = LeaderWave(w)
    <3>1. Peer[x] = node[n].parent /\ node[n].parent # NoEndpoint
      BY <1>2, <2>3
    <3> QED
      BY <1>2, <1>4, <2>1, <3>1 DEF Entered
  <2> QED
    BY <2>2, <2>3
<1>11. JoinsGrow(w, J)'
  <2> SUFFICES ASSUME NEW x \in J
               PROVE  /\ x <= w
                      /\ node'[x].phase # "pairing"
                      /\ node'[x].phase = "election" => w <= node'[x].leader
    BY DEF JoinsGrow
  <2>1. /\ x <= w /\ node[x].phase # "pairing"
        /\ node[x].phase = "election" => w <= node[x].leader
    BY <1>1 DEF WaveHistory, JoinsGrow
  <2> QED
    BY <1>2, <2>1
<1>12. InWave(w, J, P, C1)'
  <2> SUFFICES ASSUME NEW x \in Connectors, node'[x].phase = "election", node'[x].leader = w
               PROVE  /\ x \in J
                      /\ \A f \in EndpointsOf(x) : f \in P <=> f = node'[x].parent
                      /\ node'[x].parent = NoEndpoint <=> x = w
                      /\ node'[x].parent # NoEndpoint => node'[x].parent \in EndpointsOf(x)
                      /\ x \in C1 => node'[x].awaiting = {}
    BY <1>2 DEF InWave
  <2>1. CASE x = n
    BY <1>2, <1>3, <2>1
  <2>2. CASE x # n
    BY <1>1, <1>2, <1>5, <2>2 DEF WaveHistory, InWave
  <2> QED
    BY <2>1, <2>2
<1>13. InFlight(w, J, P, C1)'
  <2> SUFFICES ASSUME NEW x \in session.net
               PROVE  /\ OneOf(chan'[x], {LeaderWave(w)})
                      /\ ~Sent(Peer[x], J, P, C1) => NoneOf(chan'[x], {LeaderWave(w)})
    BY <1>2 DEF InFlight, Sent
  <2>1. /\ OneOf(chan[x], {LeaderWave(w)})
        /\ ~Sent(Peer[x], J, P, C) => NoneOf(chan[x], {LeaderWave(w)})
    BY <1>1 DEF WaveHistory, InFlight
  <2> QED
    BY <1>6, <1>7, <1>10, <2>1 DEF Quiet
<1>14. Answers(w, J, P, C1)'
  <2> SUFFICES ASSUME NEW x \in Connectors, node'[x].phase = "election", node'[x].leader = w,
                      NEW f \in EndpointsOf(x), f \notin node'[x].awaiting
               PROVE  Sent(Peer[f], J, P, C1) /\ NoneOf(chan'[f], {LeaderWave(w)})
    BY <1>2 DEF Answers, Sent
  <2>1. f \in session.net
    BY DEF EndpointsOf
  <2>2. CASE f = e
    <3>1. Peer[e] \in D => out[Peer[e]] # LeaderWave(w)
      <4> SUFFICES ASSUME Peer[e] \in D, out[Peer[e]] = LeaderWave(w) PROVE FALSE
        OBVIOUS
      <4>1. Peer[e] = node[n].parent /\ Peer[e] # NoEndpoint
        BY <1>2, <1>8
      <4> QED
        BY <1>4, <1>8, <4>1
    <3>2. OneOf(chan[e], {LeaderWave(w)})
      BY <1>1, <1>8 DEF WaveHistory, InFlight
    <3> QED
      BY <1>2, <1>6, <1>8, <2>2, <3>1, <3>2 DEF Left
  <2>3. CASE f # e
    <3>1. f \notin node[x].awaiting /\ node[x].phase = "election" /\ node[x].leader = w
      BY <1>2, <2>3
    <3>2. Sent(Peer[f], J, P, C) /\ NoneOf(chan[f], {LeaderWave(w)})
      BY <1>1, <3>1 DEF WaveHistory, Answers
    <3>3. Quiet(f, {LeaderWave(w)})
      BY <1>4, <1>10, <2>1, <3>2
    <3> QED
      BY <1>6, <3>2, <3>3 DEF Quiet
  <2> QED
    BY <2>2, <2>3
<1>15. HeardAll(J, P, C1)
  <2> SUFFICES ASSUME NEW x \in session.net, Owner[x] \in C1
               PROVE  Sent(Peer[x], J, P, C1)
    BY DEF HeardAll
  <2>1. CASE Owner[x] \in C
    BY <1>1, <1>6, <2>1 DEF WaveHistory, HeardAll
  <2>2. CASE Owner[x] = n
    BY <1>6, <1>9, <2>2 DEF EndpointsOf
  <2> QED
    BY <1>5, <2>1, <2>2
<1>16. GrownFrom(w, J, P) /\ P \subseteq session.net /\ C1 \subseteq J
       /\ (\A f \in P : Owner[f] \in J) /\ (\A x \in J : x <= w)
  BY <1>1, <1>3, <1>5 DEF WaveHistory, JoinsGrow
<1>17. HeardAll(J, P, C1)' /\ GrownFrom(w, J, P)' /\ P \subseteq session'.net
  BY <1>2, <1>15, <1>16 DEF HeardAll, Sent, GrownFrom
<1>18. WaveHistory(w, J, P, C1)'
  BY <1>11, <1>12, <1>13, <1>14, <1>16, <1>17 DEF WaveHistory
<1> QED
  BY <1>18 DEF HasHistory

-----------------------------------------------------------------------------
(* The tree through a step *)

LEMMA TreeMsgsParts ==
    /\ Announces \subseteq TreeMsgs /\ {YouAreMyParent} \subseteq TreeMsgs /\ TreeMsgs \subseteq Msg
    /\ YouAreMyParent \notin Announces
    /\ \A l \in Connectors : LeaderAnnounce(l) \in Announces
    /\ \A l : LeaderWave(l) \notin TreeMsgs /\ LeaderAnnounce(l) # YouAreMyParent
    /\ CommMsg \notin TreeMsgs
<1>1. \A l : LeaderAnnounce(l).type = "LeaderAnnounce" /\ LeaderWave(l).type = "LeaderWave"
  BY Messages
<1>2. YouAreMyParent.type = "YouAreMyParent" /\ CommMsg.type = "CommMsg"
  BY Messages
<1>3. \A m \in TreeMsgs : m.type \in {"LeaderAnnounce", "YouAreMyParent"}
  BY <1>1, <1>2 DEF TreeMsgs, Announces
<1>4. \A m \in Announces : m.type = "LeaderAnnounce"
  BY <1>1 DEF Announces
<1> QED
  BY <1>1, <1>2, <1>3, <1>4, Messages DEF TreeMsgs, Announces

QuietTree(x) == Quiet(x, TreeMsgs) /\ Quiet(x, Announces) /\ Quiet(x, {YouAreMyParent})

\* A step of n in which it neither starts the second phase nor hears an answer.
TreeGoesOn(n) ==
    /\ PastElection(n) => node'[n].phase \notin {"pairing", "election"}
    /\ node'[n].phase \in {"tree", "done"} =>
        \/ /\ Settled(n) /\ node'[n].phase = node[n].phase
           /\ node'[n].parent = node[n].parent /\ node'[n].awaiting = node[n].awaiting
           /\ node'[n].children = node[n].children
        \/ /\ EndpointsOf(n) = {} /\ node'[n].parent = NoEndpoint /\ node'[n].awaiting = {}

LEMMA TreeQuiet ==
    ASSUME TypeOK, TreeInv, ParentsAcyclic, NEW n \in Connectors, NEW rec, Moved(n, rec),
           \A x \in session.net : QuietTree(x), TreeGoesOn(n)
    PROVE  TreeInv' /\ ParentsAcyclic'
<1>1. /\ session'.net = session.net /\ \A x : EndpointsOf(x)' = EndpointsOf(x)
      /\ \A x \in Connectors : x # n => node'[x] = node[x]
      /\ \A x \in session.net : Owner[x] \in Connectors /\ Neighbor(x) \in Connectors
      /\ \A x \in session.net : Neighbor(x) = n => EndpointsOf(n) # {}
  BY NetClosed DEF Moved, EndpointsOf, Neighbor
<1>2. \A x \in Connectors : PastElection(x) => node'[x].phase \notin {"pairing", "election"}
  BY <1>1 DEF PastElection, TreeGoesOn
<1>3. \A x \in Connectors : node'[x].phase \in {"tree", "done"} =>
        \/ /\ Settled(x) /\ node'[x].phase = node[x].phase
           /\ node'[x].parent = node[x].parent /\ node'[x].awaiting = node[x].awaiting
           /\ node'[x].children = node[x].children
        \/ x = n /\ EndpointsOf(x) = {} /\ node'[x].parent = NoEndpoint /\ node'[x].awaiting = {}
  BY <1>1 DEF Settled, TreeGoesOn
<1>4. TreeMessages'
  <2> SUFFICES ASSUME NEW e \in session.net
               PROVE  /\ OneOf(chan'[e], TreeMsgs)
                      /\ ~NoneOf(chan'[e], TreeMsgs) =>
                            node'[Neighbor(e)].phase \notin {"pairing", "election"}
                      /\ ~NoneOf(chan'[e], {YouAreMyParent}) =>
                            node'[Owner[e]].phase \notin {"pairing", "election"}
                      /\ node'[Neighbor(e)].phase \in {"tree", "done"} =>
                        /\ ~NoneOf(chan'[e], {YouAreMyParent}) => node'[Neighbor(e)].parent = Peer[e]
                        /\ ~NoneOf(chan'[e], Announces) => node'[Neighbor(e)].parent # Peer[e]
    BY <1>1 DEF TreeMessages, PastElection, Settled, Neighbor
  <2>1. /\ OneOf(chan[e], TreeMsgs)
        /\ ~NoneOf(chan[e], TreeMsgs) => PastElection(Neighbor(e))
        /\ ~NoneOf(chan[e], {YouAreMyParent}) => PastElection(Owner[e])
        /\ Settled(Neighbor(e)) =>
            /\ ~NoneOf(chan[e], {YouAreMyParent}) => node[Neighbor(e)].parent = Peer[e]
            /\ ~NoneOf(chan[e], Announces) => node[Neighbor(e)].parent # Peer[e]
    BY DEF TreeInv, TreeMessages
  <2>2. QuietTree(e)
    OBVIOUS
  <2>3. node'[Neighbor(e)].phase \in {"tree", "done"} =>
            Settled(Neighbor(e)) /\ node'[Neighbor(e)].parent = node[Neighbor(e)].parent
    BY <1>1, <1>3
  <2> QED
    BY <1>1, <1>2, <2>1, <2>2, <2>3 DEF QuietTree, Quiet
<1>5. TreeAnswers'
  <2> SUFFICES ASSUME NEW x \in Connectors, node'[x].phase \in {"tree", "done"}
               PROVE  /\ node'[x].parent # NoEndpoint =>
                            node'[x].parent \in EndpointsOf(x) \ node'[x].awaiting
                      /\ \A e \in EndpointsOf(x) :
                            e \in node'[x].awaiting => e \notin node'[x].children
                      /\ node'[x].phase = "done" => node'[x].awaiting = {}
                      /\ \A e \in EndpointsOf(x) : e \notin node'[x].awaiting =>
                        /\ NoneOf(chan'[e], TreeMsgs)
                        /\ node'[Neighbor(e)].phase \notin {"pairing", "election"}
                        /\ node'[Neighbor(e)].phase \in {"tree", "done"} =>
                            (e \in node'[x].children <=> node'[Neighbor(e)].parent = Peer[e])
    BY <1>1 DEF TreeAnswers, PastElection, Settled, Neighbor
  <2>1. CASE EndpointsOf(x) = {} /\ node'[x].parent = NoEndpoint /\ node'[x].awaiting = {}
    BY <2>1
  <2>2. CASE /\ Settled(x) /\ node'[x].phase = node[x].phase
             /\ node'[x].parent = node[x].parent /\ node'[x].awaiting = node[x].awaiting
             /\ node'[x].children = node[x].children
    <3>1. /\ node[x].parent # NoEndpoint => node[x].parent \in EndpointsOf(x) \ node[x].awaiting
          /\ \A e \in EndpointsOf(x) : e \in node[x].awaiting => e \notin node[x].children
          /\ node[x].phase = "done" => node[x].awaiting = {}
          /\ \A e \in EndpointsOf(x) : e \notin node[x].awaiting =>
              /\ NoneOf(chan[e], TreeMsgs)
              /\ PastElection(Neighbor(e))
              /\ Settled(Neighbor(e)) =>
                    (e \in node[x].children <=> node[Neighbor(e)].parent = Peer[e])
      BY <2>2 DEF TreeInv, TreeAnswers
    <3>2. ASSUME NEW e \in EndpointsOf(x), e \notin node'[x].awaiting
          PROVE  /\ NoneOf(chan'[e], TreeMsgs)
                 /\ node'[Neighbor(e)].phase \notin {"pairing", "election"}
                 /\ node'[Neighbor(e)].phase \in {"tree", "done"} =>
                      (e \in node'[x].children <=> node'[Neighbor(e)].parent = Peer[e])
      <4>1. e \in session.net /\ e \notin node[x].awaiting /\ Neighbor(e) \in Connectors
        BY <1>1, <2>2, <3>2 DEF EndpointsOf
      <4>2. node'[Neighbor(e)].phase \in {"tree", "done"} =>
              Settled(Neighbor(e)) /\ node'[Neighbor(e)].parent = node[Neighbor(e)].parent
        BY <1>1, <1>3, <4>1
      <4> QED
        BY <1>2, <2>2, <3>1, <4>1, <4>2 DEF QuietTree, Quiet
    <3> QED
      BY <2>2, <3>1, <3>2
  <2> QED
    BY <1>3, <2>1, <2>2
<1>6. ParentsAcyclic'
  <2> SUFFICES ASSUME NEW S \in SUBSET Connectors, S # {},
                      \A x \in S : /\ node'[x].phase \in {"tree", "done"}
                                   /\ node'[x].parent # NoEndpoint
                                   /\ Neighbor(node'[x].parent) \in S
               PROVE  FALSE
    BY DEF ParentsAcyclic, Settled, Neighbor
  <2>1. \A x \in S : Settled(x) /\ node[x].parent # NoEndpoint /\ Neighbor(node[x].parent) \in S
    BY <1>3
  <2> QED
    BY <2>1 DEF ParentsAcyclic
<1> QED
  BY <1>4, <1>5, <1>6 DEF TreeInv

\* n leaves the election loop, with parent d, and tells its neighbours.
LEMMA TreeStarted ==
    ASSUME TypeOK, TreeInv, ParentsAcyclic, NEW n \in Connectors, node[n].phase = "election",
           NEW rec, Moved(n, rec), NEW l \in Connectors,
           NEW d \in Endpoints \cup {NoEndpoint}, NEW D \in SUBSET EndpointsOf(n), NEW out,
           Entered(D, out),
           \A f \in D : out[f] = IF f = d THEN YouAreMyParent ELSE LeaderAnnounce(l),
           d # NoEndpoint => d \in EndpointsOf(n) /\ Left(d, LeaderAnnounce(l), D, out),
           rec.phase \in {"tree", "done", "broken"},
           rec.phase # "broken" =>
              /\ rec.parent = d /\ rec.awaiting = EndpointsOf(n) \ {d} /\ rec.children = {}
              /\ rec.phase = "done" => rec.awaiting = {}
    PROVE  TreeInv' /\ ParentsAcyclic'
<1>1. /\ session'.net = session.net /\ \A x : EndpointsOf(x)' = EndpointsOf(x)
      /\ node'[n] = rec /\ \A x \in Connectors : x # n => node'[x] = node[x]
      /\ \A x \in session.net : Owner[x] \in Connectors /\ Neighbor(x) \in Connectors /\ x \in Endpoints
      /\ \A x \in session.net : Owner[Peer[x]] = Neighbor(x) /\ Peer[x] \in session.net
  BY NetClosed DEF Moved, EndpointsOf, Neighbor
<1>2. /\ TreeMsgs \in SUBSET Msg /\ Announces \in SUBSET Msg /\ {YouAreMyParent} \in SUBSET Msg
      /\ LeaderAnnounce(l) \in Announces /\ LeaderAnnounce(l) \in TreeMsgs
      /\ YouAreMyParent \notin Announces /\ LeaderAnnounce(l) # YouAreMyParent
  BY TreeMsgsParts
\* Nothing of the second phase has come from n before.
<1>3. ASSUME NEW x \in session.net, Neighbor(x) = n
      PROVE  NoneOf(chan[x], TreeMsgs) /\ NoneOf(chan[x], Announces) /\ NoneOf(chan[x], {YouAreMyParent})
  <2>1. NoneOf(chan[x], TreeMsgs)
    BY <1>3 DEF TreeInv, TreeMessages, PastElection
  <2> QED
    BY <2>1, TreeMsgsParts, NoneOfParts
<1>4. ASSUME NEW x \in session.net, Neighbor(x) # n
      PROVE  QuietTree(x)
  <2>1. Peer[x] \notin D /\ x \in Endpoints
    BY <1>1, <1>4 DEF EndpointsOf
  <2> QED
    BY <1>2, <2>1 DEF Entered, QuietTree
<1>5. ASSUME NEW x \in session.net, Neighbor(x) = n
      PROVE  /\ OneOf(chan'[x], TreeMsgs)
             /\ ~NoneOf(chan'[x], {YouAreMyParent}) => Peer[x] = d
             /\ ~NoneOf(chan'[x], Announces) => Peer[x] # d
  <2>1. x \in Endpoints
    BY <1>1
  <2>2. OneOf(chan'[x], TreeMsgs)
    BY <1>2, <1>3, <1>5, <2>1 DEF Entered
  <2>3. ASSUME Peer[x] # d
        PROVE  NoneOf(chan'[x], {YouAreMyParent})
    <3>1. Peer[x] \in D => out[Peer[x]] \notin {YouAreMyParent}
      BY <1>2, <2>3
    <3> QED
      BY <1>2, <1>3, <1>5, <2>1, <3>1 DEF Entered, Quiet
  <2>4. ASSUME Peer[x] = d
        PROVE  NoneOf(chan'[x], Announces)
    <3>1. Peer[x] \in D => out[Peer[x]] \notin Announces
      BY <1>2, <2>4
    <3> QED
      BY <1>2, <1>3, <1>5, <2>1, <3>1 DEF Entered, Quiet
  <2> QED
    BY <2>2, <2>3, <2>4
\* The parent has announced the leader, and awaits an answer.
<1>6. ASSUME d # NoEndpoint
      PROVE  /\ d \in session.net /\ PastElection(Neighbor(d)) /\ Neighbor(d) # n
             /\ NoneOf(chan'[d], TreeMsgs)
             /\ Settled(Neighbor(d)) => node[Neighbor(d)].parent # Peer[d]
  <2>1. d \in session.net /\ ~NoneOf(chan[d], TreeMsgs) /\ ~NoneOf(chan[d], Announces)
    BY <1>2, <1>6 DEF Left, EndpointsOf
  <2>2. /\ OneOf(chan[d], TreeMsgs) /\ PastElection(Neighbor(d))
        /\ Settled(Neighbor(d)) => node[Neighbor(d)].parent # Peer[d]
    BY <2>1 DEF TreeInv, TreeMessages
  <2>3. Neighbor(d) # n /\ Peer[d] \notin D
    BY <1>1, <2>1, <2>2 DEF PastElection, EndpointsOf
  <2> QED
    BY <1>2, <1>6, <2>1, <2>2, <2>3 DEF Left
<1>7. TreeMessages'
  <2> SUFFICES ASSUME NEW e \in session.net
               PROVE  /\ OneOf(chan'[e], TreeMsgs)
                      /\ ~NoneOf(chan'[e], TreeMsgs) =>
                            node'[Neighbor(e)].phase \notin {"pairing", "election"}
                      /\ ~NoneOf(chan'[e], {YouAreMyParent}) =>
                            node'[Owner[e]].phase \notin {"pairing", "election"}
                      /\ node'[Neighbor(e)].phase \in {"tree", "done"} =>
                        /\ ~NoneOf(chan'[e], {YouAreMyParent}) => node'[Neighbor(e)].parent = Peer[e]
                        /\ ~NoneOf(chan'[e], Announces) => node'[Neighbor(e)].parent # Peer[e]
    BY <1>1 DEF TreeMessages, PastElection, Settled, Neighbor
  <2>1. CASE Neighbor(e) = n
    <3>1. ~NoneOf(chan'[e], {YouAreMyParent}) =>
              node'[Owner[e]].phase \notin {"pairing", "election"}
      <4> SUFFICES ASSUME ~NoneOf(chan'[e], {YouAreMyParent})
                   PROVE  node'[Owner[e]].phase \notin {"pairing", "election"}
        OBVIOUS
      <4>1. Peer[e] = d /\ d # NoEndpoint
        BY <1>1, <1>5, <2>1, NoEndpointAssumption
      <4>2. Neighbor(d) = Owner[e]
        BY <4>1, NetClosed DEF Neighbor
      <4> QED
        BY <1>1, <1>6, <4>1, <4>2 DEF PastElection
    <3> QED
      BY <1>1, <1>5, <2>1, <3>1
  <2>2. CASE Neighbor(e) # n
    <3>1. /\ OneOf(chan[e], TreeMsgs)
          /\ ~NoneOf(chan[e], TreeMsgs) => PastElection(Neighbor(e))
          /\ ~NoneOf(chan[e], {YouAreMyParent}) => PastElection(Owner[e])
          /\ Settled(Neighbor(e)) =>
              /\ ~NoneOf(chan[e], {YouAreMyParent}) => node[Neighbor(e)].parent = Peer[e]
              /\ ~NoneOf(chan[e], Announces) => node[Neighbor(e)].parent # Peer[e]
      BY DEF TreeInv, TreeMessages
    <3>2. QuietTree(e) /\ node'[Neighbor(e)] = node[Neighbor(e)]
      BY <1>1, <1>4, <2>2
    <3>3. PastElection(Owner[e]) => node'[Owner[e]].phase \notin {"pairing", "election"}
      BY <1>1 DEF PastElection
    <3> QED
      BY <3>1, <3>2, <3>3 DEF QuietTree, Quiet, PastElection, Settled
  <2> QED
    BY <2>1, <2>2
<1>8. TreeAnswers'
  <2> SUFFICES ASSUME NEW x \in Connectors, node'[x].phase \in {"tree", "done"}
               PROVE  /\ node'[x].parent # NoEndpoint =>
                            node'[x].parent \in EndpointsOf(x) \ node'[x].awaiting
                      /\ \A e \in EndpointsOf(x) :
                            e \in node'[x].awaiting => e \notin node'[x].children
                      /\ node'[x].phase = "done" => node'[x].awaiting = {}
                      /\ \A e \in EndpointsOf(x) : e \notin node'[x].awaiting =>
                        /\ NoneOf(chan'[e], TreeMsgs)
                        /\ node'[Neighbor(e)].phase \notin {"pairing", "election"}
                        /\ node'[Neighbor(e)].phase \in {"tree", "done"} =>
                            (e \in node'[x].children <=> node'[Neighbor(e)].parent = Peer[e])
    BY <1>1 DEF TreeAnswers, PastElection, Settled, Neighbor
  <2>1. CASE x = n
    <3>1. /\ rec.parent = d /\ rec.awaiting = EndpointsOf(n) \ {d} /\ rec.children = {}
          /\ rec.phase = "done" => rec.awaiting = {}
      BY <1>1, <2>1
    <3>2. ASSUME NEW e \in EndpointsOf(n), e \notin rec.awaiting
          PROVE  /\ NoneOf(chan'[e], TreeMsgs)
                 /\ node'[Neighbor(e)].phase \notin {"pairing", "election"}
                 /\ node'[Neighbor(e)].phase \in {"tree", "done"} => node'[Neighbor(e)].parent # Peer[e]
      <4>1. e = d /\ d # NoEndpoint
        BY <1>1, <3>1, <3>2, NoEndpointAssumption DEF EndpointsOf
      <4>2. node'[Neighbor(d)] = node[Neighbor(d)]
        BY <1>1, <1>6, <4>1
      <4> QED
        BY <1>6, <4>1, <4>2 DEF PastElection, Settled
    <3> QED
      BY <1>1, <2>1, <3>1, <3>2
  <2>2. CASE x # n
    <3>1. Settled(x) /\ node'[x] = node[x]
      BY <1>1, <2>2 DEF Settled
    <3>2. /\ node[x].parent # NoEndpoint => node[x].parent \in EndpointsOf(x) \ node[x].awaiting
          /\ \A e \in EndpointsOf(x) : e \in node[x].awaiting => e \notin node[x].children
          /\ node[x].phase = "done" => node[x].awaiting = {}
          /\ \A e \in EndpointsOf(x) : e \notin node[x].awaiting =>
              /\ NoneOf(chan[e], TreeMsgs)
              /\ PastElection(Neighbor(e))
              /\ Settled(Neighbor(e)) =>
                    (e \in node[x].children <=> node[Neighbor(e)].parent = Peer[e])
      BY <3>1 DEF TreeInv, TreeAnswers
    <3>3. ASSUME NEW e \in EndpointsOf(x), e \notin node[x].awaiting
          PROVE  /\ NoneOf(chan'[e], TreeMsgs)
                 /\ node'[Neighbor(e)].phase \notin {"pairing", "election"}
                 /\ node'[Neighbor(e)].phase \in {"tree", "done"} =>
                      (e \in node[x].children <=> node'[Neighbor(e)].parent = Peer[e])
      <4>1. e \in session.net /\ Neighbor(e) # n
        BY <3>2, <3>3 DEF EndpointsOf, PastElection
      <4>2. QuietTree(e) /\ node'[Neighbor(e)] = node[Neighbor(e)]
        BY <1>1, <1>4, <4>1
      <4> QED
        BY <3>2, <3>3, <4>2 DEF QuietTree, Quiet, PastElection, Settled
    <3> QED
      BY <3>1, <3>2, <3>3
  <2> QED
    BY <2>1, <2>2
\* A cycle would have to go through n, but nobody has n for a parent yet.
<1>9. ParentsAcyclic'
  <2> SUFFICES ASSUME NEW S \in SUBSET Connectors, S # {},
                      \A x \in S : /\ node'[x].phase \in {"tree", "done"}
                                   /\ node'[x].parent # NoEndpoint
                                   /\ Neighbor(node'[x].parent) \in S
               PROVE  FALSE
    BY DEF ParentsAcyclic, Settled, Neighbor
  <2>1. \A x \in S : x # n =>
            /\ Settled(x) /\ node[x].parent # NoEndpoint
            /\ Neighbor(node[x].parent) \in S /\ Neighbor(node[x].parent) # n
    <3> SUFFICES ASSUME NEW x \in S, x # n
                 PROVE  /\ Settled(x) /\ node[x].parent # NoEndpoint
                        /\ Neighbor(node[x].parent) \in S /\ Neighbor(node[x].parent) # n
      OBVIOUS
    <3>1. node'[x] = node[x] /\ Settled(x) /\ node[x].parent # NoEndpoint
          /\ Neighbor(node[x].parent) \in S
      BY <1>1 DEF Settled
    <3>2. PastElection(Neighbor(node[x].parent))
      BY <3>1 DEF TreeInv, TreeAnswers
    <3> QED
      BY <3>1, <3>2 DEF PastElection
  <2>2. n \in S => d # NoEndpoint /\ Neighbor(d) \in S
    BY <1>1
  <2>3. PICK S1 \in SUBSET Connectors : S1 = S \ {n}
    OBVIOUS
  <2>4. S1 # {}
    BY <1>6, <2>2, <2>3
  <2>5. \A x \in S1 : Settled(x) /\ node[x].parent # NoEndpoint /\ Neighbor(node[x].parent) \in S1
    BY <2>1, <2>3
  <2> QED
    BY <2>4, <2>5 DEF ParentsAcyclic
<1> QED
  BY <1>7, <1>8, <1>9 DEF TreeInv

\* n hears an answer of the second phase, through an endpoint that it awaits.
LEMMA TreeAnswered ==
    ASSUME TypeOK, TreeInv, ParentsAcyclic, NEW n \in Connectors, node[n].phase = "tree",
           NEW rec, Moved(n, rec), NEW out, Entered({}, out),
           NEW e \in EndpointsOf(n), e \in node[n].awaiting,
           NEW m, m \in TreeMsgs, Left(e, m, {}, out),
           rec.phase = IF node[n].awaiting \ {e} = {} THEN "done" ELSE "tree",
           rec.parent = node[n].parent, rec.awaiting = node[n].awaiting \ {e},
           rec.children = IF m = YouAreMyParent THEN node[n].children \cup {e} ELSE node[n].children
    PROVE  TreeInv' /\ ParentsAcyclic'
<1>1. /\ session'.net = session.net /\ \A x : EndpointsOf(x)' = EndpointsOf(x)
      /\ node'[n] = rec /\ \A x \in Connectors : x # n => node'[x] = node[x]
      /\ \A x \in session.net : Owner[x] \in Connectors /\ Neighbor(x) \in Connectors /\ x \in Endpoints
      /\ e \in session.net
  BY NetClosed DEF Moved, EndpointsOf, Neighbor
<1>2. \A x \in session.net : QuietTree(x)
  BY <1>1, TreeMsgsParts DEF Entered, QuietTree
<1>3. \A x \in Connectors :
        /\ PastElection(x) => node'[x].phase \notin {"pairing", "election"}
        /\ node'[x].phase \in {"tree", "done"} => Settled(x) /\ node'[x].parent = node[x].parent
  BY <1>1 DEF PastElection, Settled
<1>4. /\ OneOf(chan[e], TreeMsgs) /\ PastElection(Neighbor(e)) /\ NoneOf(chan'[e], TreeMsgs)
      /\ Settled(Neighbor(e)) => (m = YouAreMyParent <=> node[Neighbor(e)].parent = Peer[e])
  <2>1. m \in Msg /\ (m # YouAreMyParent => m \in Announces)
    BY TreeMsgsParts DEF TreeMsgs
  <2>2. /\ ~NoneOf(chan[e], TreeMsgs) /\ OneOf(chan[e], TreeMsgs) /\ PastElection(Neighbor(e))
    BY <1>1, TreeMsgsParts DEF Left, TreeInv, TreeMessages
  <2>3. NoneOf(chan'[e], TreeMsgs)
    BY <2>2, TreeMsgsParts DEF Left
  <2>4. /\ m = YouAreMyParent => ~NoneOf(chan[e], {YouAreMyParent})
        /\ m # YouAreMyParent => ~NoneOf(chan[e], Announces)
    BY <2>1, TreeMsgsParts DEF Left
  <2> QED
    BY <1>1, <2>2, <2>3, <2>4 DEF TreeInv, TreeMessages
<1>5. TreeMessages'
  <2> SUFFICES ASSUME NEW f \in session.net
               PROVE  /\ OneOf(chan'[f], TreeMsgs)
                      /\ ~NoneOf(chan'[f], TreeMsgs) =>
                            node'[Neighbor(f)].phase \notin {"pairing", "election"}
                      /\ ~NoneOf(chan'[f], {YouAreMyParent}) =>
                            node'[Owner[f]].phase \notin {"pairing", "election"}
                      /\ node'[Neighbor(f)].phase \in {"tree", "done"} =>
                        /\ ~NoneOf(chan'[f], {YouAreMyParent}) => node'[Neighbor(f)].parent = Peer[f]
                        /\ ~NoneOf(chan'[f], Announces) => node'[Neighbor(f)].parent # Peer[f]
    BY <1>1 DEF TreeMessages, PastElection, Settled, Neighbor
  <2>1. /\ OneOf(chan[f], TreeMsgs)
        /\ ~NoneOf(chan[f], TreeMsgs) => PastElection(Neighbor(f))
        /\ ~NoneOf(chan[f], {YouAreMyParent}) => PastElection(Owner[f])
        /\ Settled(Neighbor(f)) =>
            /\ ~NoneOf(chan[f], {YouAreMyParent}) => node[Neighbor(f)].parent = Peer[f]
            /\ ~NoneOf(chan[f], Announces) => node[Neighbor(f)].parent # Peer[f]
    BY DEF TreeInv, TreeMessages
  <2>2. QuietTree(f)
    BY <1>2
  <2> QED
    BY <1>1, <1>3, <2>1, <2>2 DEF QuietTree, Quiet
<1>6. TreeAnswers'
  <2> SUFFICES ASSUME NEW x \in Connectors, node'[x].phase \in {"tree", "done"}
               PROVE  /\ node'[x].parent # NoEndpoint =>
                            node'[x].parent \in EndpointsOf(x) \ node'[x].awaiting
                      /\ \A f \in EndpointsOf(x) :
                            f \in node'[x].awaiting => f \notin node'[x].children
                      /\ node'[x].phase = "done" => node'[x].awaiting = {}
                      /\ \A f \in EndpointsOf(x) : f \notin node'[x].awaiting =>
                        /\ NoneOf(chan'[f], TreeMsgs)
                        /\ node'[Neighbor(f)].phase \notin {"pairing", "election"}
                        /\ node'[Neighbor(f)].phase \in {"tree", "done"} =>
                            (f \in node'[x].children <=> node'[Neighbor(f)].parent = Peer[f])
    BY <1>1 DEF TreeAnswers, PastElection, Settled, Neighbor
  <2>1. /\ node[x].parent # NoEndpoint => node[x].parent \in EndpointsOf(x) \ node[x].awaiting
        /\ \A f \in EndpointsOf(x) : f \in node[x].awaiting => f \notin node[x].children
        /\ node[x].phase = "done" => node[x].awaiting = {}
        /\ \A f \in EndpointsOf(x) : f \notin node[x].awaiting =>
            /\ NoneOf(chan[f], TreeMsgs)
            /\ PastElection(Neighbor(f))
            /\ Settled(Neighbor(f)) =>
                  (f \in node[x].children <=> node[Neighbor(f)].parent = Peer[f])
    BY <1>3 DEF TreeInv, TreeAnswers
  <2>2. /\ node'[x].parent = node[x].parent /\ node'[x].awaiting \subseteq node[x].awaiting
        /\ \A f : f \in node[x].awaiting => f \in node'[x].awaiting \/ (x = n /\ f = e)
        /\ \A f : f # e \/ x # n => (f \in node'[x].children <=> f \in node[x].children)
        /\ node'[x].phase = "done" => node'[x].awaiting = {}
    BY <1>1, <2>1
  <2>3. ASSUME NEW f \in EndpointsOf(x), f \in node'[x].awaiting
        PROVE  f \notin node'[x].children
    <3>1. f \in node[x].awaiting /\ (f # e \/ x # n)
      BY <1>1, <2>2, <2>3
    <3> QED
      BY <2>1, <2>2, <3>1
  <2>4. ASSUME NEW f \in EndpointsOf(x), f \notin node'[x].awaiting
        PROVE  /\ NoneOf(chan'[f], TreeMsgs)
               /\ node'[Neighbor(f)].phase \notin {"pairing", "election"}
               /\ node'[Neighbor(f)].phase \in {"tree", "done"} =>
                    (f \in node'[x].children <=> node'[Neighbor(f)].parent = Peer[f])
    <3>1. f \in session.net /\ Neighbor(f) \in Connectors /\ QuietTree(f)
      BY <1>1, <1>2 DEF EndpointsOf
    <3>2. CASE f \notin node[x].awaiting
      <4>1. f # e \/ x # n
        BY <3>2
      <4> QED
        BY <1>3, <2>1, <2>2, <3>1, <3>2, <4>1 DEF QuietTree, Quiet
    <3>3. CASE f \in node[x].awaiting
      <4>1. x = n /\ f = e
        BY <2>2, <2>4, <3>3
      <4>2. e \notin node[n].children /\ (e \in rec.children <=> m = YouAreMyParent)
        BY <2>1, <3>3, <4>1
      <4> QED
        BY <1>1, <1>3, <1>4, <3>1, <4>1, <4>2
    <3> QED
      BY <3>2, <3>3
  <2> QED
    BY <2>1, <2>2, <2>3, <2>4
<1>7. ParentsAcyclic'
  <2> SUFFICES ASSUME NEW S \in SUBSET Connectors, S # {},
                      \A x \in S : /\ node'[x].phase \in {"tree", "done"}
                                   /\ node'[x].parent # NoEndpoint
                                   /\ Neighbor(node'[x].parent) \in S
               PROVE  FALSE
    BY DEF ParentsAcyclic, Settled, Neighbor
  <2>1. \A x \in S : Settled(x) /\ node[x].parent # NoEndpoint /\ Neighbor(node[x].parent) \in S
    BY <1>3
  <2> QED
    BY <2>1 DEF ParentsAcyclic
<1> QED
  BY <1>5, <1>6, <1>7 DEF TreeInv

-----------------------------------------------------------------------------
(* Leaders through a step *)

LEMMA Linked ==
    ASSUME TypeOK
    PROVE  /\ \A n \in Connectors : n \in Component(n)
           /\ \A e \in session.net, l \in Connectors :
                l \in Component(Owner[e]) <=> l \in Component(Neighbor(e))
           /\ \A l, n \in Connectors : l \in Component(n) => n \in Component(l)
           /\ \A l, m, n \in Connectors : m \in Component(n) /\ n \in Component(l) => m \in Component(l)
<1>1. \A n \in Connectors : n \in Component(n)
  BY DEF Component
<1>2. \A S \in SUBSET Connectors : Closed(S) =>
        \A e \in session.net : Owner[e] \in S <=> Neighbor(e) \in S
  <2> SUFFICES ASSUME NEW S \in SUBSET Connectors, Closed(S), NEW e \in session.net
               PROVE  Owner[e] \in S <=> Neighbor(e) \in S
    OBVIOUS
  <2>1. Owner[e] \in S => Neighbor(e) \in S
    BY DEF Closed
  <2>2. Peer[e] \in session.net /\ Peer[Peer[e]] = e
    BY NetClosed
  <2>3. Owner[Peer[e]] \in S => Owner[Peer[Peer[e]]] \in S
    BY <2>2 DEF Closed, Neighbor
  <2> QED
    BY <2>1, <2>2, <2>3 DEF Neighbor
<1>3. \A e \in session.net, l \in Connectors :
        l \in Component(Owner[e]) <=> l \in Component(Neighbor(e))
  BY <1>2 DEF Component
<1>4. ASSUME NEW l \in Connectors, NEW n \in Connectors, n \notin Component(l)
      PROVE  l \notin Component(n)
  <2>1. PICK S \in SUBSET Connectors : l \in S /\ Closed(S) /\ n \notin S
    BY <1>4 DEF Component
  <2>2. PICK R \in SUBSET Connectors : R = Connectors \ S
    OBVIOUS
  <2>3. Closed(R)
    <3>1. \A e \in session.net : Neighbor(e) \in Connectors
      BY NetClosed DEF Neighbor
    <3> QED
      BY <1>2, <2>1, <2>2, <3>1 DEF Closed
  <2> QED
    BY <2>1, <2>2, <2>3 DEF Component
<1>5. \A l, m, n \in Connectors : m \in Component(n) /\ n \in Component(l) => m \in Component(l)
  BY DEF Component
<1> QED
  BY <1>1, <1>3, <1>4, <1>5

\* A message that n may send.
Truthful(n, m) ==
    \/ m \in {YouAreMyParent, CommMsg}
    \/ \E l \in Connectors : /\ l \in Component(n)
                             /\ \/ m = LeaderWave(l)
                                \/ /\ m = LeaderAnnounce(l) /\ Greatest(l)
                                   /\ node'[l].phase \notin {"pairing", "election"}

LEMMA LeadersStep ==
    ASSUME TypeOK, LeadersInv, NEW n \in Connectors, NEW rec \in Node, Moved(n, rec),
           NEW D \in SUBSET EndpointsOf(n), NEW out, Entered(D, out),
           \A f \in D : Truthful(n, out[f]),
           n <= rec.leader, rec.leader \in Component(n),
           rec.phase \in {"tree", "done"} =>
              Greatest(rec.leader) /\ (rec.parent = NoEndpoint <=> n = rec.leader),
           PastElection(n) => rec.phase \notin {"pairing", "election"}
    PROVE  LeadersInv'
<1>1. /\ \A x : Component(x)' = Component(x)
      /\ \A x : Greatest(x)' = Greatest(x)
  BY DEF Moved, Component, Closed, Neighbor, Greatest
<1>2. /\ session'.net = session.net /\ node'[n] = rec
      /\ \A x \in Connectors : x # n => node'[x] = node[x]
      /\ \A x \in session.net : /\ Owner[x] \in Connectors /\ Neighbor(x) \in Connectors
                                /\ x \in Endpoints /\ Owner[Peer[x]] = Neighbor(x)
  BY NetClosed DEF Moved, Neighbor
<1>3. \A x \in Connectors : x <= node'[x].leader /\ node'[x].leader \in Component(x)
  BY <1>2 DEF LeadersInv
<1>4. \A x \in Connectors : node'[x].phase \in {"tree", "done"} =>
        /\ Greatest(node'[x].leader)
        /\ node'[x].parent = NoEndpoint <=> x = node'[x].leader
  BY <1>2 DEF LeadersInv, Settled
<1>5. \A x \in Connectors : PastElection(x) => node'[x].phase \notin {"pairing", "election"}
  BY <1>2 DEF PastElection
<1>6. ASSUME NEW e \in session.net, NEW l \in Connectors,
             ~NoneOf(chan'[e], {LeaderWave(l), LeaderAnnounce(l)})
      PROVE  l \in Component(Owner[e])
  <2>1. {LeaderWave(l), LeaderAnnounce(l)} \in SUBSET Msg
    BY Messages
  <2>2. CASE Peer[e] \in D => out[Peer[e]] \notin {LeaderWave(l), LeaderAnnounce(l)}
    <3>1. Quiet(e, {LeaderWave(l), LeaderAnnounce(l)})
      BY <1>2, <2>1, <2>2 DEF Entered
    <3> QED
      BY <1>6, <3>1 DEF Quiet, LeadersInv
  <2>3. CASE Peer[e] \in D /\ out[Peer[e]] \in {LeaderWave(l), LeaderAnnounce(l)}
    <3>1. Neighbor(e) = n
      BY <1>2, <2>3 DEF EndpointsOf
    <3>2. l \in Component(n)
      BY <2>3, Messages DEF Truthful
    <3> QED
      BY <3>1, <3>2, Linked
  <2> QED
    BY <2>2, <2>3
<1>7. ASSUME NEW e \in session.net, NEW l \in Connectors,
             ~NoneOf(chan'[e], {LeaderAnnounce(l)})
      PROVE  Greatest(l) /\ node'[l].phase \notin {"pairing", "election"}
  <2>1. {LeaderAnnounce(l)} \in SUBSET Msg
    BY Messages
  <2>2. CASE Peer[e] \in D => out[Peer[e]] \notin {LeaderAnnounce(l)}
    <3>1. Quiet(e, {LeaderAnnounce(l)})
      BY <1>2, <2>1, <2>2 DEF Entered
    <3>2. Greatest(l) /\ PastElection(l)
      BY <1>7, <3>1 DEF Quiet, LeadersInv
    <3> QED
      BY <1>5, <3>2
  <2>3. CASE Peer[e] \in D /\ out[Peer[e]] = LeaderAnnounce(l)
    BY <2>3, Messages DEF Truthful
  <2> QED
    BY <2>2, <2>3
<1> QED
  BY <1>1, <1>2, <1>3, <1>4, <1>6, <1>7 DEF LeadersInv, Settled, PastElection

-----------------------------------------------------------------------------
(* The steps *)

\* The locals of n stay well-formed.
Fit(rec) ==
    /\ rec \in Node
    /\ rec.delayed \in Seq(Endpoints \X {CommMsg})
    /\ rec.undelayed \in Seq(Endpoints \X {CommMsg})

LEMMA TypeStep ==
    ASSUME TypeOK, OnlyCommDelayed, PairingFresh, NoMisbehavior,
           NEW n \in Connectors, NEW rec, Fit(rec), node' = [node EXCEPT ![n] = rec],
           session' = session, chan' \in [Endpoints -> Seq(Msg)], commSent' = commSent,
           rec.phase \notin {"pairing", "panic", "misbehavior"}
    PROVE  /\ TypeOK' /\ OnlyCommDelayed' /\ PairingFresh' /\ NoMisbehavior'
           /\ Moved(n, rec)
<1>1. node'[n] = rec /\ \A x \in Connectors : x # n => node'[x] = node[x]
  BY DEF TypeOK
<1>2. node' \in [Connectors -> Node]
  BY DEF TypeOK, Fit
<1>3. TypeOK'
  BY <1>2 DEF TypeOK
<1>4. OnlyCommDelayed'
  BY <1>1 DEF OnlyCommDelayed, Fit
<1>5. PairingFresh' /\ NoMisbehavior'
  BY <1>1 DEF PairingFresh, NoMisbehavior
<1> QED
  BY <1>1, <1>3, <1>4, <1>5 DEF Moved

Broken(n) == [node[n] EXCEPT !.phase = "broken"]

\* The streams without the next message for e.
Without(e) == [chan EXCEPT ![e] = Tail(@)]

LEMMA BrokenFits ==
    ASSUME TypeOK, OnlyCommDelayed, NEW n \in Connectors
    PROVE  /\ Fit(node[n]) /\ Fit(Broken(n)) /\ Broken(n).phase = "broken"
           /\ Broken(n).leader = node[n].leader
<1>1. node[n] \in Node
  BY DEF TypeOK
<1>2. PICK r \in Node : r = node[n]
  BY <1>1
<1>3. PICK b : b = [r EXCEPT !.phase = "broken"]
  OBVIOUS
<1>4. /\ b \in Node /\ b.phase = "broken" /\ b.leader = r.leader
      /\ b.delayed = r.delayed /\ b.undelayed = r.undelayed
  BY <1>3 DEF Node, Phases
<1>5. Broken(n) = b
  BY <1>2, <1>3 DEF Broken
<1> QED
  BY <1>2, <1>4, <1>5 DEF OnlyCommDelayed, Fit

\* The part of `out` that went through D has been sent; n is in state `new` or
\* broken.
Outcome(n, out, new, D, rec) ==
    /\ D \in SUBSET DOMAIN out
    /\ rec = new \/ rec = Broken(n)
    /\ Fit(rec) /\ node' = [node EXCEPT ![n] = rec]
    /\ chan' \in [Endpoints -> Seq(Msg)] /\ Entered(D, out)

Sendable(out) == \A f \in DOMAIN out : out[f] \in Msg

LEMMA SendProceeds ==
    ASSUME TypeOK, OnlyCommDelayed, NEW n \in Connectors, NEW out,
           Sendable(out), NEW new, Fit(new), Proceed(n, chan, out, new)
    PROVE  \E D, rec : Outcome(n, out, new, D, rec)
<1>1. PICK D \in SUBSET DOMAIN out :
        /\ chan' = StreamsOver(chan, D, out)
        /\ \/ node' = [node EXCEPT ![n] = new]
           \/ node' = [node EXCEPT ![n].phase = "broken"]
  BY ProceedForm
<1>2. chan' \in [Endpoints -> Seq(Msg)] /\ Entered(D, out)
  BY <1>1, SendStreams DEF TypeOK, Sendable
<1>3. \/ node' = [node EXCEPT ![n] = new]
      \/ node' = [node EXCEPT ![n] = Broken(n)]
  BY <1>1 DEF Broken
<1> QED
  BY <1>1, <1>2, <1>3, BrokenFits DEF Outcome

LEMMA ReceiveProceeds ==
    ASSUME TypeOK, OnlyCommDelayed, NEW n \in Connectors, NEW e \in Endpoints, chan[e] # <<>>,
           NEW out, Sendable(out), NEW new, Fit(new), Proceed(n, Without(e), out, new)
    PROVE  \E D, rec : Outcome(n, out, new, D, rec) /\ Left(e, Head(chan[e]), D, out)
<1>1. PICK D \in SUBSET DOMAIN out :
        /\ chan' = StreamsOver(Without(e), D, out)
        /\ \/ node' = [node EXCEPT ![n] = new]
           \/ node' = [node EXCEPT ![n].phase = "broken"]
  BY ProceedForm
<1>2. chan' \in [Endpoints -> Seq(Msg)] /\ Entered(D, out) /\ Left(e, Head(chan[e]), D, out)
  BY <1>1, ReceiveStreams DEF TypeOK, Without, Sendable
<1>3. \/ node' = [node EXCEPT ![n] = new]
      \/ node' = [node EXCEPT ![n] = Broken(n)]
  BY <1>1 DEF Broken
<1> QED
  BY <1>1, <1>2, <1>3, BrokenFits DEF Outcome

\* n handles message m, which is the next one in the stream of its endpoint e.
Takes(n, e, m) ==
    /\ node[n].undelayed = <<>>
    /\ e \in EndpointsOf(n)
    /\ chan[e] # <<>>
    /\ m = Head(chan[e])
    /\ session' = session

LEMMA TakesFacts ==
    ASSUME TypeOK, NEW n \in Connectors, NEW e, NEW m, Takes(n, e, m)
    PROVE  /\ m \in Msg /\ e \in Endpoints /\ e \in session.net /\ Owner[e] = n
           /\ \A K : m \in K => ~NoneOf(chan[e], K)
           /\ NodeAfter(n) = node[n]
           /\ ChanAfter(n, e) = Without(e)
<1>1. e \in session.net /\ Owner[e] = n /\ e \in Endpoints
  BY NetClosed DEF Takes, EndpointsOf
<1>2. PICK q \in Seq(Msg) : q = chan[e]
  BY <1>1 DEF TypeOK
<1>3. Head(q) \in Msg /\ \A K : NoneOf(q, K) => Head(q) \notin K
  BY <1>2, TailStream DEF Takes
<1> QED
  BY <1>1, <1>2, <1>3 DEF Takes, NodeAfter, ChanAfter, Without

\* The waves and the tree do not mind other messages.
LEMMA OtherMessages ==
    ASSUME TypeOK, NEW D, NEW out, Entered(D, out)
    PROVE  /\ \A w \in Connectors : (\A f \in D : out[f] # LeaderWave(w)) =>
                \A x \in session.net : Quiet(x, {LeaderWave(w)})
           /\ (\A f \in D : out[f] \notin TreeMsgs) => \A x \in session.net : QuietTree(x)
<1>1. session.net \subseteq Endpoints
  BY NetClosed
<1>2. \A w \in Connectors : {LeaderWave(w)} \in SUBSET Msg
  BY Messages
<1>3. \A w \in Connectors : (\A f \in D : out[f] # LeaderWave(w)) =>
        \A x \in session.net : Quiet(x, {LeaderWave(w)})
  BY <1>1, <1>2 DEF Entered
<1>4. (\A f \in D : out[f] \notin TreeMsgs) => \A x \in session.net : QuietTree(x)
  BY <1>1, TreeMsgsParts DEF Entered, QuietTree
<1> QED
  BY <1>3, <1>4

LEMMA Undelayed ==
    ASSUME NEW S, NEW a \in Seq(S), NEW b \in Seq(S)
    PROVE  a \o b \in Seq(S) /\ <<>> \in Seq(S)
OBVIOUS

LEMMA UndelayFits ==
    ASSUME NEW r, Fit(r)
    PROVE  /\ Fit(UndelayAll(r)) /\ UndelayAll(r).phase = r.phase /\ UndelayAll(r).leader = r.leader
           /\ UndelayAll(r).parent = r.parent /\ UndelayAll(r).awaiting = r.awaiting
           /\ UndelayAll(r).children = r.children
<1>1. PICK u \in Seq(Endpoints \X {CommMsg}) : u = r.undelayed \o r.delayed
  BY Undelayed DEF Fit
<1>2. PICK t \in Seq(Endpoints \X {CommMsg}) : t = <<>>
  BY Undelayed DEF Fit
<1>3. u \in Seq(Endpoints \X Msg) /\ t \in Seq(Endpoints \X Msg)
  BY <1>1, <1>2, Messages
<1>4. r \in Node
  BY DEF Fit
<1>5. PICK x : x = [r EXCEPT !.undelayed = u, !.delayed = t]
  OBVIOUS
<1>6. /\ x \in Node /\ x.undelayed = u /\ x.delayed = t /\ x.phase = r.phase /\ x.leader = r.leader
      /\ x.parent = r.parent /\ x.awaiting = r.awaiting /\ x.children = r.children
  BY <1>3, <1>4, <1>5 DEF Node
<1>7. UndelayAll(r) = x
  BY <1>1, <1>2, <1>4, <1>5 DEF UndelayAll, Node
<1> QED
  BY <1>1, <1>2, <1>6, <1>7 DEF Fit

LEMMA StartTreeStep ==
    ASSUME IInv, NEW n \in Connectors, node[n].phase = "election", NEW e, NEW m, Takes(n, e, m),
           commSent' = commSent, NEW rec0, Fit(rec0), NEW l \in Connectors,
           NEW d \in Endpoints \cup {NoEndpoint},
           d = NoEndpoint <=> n = l, d # NoEndpoint => d = e /\ m = LeaderAnnounce(l) /\ PastElection(l),
           l \in Component(n), Greatest(l), n <= l,
           StartTree(n, rec0, Without(e), l, d)
    PROVE  IInv'
<1> DEFINE awaiting == EndpointsOf(n) \ {d}
           out0 == [f \in EndpointsOf(n) |-> IF f = d THEN YouAreMyParent ELSE LeaderAnnounce(l)]
           ph == IF awaiting = {} THEN "done" ELSE "tree"
           new0 == UndelayAll([rec0 EXCEPT !.phase = ph, !.leader = l, !.parent = d,
                                          !.awaiting = awaiting, !.children = {}])
<1>01. PICK out : out = out0
  OBVIOUS
<1>02. PICK new : new = new0
  OBVIOUS
<1>1. /\ TypeOK /\ OnlyCommDelayed /\ PairingFresh /\ NoMisbehavior
      /\ WavesInv /\ LeadersInv /\ TreeInv /\ ParentsAcyclic
  BY DEF IInv
<1>2. /\ m \in Msg /\ e \in Endpoints /\ e \in EndpointsOf(n) /\ chan[e] # <<>> /\ m = Head(chan[e])
      /\ session' = session /\ EndpointsOf(n) \subseteq Endpoints
  BY <1>1, TakesFacts, NetClosed DEF Takes, EndpointsOf
<1>3. /\ Fit(new) /\ new.phase = ph /\ new.leader = l /\ new.parent = d
      /\ new.awaiting = awaiting /\ new.children = {}
  <2>1. PICK a \in SUBSET Endpoints : a = awaiting
    BY <1>2
  <2>2. PICK p \in {"done", "tree"} : p = ph
    OBVIOUS
  <2>3. PICK r : r = [rec0 EXCEPT !.phase = p, !.leader = l, !.parent = d, !.awaiting = a, !.children = {}]
    OBVIOUS
  <2>4. /\ Fit(r) /\ r.phase = p /\ r.leader = l /\ r.parent = d /\ r.awaiting = a
        /\ r.children = {}
    BY <2>3 DEF Fit, Node, Phases
  <2>5. new = UndelayAll(r)
    BY <1>02, <2>1, <2>2, <2>3
  <2> HIDE DEF new0, awaiting, ph
  <2> QED
    BY <2>1, <2>2, <2>4, <2>5, UndelayFits
<1>4. /\ DOMAIN out = EndpointsOf(n)
      /\ \A f \in EndpointsOf(n) : out[f] = IF f = d THEN YouAreMyParent ELSE LeaderAnnounce(l)
  BY <1>01
<1>5. Proceed(n, Without(e), out, new)
  BY <1>01, <1>02 DEF StartTree
<1> HIDE DEF out0, new0
<1> HIDE DEF awaiting, ph
<1>6. Sendable(out)
  BY <1>4, Messages DEF Sendable
<1>70. PICK D, rec : Outcome(n, out, new, D, rec) /\ Left(e, Head(chan[e]), D, out)
  <2>1. TypeOK /\ OnlyCommDelayed /\ Fit(new) /\ e \in Endpoints /\ chan[e] # <<>>
    BY <1>1, <1>2, <1>3
  <2> QED
    BY <1>5, <1>6, <2>1, ReceiveProceeds
<1>7. /\ D \in SUBSET EndpointsOf(n)
      /\ Fit(rec) /\ node' = [node EXCEPT ![n] = rec]
      /\ chan' \in [Endpoints -> Seq(Msg)] /\ Entered(D, out) /\ Left(e, m, D, out)
  BY <1>2, <1>4, <1>70 DEF Outcome
<1>8. /\ rec \in Node /\ rec.phase \in {"tree", "done", "broken"}
      /\ rec.phase # "broken" =>
          /\ rec.parent = d /\ rec.awaiting = EndpointsOf(n) \ {d} /\ rec.children = {}
          /\ rec.phase = "done" => rec.awaiting = {}
          /\ rec.leader = l
      /\ rec.phase = "broken" => rec.leader = node[n].leader
  <2>1. CASE rec = new
    BY <1>3, <1>7, <2>1 DEF Fit, awaiting, ph
  <2>2. CASE rec = Broken(n)
    BY <1>1, <1>7, <2>2, BrokenFits DEF Fit
  <2> QED
    BY <1>70, <2>1, <2>2 DEF Outcome
<1>9. /\ TypeOK' /\ OnlyCommDelayed' /\ PairingFresh' /\ NoMisbehavior'
      /\ Moved(n, rec)
  BY <1>1, <1>2, <1>7, <1>8, TypeStep
<1>10. node'[n] = rec
  BY <1>9 DEF Moved
<1>11. WavesInv'
  <2> SUFFICES ASSUME NEW w \in Connectors PROVE HasHistory(w)'
    BY DEF WavesInv
  <2>1. \A f \in D : out[f] # LeaderWave(w)
    BY <1>4, <1>7, TreeMsgsParts
  <2>2. \A x \in session.net : Quiet(x, {LeaderWave(w)})
    BY <1>1, <1>7, <2>1, OtherMessages
  <2>3. WaveGoesOn(n, w)
    BY <1>8, <1>10 DEF WaveGoesOn
  <2> QED
    BY <1>1, <1>8, <1>9, <2>2, <2>3, WaveQuiet DEF WavesInv
<1>12. LeadersInv'
  <2>1. node'[l].phase \notin {"pairing", "election"}
    BY <1>8, <1>9, <1>10 DEF Moved, PastElection
  <2>2. \A f \in D : Truthful(n, out[f])
    BY <1>4, <1>7, <2>1 DEF Truthful
  <2>3. n <= rec.leader /\ rec.leader \in Component(n)
    BY <1>1, <1>8 DEF LeadersInv
  <2>4. rec.phase \in {"tree", "done"} =>
          Greatest(rec.leader) /\ (rec.parent = NoEndpoint <=> n = rec.leader)
    BY <1>8
  <2>5. PastElection(n) => rec.phase \notin {"pairing", "election"}
    BY <1>8
  <2> QED
    BY <1>1, <1>7, <1>8, <1>9, <2>2, <2>3, <2>4, <2>5, LeadersStep
<1>13. TreeInv' /\ ParentsAcyclic'
  <2>1. \A f \in D : out[f] = IF f = d THEN YouAreMyParent ELSE LeaderAnnounce(l)
    BY <1>4, <1>7
  <2>2. d # NoEndpoint => d \in EndpointsOf(n) /\ Left(d, LeaderAnnounce(l), D, out)
    BY <1>2, <1>7
  <2>3. TypeOK /\ TreeInv /\ ParentsAcyclic /\ Moved(n, rec) /\ Entered(D, out)
    BY <1>1, <1>7, <1>9
  <2>4. D \in SUBSET EndpointsOf(n) /\ rec.phase \in {"tree", "done", "broken"}
    BY <1>7, <1>8
  <2>5. rec.phase # "broken" =>
          /\ rec.parent = d /\ rec.awaiting = EndpointsOf(n) \ {d} /\ rec.children = {}
          /\ rec.phase = "done" => rec.awaiting = {}
    BY <1>8
  <2> QED
    BY <2>1, <2>2, <2>3, <2>4, <2>5, TreeStarted
<1> QED
  BY <1>9, <1>11, <1>12, <1>13 DEF IInv

\* A step in which n fails, or remains where it is and at most takes note of an
\* answer to its wave.
Stays(n, rec) ==
    /\ rec.leader = node[n].leader
    /\ \/ rec.phase \in {"timeout", "broken"}
       \/ /\ rec.phase = node[n].phase /\ node[n].phase # "pairing"
          /\ rec.parent = node[n].parent /\ rec.children = node[n].children
          /\ \/ rec.awaiting = node[n].awaiting
             \/ /\ node[n].phase = "election"
                /\ \E e \in EndpointsOf(n) :
                     /\ rec.awaiting = node[n].awaiting \ {e}
                     /\ ~NoneOf(chan[e], {LeaderWave(node[n].leader)})
                     /\ NoneOf(chan'[e], {LeaderWave(node[n].leader)})

LEMMA QuietStep ==
    ASSUME IInv, NEW n \in Connectors, NEW rec \in Node, Moved(n, rec),
           NEW D \in SUBSET EndpointsOf(n), NEW out, Entered(D, out),
           \A f \in D : out[f] = CommMsg, Stays(n, rec)
    PROVE  WavesInv' /\ LeadersInv' /\ TreeInv' /\ ParentsAcyclic'
<1>1. TypeOK /\ WavesInv /\ LeadersInv /\ TreeInv /\ ParentsAcyclic
  BY DEF IInv
<1>2. /\ node'[n] = rec /\ node[n].leader \in Connectors /\ node[n].leader \in Nat
      /\ rec.leader = node[n].leader
      /\ \/ rec.phase \in {"timeout", "broken"}
         \/ rec.phase = node[n].phase /\ rec.phase # "pairing"
  BY <1>1, NetClosed, ConnectorsAssumption DEF Moved, Stays, Node
<1>3. WavesInv'
  <2> SUFFICES ASSUME NEW w \in Connectors PROVE HasHistory(w)'
    BY DEF WavesInv
  <2>1. \A x \in session.net : Quiet(x, {LeaderWave(w)})
    <3>1. \A f \in D : out[f] # LeaderWave(w)
      BY Messages
    <3> QED
      BY <1>1, <3>1, OtherMessages
  <2>2. WaveGoesOn(n, w)
    <3>1. CASE rec.phase \in {"timeout", "broken"}
      BY <1>2, <3>1 DEF WaveGoesOn
    <3>2. CASE /\ rec.phase = node[n].phase /\ node[n].phase # "pairing" /\ rec.parent = node[n].parent
               /\ rec.awaiting = node[n].awaiting
      BY <1>2, <3>2 DEF WaveGoesOn
    <3>3. CASE /\ rec.phase = node[n].phase /\ rec.parent = node[n].parent /\ node[n].phase = "election"
               /\ \E e \in EndpointsOf(n) :
                     /\ rec.awaiting = node[n].awaiting \ {e}
                     /\ ~NoneOf(chan[e], {LeaderWave(node[n].leader)})
                     /\ NoneOf(chan'[e], {LeaderWave(node[n].leader)})
      BY <1>2, <3>3 DEF WaveGoesOn
    <3> QED
      BY <3>1, <3>2, <3>3 DEF Stays
  <2>3. TypeOK /\ HasHistory(w)
    BY <1>1 DEF WavesInv
  <2> QED
    BY <2>1, <2>2, <2>3, WaveQuiet
<1>4. LeadersInv'
  <2>1. \A f \in D : Truthful(n, out[f])
    BY DEF Truthful
  <2>2. n <= rec.leader /\ rec.leader \in Component(n)
    BY <1>1, <1>2 DEF LeadersInv
  <2>3. rec.phase \in {"tree", "done"} =>
          Greatest(rec.leader) /\ (rec.parent = NoEndpoint <=> n = rec.leader)
    BY <1>1 DEF LeadersInv, Settled, Stays
  <2>4. PastElection(n) => rec.phase \notin {"pairing", "election"}
    BY <1>2 DEF PastElection
  <2> QED
    BY <1>1, <2>1, <2>2, <2>3, <2>4, LeadersStep
<1>5. TreeInv' /\ ParentsAcyclic'
  <2>1. \A x \in session.net : QuietTree(x)
    <3>1. \A f \in D : out[f] \notin TreeMsgs
      BY TreeMsgsParts
    <3> QED
      BY <1>1, <3>1, OtherMessages
  <2>2. TreeGoesOn(n)
    BY <1>2 DEF TreeGoesOn, Stays, Settled, PastElection
  <2> QED
    BY <1>1, <2>1, <2>2, TreeQuiet
<1> QED
  BY <1>3, <1>4, <1>5

LEMMA LocalStep ==
    ASSUME IInv, NEW n \in Connectors, NEW rec, Fit(rec), node' = [node EXCEPT ![n] = rec],
           session' = session, commSent' = commSent, chan' \in [Endpoints -> Seq(Msg)],
           NEW out, Entered({}, out), Stays(n, rec)
    PROVE  IInv'
<1>1. TypeOK /\ OnlyCommDelayed /\ PairingFresh /\ NoMisbehavior
  BY DEF IInv
<1>2. rec.phase \notin {"pairing", "panic", "misbehavior"} /\ rec \in Node
  BY <1>1 DEF Stays, NoMisbehavior, Fit
<1>3. TypeOK' /\ OnlyCommDelayed' /\ PairingFresh' /\ NoMisbehavior' /\ Moved(n, rec)
  BY <1>1, <1>2, TypeStep
<1>4. WavesInv' /\ LeadersInv' /\ TreeInv' /\ ParentsAcyclic'
  BY <1>2, <1>3, QuietStep
<1> QED
  BY <1>3, <1>4 DEF IInv

LEMMA ReceiveOnly ==
    ASSUME TypeOK, NEW e \in Endpoints, chan[e] # <<>>, chan' = Without(e)
    PROVE  /\ chan' \in [Endpoints -> Seq(Msg)]
           /\ Entered({}, <<>>) /\ Left(e, Head(chan[e]), {}, <<>>)
<1>1. Without(e) = StreamsOver(Without(e), {}, <<>>)
  BY DEF TypeOK, Without, StreamsOver
<1>2. PICK D : D = {}
  OBVIOUS
<1>3. PICK out : out = <<>>
  OBVIOUS
<1>4. \A f \in D : out[f] \in Msg
  BY <1>2
<1>5. chan' = StreamsOver(Without(e), D, out)
  BY <1>1, <1>2, <1>3
<1>6. /\ chan' \in [Endpoints -> Seq(Msg)]
      /\ Entered(D, out) /\ Left(e, Head(chan[e]), D, out)
  BY <1>4, <1>5, ReceiveStreams DEF TypeOK, Without
<1> QED
  BY <1>2, <1>3, <1>6

LEMMA NothingSent ==
    ASSUME chan' = chan
    PROVE  Entered({}, <<>>)
BY DEF Entered, Quiet, NoneOf, OneOf

LEMMA IgnoreWaveStep ==
    ASSUME IInv, NEW n \in Connectors, NEW e, NEW m, Takes(n, e, m),
           node[n].phase \in {"election", "tree"}, IgnoreWave(n, e, m)
    PROVE  IInv'
<1>1. TypeOK /\ OnlyCommDelayed
  BY DEF IInv
<1>2. PICK rec : rec = node[n]
  OBVIOUS
<1>3. e \in Endpoints /\ chan[e] # <<>> /\ NodeAfter(n) = rec /\ ChanAfter(n, e) = Without(e)
      /\ session' = session
  <2>1. e \in Endpoints /\ NodeAfter(n) = node[n] /\ ChanAfter(n, e) = Without(e)
    BY <1>1, TakesFacts
  <2> QED
    BY <1>2, <2>1 DEF Takes
<1>4. chan' = Without(e) /\ node' = [node EXCEPT ![n] = rec] /\ commSent' = commSent
  BY <1>3 DEF IgnoreWave
<1>5. chan' \in [Endpoints -> Seq(Msg)] /\ Entered({}, <<>>)
  BY <1>1, <1>3, <1>4, ReceiveOnly
<1>6. Fit(rec) /\ Stays(n, rec)
  BY <1>1, <1>2, BrokenFits DEF Stays
<1> QED
  BY <1>3, <1>4, <1>5, <1>6, LocalStep

LEMMA DelayCommStep ==
    ASSUME IInv, NEW n \in Connectors, NEW em \in Incoming(n), session' = session,
           node[n].phase \in {"election", "tree"}, DelayComm(n, em[1], em[2])
    PROVE  IInv'
<1>1. TypeOK /\ OnlyCommDelayed
  BY DEF IInv
<1>2. PICK r \in Node : r = node[n] /\ Fit(r)
  BY <1>1, BrokenFits DEF Fit
<1>3. em \in Endpoints \X {CommMsg}
  <2>1. CASE node[n].undelayed # <<>>
    BY <1>2, <2>1 DEF Incoming, Last, Fit
  <2>2. CASE node[n].undelayed = <<>>
    <3>1. PICK e \in EndpointsOf(n) : em = <<e, Head(chan[e])>> /\ chan[e] # <<>>
      BY <2>2 DEF Incoming
    <3>2. Takes(n, em[1], em[2])
      BY <2>2, <3>1 DEF Takes
    <3>3. em[2] \in Msg /\ em[1] \in Endpoints
      BY <1>1, <3>2, TakesFacts
    <3>4. em[2] = CommMsg
      BY <3>3, MessageKinds DEF DelayComm
    <3> QED
      BY <3>1, <3>3, <3>4
  <2> QED
    BY <2>1, <2>2
<1>4. PICK rec : rec = [NodeAfter(n) EXCEPT !.delayed = Append(@, <<em[1], em[2]>>)]
  OBVIOUS
<1>5. /\ Fit(rec) /\ rec.phase = r.phase /\ rec.leader = r.leader /\ rec.parent = r.parent
      /\ rec.awaiting = r.awaiting /\ rec.children = r.children
  <2>1. PICK d \in Seq(Endpoints \X {CommMsg}) : d = Append(r.delayed, <<em[1], em[2]>>)
    <3>1. PICK q \in Seq(Endpoints \X {CommMsg}) : q = r.delayed
      BY <1>2 DEF Fit
    <3>2. PICK x \in Endpoints \X {CommMsg} : x = <<em[1], em[2]>>
      BY <1>3
    <3>3. Append(q, x) \in Seq(Endpoints \X {CommMsg})
      OBVIOUS
    <3> QED
      BY <3>1, <3>2, <3>3
  <2>2. PICK u \in Seq(Endpoints \X {CommMsg}) :
            u = IF r.undelayed # <<>> THEN Front(r.undelayed) ELSE r.undelayed
    <3>1. r.undelayed # <<>> => Front(r.undelayed) \in Seq(Endpoints \X {CommMsg})
      <4>1. PICK q \in Seq(Endpoints \X {CommMsg}) : q = r.undelayed
        BY <1>2 DEF Fit
      <4>2. \A i \in 1..Len(q) - 1 : q[i] \in Endpoints \X {CommMsg}
        BY <4>1
      <4>3. q # <<>> => Len(q) - 1 \in Nat /\ Len(q) - 1 <= Len(q)
        BY <4>1
      <4> QED
        BY <4>1, <4>2, <4>3 DEF Front
    <3> QED
      BY <1>2, <3>1 DEF Fit
  <2>3. NodeAfter(n) = [r EXCEPT !.undelayed = u]
    <3>1. CASE r.undelayed # <<>>
      BY <1>2, <2>2, <3>1 DEF NodeAfter
    <3>2. CASE r.undelayed = <<>>
      BY <1>2, <2>2, <3>2 DEF NodeAfter, Node
    <3> QED
      BY <3>1, <3>2
  <2>4. rec = [r EXCEPT !.undelayed = u, !.delayed = d]
    BY <1>2, <1>4, <2>1, <2>3 DEF Node
  <2>5. u \in Seq(Endpoints \X Msg) /\ d \in Seq(Endpoints \X Msg)
    BY <2>1, <2>2, Messages
  <2> QED
    BY <1>2, <2>1, <2>2, <2>4, <2>5 DEF Node, Fit
<1>6. node' = [node EXCEPT ![n] = rec] /\ commSent' = commSent /\ chan' = ChanAfter(n, em[1])
  BY <1>4 DEF DelayComm
<1>7. chan' \in [Endpoints -> Seq(Msg)] /\ Entered({}, <<>>)
  <2>1. CASE node[n].undelayed # <<>>
    BY <1>1, <1>6, <2>1, NothingSent DEF ChanAfter, TypeOK
  <2>2. CASE node[n].undelayed = <<>>
    <3>1. chan[em[1]] # <<>> /\ em[1] \in Endpoints
      BY <1>3, <2>2 DEF Incoming
    <3>2. chan' = Without(em[1])
      BY <1>6, <2>2 DEF ChanAfter, Without
    <3> QED
      BY <1>1, <3>1, <3>2, ReceiveOnly
  <2> QED
    BY <2>1, <2>2
<1>8. Stays(n, rec)
  BY <1>2, <1>5 DEF Stays
<1> QED
  BY <1>5, <1>6, <1>7, <1>8, LocalStep

LEMMA FailureStep ==
    ASSUME IInv, NEW n \in Connectors, Timeout(n) \/ ReadBroken(n)
    PROVE  IInv'
<1>1. TypeOK /\ OnlyCommDelayed
  BY DEF IInv
<1>2. PICK r \in Node : r = node[n] /\ Fit(r)
  BY <1>1, BrokenFits DEF Fit
<1>3. PICK p \in {"timeout", "broken"} : node' = [node EXCEPT ![n].phase = p]
  BY DEF Timeout, ReadBroken
<1>4. PICK rec : rec = [r EXCEPT !.phase = p]
  OBVIOUS
<1>5. Fit(rec) /\ rec.phase = p /\ rec.leader = r.leader
  BY <1>2, <1>4 DEF Node, Fit, Phases
<1>6. node' = [node EXCEPT ![n] = rec]
  BY <1>2, <1>3, <1>4
<1>7. session' = session /\ commSent' = commSent /\ chan' = chan
  BY DEF Timeout, ReadBroken
<1>8. chan' \in [Endpoints -> Seq(Msg)] /\ Entered({}, <<>>)
  BY <1>1, <1>7, NothingSent DEF TypeOK
<1>9. Stays(n, rec)
  BY <1>2, <1>5 DEF Stays
<1> QED
  BY <1>5, <1>6, <1>7, <1>8, <1>9, LocalStep

LEMMA ElectionAnnounceStep ==
    ASSUME IInv, NEW n \in Connectors, NEW e, NEW m, Takes(n, e, m), ElectionAnnounce(n, e, m)
    PROVE  IInv'
<1>1. TypeOK /\ OnlyCommDelayed /\ LeadersInv
  BY DEF IInv
<1>2. PICK rec0 : rec0 = node[n]
  OBVIOUS
<1>3. /\ m \in Msg /\ e \in Endpoints /\ e \in session.net /\ Owner[e] = n
      /\ NodeAfter(n) = node[n] /\ ChanAfter(n, e) = Without(e)
  BY <1>1, TakesFacts
<1>4. m.type = "LeaderAnnounce" /\ node[n].phase = "election" /\ commSent' = commSent
  BY DEF ElectionAnnounce
<1>5. PICK l \in Connectors : m.leader = l /\ m = LeaderAnnounce(l)
  BY <1>3, <1>4, MessageKinds
<1>6. ~NoneOf(chan[e], {LeaderAnnounce(l)}) /\ ~NoneOf(chan[e], {LeaderWave(l), LeaderAnnounce(l)})
  <2>1. \A K : m \in K => ~NoneOf(chan[e], K)
    BY <1>1, TakesFacts
  <2> QED
    BY <1>5, <2>1
<1>7. Greatest(l) /\ PastElection(l) /\ l \in Component(n)
  BY <1>1, <1>3, <1>6 DEF LeadersInv
<1>8. l # n
  BY <1>4, <1>7 DEF PastElection
<1>9. n <= l /\ node[n].leader <= l
  <2>1. node[n].leader \in Component(n) /\ node[n].leader \in Connectors
    BY <1>1, NetClosed DEF LeadersInv, Node
  <2>2. n \in Component(l)
    BY <1>1, <1>7, Linked
  <2>3. node[n].leader \in Component(l)
    BY <1>1, <2>1, <2>2, Linked
  <2> QED
    BY <1>7, <2>2, <2>3 DEF Greatest
<1>10. StartTree(n, rec0, Without(e), l, e)
  <2>1. m.leader >= node[n].leader /\ m.leader # n
    <3>1. node[n].leader \in Nat /\ l \in Nat
      BY <1>1, NetClosed, ConnectorsAssumption DEF Node
    <3> QED
      BY <1>5, <1>8, <1>9, <3>1
  <2>2. StartTree(n, NodeAfter(n), ChanAfter(n, e), m.leader, e)
    BY <2>1 DEF ElectionAnnounce
  <2> QED
    BY <1>2, <1>3, <1>5, <2>2
<1>11. Fit(rec0) /\ e # NoEndpoint
  BY <1>1, <1>2, <1>3, BrokenFits, NoEndpointAssumption
<1> QED
  BY <1>3, <1>4, <1>5, <1>7, <1>8, <1>9, <1>10, <1>11, StartTreeStep

\* The last answer to the wave of another connector: n passes it on.
LEMMA PassedOn ==
    ASSUME IInv, NEW n \in Connectors, NEW e, NEW m, Takes(n, e, m), commSent' = commSent,
           node[n].phase = "election", m = LeaderWave(node[n].leader),
           e \in node[n].awaiting, node[n].awaiting \subseteq {e}, node[n].parent # NoEndpoint,
           NEW new, Fit(new), new.phase = "election", new.leader = node[n].leader,
           new.parent = node[n].parent, new.awaiting = {},
           NEW out, DOMAIN out = {node[n].parent}, out[node[n].parent] = m,
           Proceed(n, Without(e), out, new)
    PROVE  IInv'
<1>1. /\ TypeOK /\ OnlyCommDelayed /\ PairingFresh /\ NoMisbehavior
      /\ WavesInv /\ LeadersInv /\ TreeInv /\ ParentsAcyclic
  BY DEF IInv
<1>2. /\ m \in Msg /\ e \in Endpoints /\ e \in EndpointsOf(n) /\ chan[e] # <<>> /\ m = Head(chan[e])
      /\ session' = session
  <2>1. m \in Msg /\ e \in Endpoints
    BY <1>1, TakesFacts
  <2> QED
    BY <2>1 DEF Takes
<1>3. Sendable(out)
  BY <1>2 DEF Sendable
<1>4. PICK D, rec : Outcome(n, out, new, D, rec) /\ Left(e, Head(chan[e]), D, out)
  <2>1. Fit(new) /\ Proceed(n, Without(e), out, new)
    OBVIOUS
  <2> QED
    BY <1>1, <1>2, <1>3, <2>1, ReceiveProceeds
<1>5. PICK w \in Connectors : w = node[n].leader
  BY <1>1, NetClosed DEF Node
<1>6. HasHistory(w)
  BY <1>1 DEF WavesInv
<1>7. /\ Fit(rec) /\ node' = [node EXCEPT ![n] = rec] /\ rec \in Node
      /\ chan' \in [Endpoints -> Seq(Msg)] /\ Entered(D, out)
      /\ Left(e, LeaderWave(w), D, out)
      /\ D \subseteq {node[n].parent} /\ \A f \in D : out[f] = LeaderWave(w)
  BY <1>2, <1>4, <1>5 DEF Outcome, Fit
<1>8. /\ rec.phase \in {"election", "broken"} /\ rec.leader = w
      /\ rec.phase = "election" => rec.parent = node[n].parent /\ rec.awaiting = {}
  <2>1. CASE rec = new
    BY <1>5, <2>1
  <2>2. CASE rec = Broken(n)
    BY <1>1, <1>5, <2>2, BrokenFits
  <2> QED
    BY <1>4, <2>1, <2>2 DEF Outcome
<1>9. TypeOK' /\ OnlyCommDelayed' /\ PairingFresh' /\ NoMisbehavior' /\ Moved(n, rec)
  BY <1>1, <1>2, <1>7, <1>8, TypeStep
<1>10. node'[n] = rec
  BY <1>9 DEF Moved
<1>11. node[n].parent \in EndpointsOf(n)
  BY <1>5, <1>6 DEF HasHistory, WaveHistory, InWave
<1>12. WavesInv'
  <2> SUFFICES ASSUME NEW v \in Connectors PROVE HasHistory(v)'
    BY DEF WavesInv
  <2>1. CASE v = w
    <3>1. \A f \in D : out[f] = LeaderWave(w) => f = node[n].parent
      BY <1>7
    <3>2. e \in node[n].awaiting /\ node[n].awaiting \subseteq {e} /\ node[n].leader = w
      BY <1>5
    <3>3. HasHistory(w)'
      BY <1>1, <1>2, <1>6, <1>7, <1>8, <1>9, <3>1, <3>2, WaveCompleted
    <3> QED
      BY <2>1, <3>3
  <2>2. CASE v # w
    <3>1. \A f \in D : out[f] # LeaderWave(v)
      <4>1. LeaderWave(v).leader = v /\ LeaderWave(w).leader = w
        BY Messages
      <4> QED
        BY <1>7, <2>2, <4>1
    <3>2. \A x \in session.net : Quiet(x, {LeaderWave(v)})
      BY <1>1, <1>7, <3>1, OtherMessages
    <3>3. WaveGoesOn(n, v)
      <4>1. w \in Nat
        BY ConnectorsAssumption
      <4> QED
        BY <1>5, <1>8, <1>10, <2>2, <4>1 DEF WaveGoesOn
    <3>4. HasHistory(v)
      BY <1>1 DEF WavesInv
    <3> QED
      BY <1>1, <1>7, <1>9, <3>2, <3>3, <3>4, WaveQuiet
  <2> QED
    BY <2>1, <2>2
<1>13. LeadersInv'
  <2>1. n <= rec.leader /\ rec.leader \in Component(n)
    BY <1>1, <1>5, <1>8 DEF LeadersInv
  <2>2. \A f \in D : Truthful(n, out[f])
    BY <1>7, <1>8, <2>1 DEF Truthful
  <2>3. /\ rec.phase \in {"tree", "done"} =>
             Greatest(rec.leader) /\ (rec.parent = NoEndpoint <=> n = rec.leader)
        /\ PastElection(n) => rec.phase \notin {"pairing", "election"}
    BY <1>8 DEF PastElection
  <2>4. D \in SUBSET EndpointsOf(n)
    BY <1>7, <1>11
  <2> QED
    BY <1>1, <1>7, <1>9, <2>1, <2>2, <2>3, <2>4, LeadersStep
<1>14. TreeInv' /\ ParentsAcyclic'
  <2>1. \A f \in D : out[f] \notin TreeMsgs
    BY <1>7, TreeMsgsParts
  <2>2. \A x \in session.net : QuietTree(x)
    BY <1>1, <1>7, <2>1, OtherMessages
  <2>3. TreeGoesOn(n)
    BY <1>8, <1>10 DEF TreeGoesOn, PastElection
  <2> QED
    BY <1>1, <1>9, <2>2, <2>3, TreeQuiet
<1> QED
  BY <1>9, <1>12, <1>13, <1>14 DEF IInv

LEMMA CountReplyStep ==
    ASSUME IInv, NEW n \in Connectors, NEW e, NEW m, Takes(n, e, m), CountReply(n, e, m)
    PROVE  IInv'
<1>1. TypeOK /\ OnlyCommDelayed /\ LeadersInv /\ WavesInv
  BY DEF IInv
<1>2. PICK r \in Node : r = node[n] /\ Fit(r)
  BY <1>1, BrokenFits DEF Fit
<1>3. /\ m \in Msg /\ e \in Endpoints /\ e \in session.net /\ Owner[e] = n
      /\ NodeAfter(n) = r /\ ChanAfter(n, e) = Without(e)
  BY <1>1, <1>2, TakesFacts
<1>4. /\ m.type = "LeaderWave" /\ node[n].phase = "election" /\ commSent' = commSent
      /\ m.leader = r.leader /\ session' = session /\ e \in EndpointsOf(n)
      /\ chan[e] # <<>> /\ m = Head(chan[e])
  BY <1>2 DEF CountReply, Takes
<1>5. PICK w \in Connectors : r.leader = w /\ m = LeaderWave(w) /\ node[n].leader = w
  BY <1>2, <1>3, <1>4, MessageKinds
<1>6. ~NoneOf(chan[e], {LeaderWave(w)})
  <2>1. \A K : m \in K => ~NoneOf(chan[e], K)
    BY <1>1, TakesFacts
  <2> QED
    BY <1>5, <2>1
<1>7. PICK J \in SUBSET Connectors, P \in SUBSET Endpoints, C \in SUBSET Connectors :
        WaveHistory(w, J, P, C)
  BY <1>1 DEF WavesInv, HasHistory
<1>8. e \in r.awaiting
  BY <1>2, <1>4, <1>5, <1>6, <1>7 DEF WaveHistory, Answers
<1>9. OneOf(chan[e], {LeaderWave(w)}) /\ (r.parent = NoEndpoint <=> n = w)
  BY <1>2, <1>3, <1>4, <1>5, <1>7 DEF WaveHistory, InFlight, InWave
<1>10. PICK a \in SUBSET Endpoints : a = r.awaiting \ {e}
  BY <1>2 DEF Node
<1>11. PICK rec : rec = [r EXCEPT !.awaiting = a]
  OBVIOUS
<1>12. /\ Fit(rec) /\ rec.phase = r.phase /\ rec.leader = w /\ rec.parent = r.parent
       /\ rec.children = r.children /\ rec.awaiting = a
  BY <1>2, <1>5, <1>10, <1>11 DEF Fit, Node
<1>13. rec = [NodeAfter(n) EXCEPT !.awaiting = node[n].awaiting \ {e}]
  BY <1>2, <1>3, <1>10, <1>11
<1>14. CASE a # {} /\ chan' = Without(e) /\ node' = [node EXCEPT ![n] = rec]
  <2>1. /\ chan' \in [Endpoints -> Seq(Msg)] /\ Entered({}, <<>>)
        /\ Left(e, m, {}, <<>>)
    BY <1>1, <1>3, <1>4, <1>14, ReceiveOnly
  <2>2. NoneOf(chan'[e], {LeaderWave(w)})
    BY <1>5, <1>9, <2>1, Messages DEF Left
  <2>3. Stays(n, rec)
    BY <1>2, <1>4, <1>5, <1>6, <1>10, <1>12, <2>2 DEF Stays
  <2> QED
    BY <1>4, <1>12, <1>14, <2>1, <2>3, LocalStep
<1>15. CASE a = {} /\ r.parent # NoEndpoint
            /\ Proceed(n, Without(e), [f \in {r.parent} |-> m], rec)
  <2>1. PICK out : out = [f \in {r.parent} |-> m]
    OBVIOUS
  <2>2. DOMAIN out = {node[n].parent} /\ out[node[n].parent] = m
    BY <1>2, <2>1
  <2>3. Proceed(n, Without(e), out, rec)
    BY <1>15, <2>1
  <2>4. /\ m = LeaderWave(node[n].leader) /\ e \in node[n].awaiting
        /\ node[n].awaiting \subseteq {e} /\ node[n].parent # NoEndpoint
    BY <1>2, <1>5, <1>8, <1>10, <1>15
  <2>5. /\ rec.phase = "election" /\ rec.leader = node[n].leader /\ rec.parent = node[n].parent
        /\ rec.awaiting = {}
    BY <1>2, <1>4, <1>5, <1>12, <1>15
  <2> QED
    BY <1>4, <1>12, <2>2, <2>3, <2>4, <2>5, PassedOn
<1>16. CASE a = {} /\ r.parent = NoEndpoint
            /\ StartTree(n, rec, Without(e), w, NoEndpoint)
  <2>1. w = n
    BY <1>9, <1>16
  <2>2. Greatest(w)
    <3>1. TypeOK /\ HasHistory(w)
      BY <1>1 DEF WavesInv
    <3>2. /\ node[w].phase = "election" /\ node[w].leader = w /\ e \in EndpointsOf(w)
          /\ node[w].awaiting \subseteq {e} /\ ~NoneOf(chan[e], {LeaderWave(w)})
      BY <1>2, <1>4, <1>5, <1>6, <1>10, <1>16, <2>1
    <3> QED
      BY <3>1, <3>2, RootComplete
  <2>3. w \in Component(n) /\ n <= w
    BY <1>1, <1>5, <2>1, Linked DEF LeadersInv
  <2>4. PICK d \in Endpoints \cup {NoEndpoint} : d = NoEndpoint
    OBVIOUS
  <2>5. StartTree(n, rec, Without(e), w, d) /\ (d = NoEndpoint <=> n = w)
    BY <1>16, <2>1, <2>4
  <2>6. d # NoEndpoint => d = e /\ m = LeaderAnnounce(w) /\ PastElection(w)
    BY <2>4
  <2> QED
    BY <1>4, <1>12, <2>2, <2>3, <2>5, <2>6, StartTreeStep
<1> QED
  <2>1. \/ a # {} /\ chan' = ChanAfter(n, e) /\ node' = [node EXCEPT ![n] = rec]
        \/ a = {} /\ r.parent # NoEndpoint
            /\ Proceed(n, ChanAfter(n, e), [f \in {r.parent} |-> m], rec)
        \/ a = {} /\ r.parent = NoEndpoint
            /\ StartTree(n, rec, ChanAfter(n, e), w, NoEndpoint)
    <3>1. e \in node[n].awaiting /\ a = node[n].awaiting \ {e} /\ r.parent = node[n].parent
      BY <1>2, <1>8, <1>10
    <3>2. \/ /\ node[n].awaiting \ {e} # {} /\ chan' = ChanAfter(n, e)
             /\ node' = [node EXCEPT ![n] = [NodeAfter(n) EXCEPT !.awaiting = node[n].awaiting \ {e}]]
          \/ /\ node[n].awaiting \ {e} = {} /\ node[n].parent # NoEndpoint
             /\ Proceed(n, ChanAfter(n, e), [f \in {node[n].parent} |-> m],
                        [NodeAfter(n) EXCEPT !.awaiting = node[n].awaiting \ {e}])
          \/ /\ node[n].awaiting \ {e} = {} /\ node[n].parent = NoEndpoint
             /\ StartTree(n, [NodeAfter(n) EXCEPT !.awaiting = node[n].awaiting \ {e}],
                          ChanAfter(n, e), node[n].leader, NoEndpoint)
      BY <3>1 DEF CountReply
    <3> QED
      BY <1>5, <1>13, <3>1, <3>2
  <2> QED
    BY <1>3, <1>14, <1>15, <1>16, <2>1

\* Through a wave n learns of the connectors it is linked to.
LEMMA JoinWaveStep ==
    ASSUME IInv, NEW n \in Connectors, NEW e, NEW m, Takes(n, e, m), JoinWave(n, e, m)
    PROVE  IInv'
<1>1. /\ TypeOK /\ OnlyCommDelayed /\ PairingFresh /\ NoMisbehavior
      /\ WavesInv /\ LeadersInv /\ TreeInv /\ ParentsAcyclic
  BY DEF IInv
<1>2. PICK r \in Node : r = node[n] /\ Fit(r)
  BY <1>1, BrokenFits DEF Fit
<1>3. /\ m \in Msg /\ e \in Endpoints /\ e \in session.net /\ Owner[e] = n
      /\ NodeAfter(n) = r /\ ChanAfter(n, e) = Without(e)
  BY <1>1, <1>2, TakesFacts
<1>4. /\ m.type = "LeaderWave" /\ node[n].phase = "election" /\ commSent' = commSent
      /\ m.leader > r.leader /\ session' = session /\ e \in EndpointsOf(n)
      /\ chan[e] # <<>> /\ m = Head(chan[e])
  BY <1>2 DEF JoinWave, Takes
<1>5. PICK v \in Connectors : m.leader = v /\ m = LeaderWave(v)
  BY <1>3, <1>4, MessageKinds
<1>6. ~NoneOf(chan[e], {LeaderWave(v)}) /\ ~NoneOf(chan[e], {LeaderWave(v), LeaderAnnounce(v)})
  <2>1. \A K : m \in K => ~NoneOf(chan[e], K)
    BY <1>1, TakesFacts
  <2> QED
    BY <1>5, <2>1
<1>7. /\ r.leader < v /\ n <= v /\ n # v /\ v \in Component(n)
      /\ n \in Nat /\ v \in Nat /\ r.leader \in Nat
  <2>1. n \in Nat /\ v \in Nat /\ r.leader \in Nat
    BY <1>2, ConnectorsAssumption DEF Node
  <2>2. n <= r.leader /\ v \in Component(n)
    BY <1>1, <1>2, <1>3, <1>6 DEF LeadersInv
  <2> QED
    BY <1>4, <1>5, <2>1, <2>2
<1>8. PICK a \in SUBSET Endpoints : a = EndpointsOf(n) \ {e}
  BY <1>1, NetClosed DEF EndpointsOf
<1>9. PICK out : out = IF a = {} THEN [f \in {e} |-> m] ELSE Wave(n, v, e)
  OBVIOUS
<1>10. /\ \A f \in DOMAIN out : out[f] = LeaderWave(v) /\ f \in EndpointsOf(n)
       /\ e \in DOMAIN out => EndpointsOf(n) = {e}
  <2>1. CASE a = {}
    BY <1>4, <1>5, <1>8, <1>9, <2>1
  <2>2. CASE a # {}
    BY <1>9, <2>2 DEF Wave
  <2> QED
    BY <2>1, <2>2
<1>11. PICK new : new = [r EXCEPT !.leader = v, !.parent = e, !.awaiting = a]
  OBVIOUS
<1>12. /\ Fit(new) /\ new.phase = "election" /\ new.leader = v /\ new.parent = e /\ new.awaiting = a
  BY <1>2, <1>3, <1>4, <1>8, <1>11 DEF Fit, Node
<1>13. Proceed(n, Without(e), out, new)
  <2>1. Proceed(n, ChanAfter(n, e),
                IF EndpointsOf(n) \ {e} = {} THEN [f \in {e} |-> m] ELSE Wave(n, m.leader, e),
                [NodeAfter(n) EXCEPT !.leader = m.leader, !.parent = e,
                                     !.awaiting = EndpointsOf(n) \ {e}])
    BY DEF JoinWave
  <2> QED
    BY <1>3, <1>5, <1>8, <1>9, <1>11, <2>1
<1>14. PICK D, rec : Outcome(n, out, new, D, rec) /\ Left(e, Head(chan[e]), D, out)
  <2>1. Sendable(out)
    BY <1>10, Messages DEF Sendable
  <2>2. TypeOK /\ OnlyCommDelayed /\ Fit(new) /\ e \in Endpoints /\ chan[e] # <<>>
    BY <1>1, <1>3, <1>4, <1>12
  <2> QED
    BY <1>13, <2>1, <2>2, ReceiveProceeds
<1>15. /\ Fit(rec) /\ node' = [node EXCEPT ![n] = rec] /\ rec \in Node
       /\ chan' \in [Endpoints -> Seq(Msg)] /\ Entered(D, out)
       /\ Left(e, LeaderWave(v), D, out)
       /\ D \in SUBSET EndpointsOf(n) /\ \A f \in D : out[f] = LeaderWave(v)
       /\ e \in D => EndpointsOf(n) = {e}
  BY <1>4, <1>5, <1>10, <1>14 DEF Outcome, Fit
<1>16. /\ rec.phase \in {"election", "broken"}
       /\ rec.phase = "election" => rec.leader = v /\ rec.parent = e /\ rec.awaiting = EndpointsOf(n) \ {e}
       /\ rec.leader \in {v, r.leader}
  <2>1. CASE rec = new
    BY <1>8, <1>12, <2>1
  <2>2. CASE rec = Broken(n)
    BY <1>1, <1>2, <2>2, BrokenFits
  <2> QED
    BY <1>14, <2>1, <2>2 DEF Outcome
<1>17. TypeOK' /\ OnlyCommDelayed' /\ PairingFresh' /\ NoMisbehavior' /\ Moved(n, rec)
  BY <1>1, <1>4, <1>15, <1>16, TypeStep
<1>18. node'[n] = rec
  BY <1>17 DEF Moved
<1>19. WavesInv'
  <2> SUFFICES ASSUME NEW w \in Connectors PROVE HasHistory(w)'
    BY DEF WavesInv
  <2>1. HasHistory(w) /\ HasHistory(v)
    BY <1>1 DEF WavesInv
  <2>2. CASE v = w
    <3>1. OneOf(chan[e], {LeaderWave(v)})
      BY <1>3, <2>1 DEF HasHistory, WaveHistory, InFlight
    <3>2. Peer[e] \notin D => NoneOf(chan'[e], {LeaderWave(v)})
      BY <1>15, <3>1, Messages DEF Left
    <3>3. HasHistory(v)'
      <4>1. e \in Endpoints \cup {NoEndpoint} /\ e # NoEndpoint /\ (e = NoEndpoint <=> n = v)
        BY <1>3, <1>7, NoEndpointAssumption
      <4>2. node[n].phase = "election" /\ node[n].leader < v
        BY <1>2, <1>4, <1>7
      <4>3. /\ e \in EndpointsOf(n) /\ ~NoneOf(chan[e], {LeaderWave(v)})
            /\ e \in D => EndpointsOf(n) = {e}
        BY <1>4, <1>6, <1>15
      <4>4. rec.phase # "pairing" /\ n <= v
        BY <1>7, <1>16
      <4>5. TypeOK /\ Moved(n, rec) /\ rec \in Node /\ D \in SUBSET EndpointsOf(n) /\ Entered(D, out)
        BY <1>1, <1>15, <1>17
      <4>6. rec.phase = "election" =>
              rec.leader = v /\ rec.parent = e /\ rec.awaiting = EndpointsOf(n) \ {e}
        BY <1>16
      <4> QED
        BY <2>1, <3>2, <4>1, <4>2, <4>3, <4>4, <4>5, <4>6, WaveJoined
    <3> QED
      BY <2>2, <3>3
  <2>3. CASE v # w
    <3>1. \A f \in D : out[f] # LeaderWave(w)
      <4>1. LeaderWave(v).leader = v /\ LeaderWave(w).leader = w
        BY Messages
      <4> QED
        BY <1>15, <2>3, <4>1
    <3>2. \A x \in session.net : Quiet(x, {LeaderWave(w)})
      BY <1>1, <1>15, <3>1, OtherMessages
    <3>3. WaveGoesOn(n, w)
      BY <1>2, <1>4, <1>7, <1>16, <1>18, <2>3 DEF WaveGoesOn
    <3> QED
      BY <1>1, <1>15, <1>17, <2>1, <3>2, <3>3, WaveQuiet
  <2> QED
    BY <2>2, <2>3
<1>20. LeadersInv'
  <2>1. n <= rec.leader /\ rec.leader \in Component(n)
    BY <1>1, <1>2, <1>7, <1>16 DEF LeadersInv
  <2>2. \A f \in D : Truthful(n, out[f])
    BY <1>7, <1>15 DEF Truthful
  <2>3. /\ rec.phase \in {"tree", "done"} =>
             Greatest(rec.leader) /\ (rec.parent = NoEndpoint <=> n = rec.leader)
        /\ PastElection(n) => rec.phase \notin {"pairing", "election"}
    BY <1>4, <1>16 DEF PastElection
  <2> QED
    BY <1>1, <1>15, <1>17, <2>1, <2>2, <2>3, LeadersStep
<1>21. TreeInv' /\ ParentsAcyclic'
  <2>1. \A f \in D : out[f] \notin TreeMsgs
    BY <1>15, TreeMsgsParts
  <2>2. \A x \in session.net : QuietTree(x)
    BY <1>1, <1>15, <2>1, OtherMessages
  <2>3. TreeGoesOn(n)
    BY <1>4, <1>16, <1>18 DEF TreeGoesOn, PastElection
  <2> QED
    BY <1>1, <1>17, <2>2, <2>3, TreeQuiet
<1> QED
  BY <1>17, <1>19, <1>20, <1>21 DEF IInv

\* `rec` is n when it no longer awaits e, apart from its children.
Noted(n, e, rec) ==
    /\ rec.phase = IF node[n].awaiting \ {e} = {} THEN "done" ELSE "tree"
    /\ rec.leader = node[n].leader /\ rec.parent = node[n].parent
    /\ rec.awaiting = node[n].awaiting \ {e}

\* n has heard from one more neighbour during the second phase.
LEMMA AnswerStep ==
    ASSUME IInv, NEW n \in Connectors, NEW e, NEW m, Takes(n, e, m), node[n].phase = "tree",
           m \in TreeMsgs, e \in node[n].awaiting, commSent' = commSent, chan' = Without(e),
           NEW rec, Fit(rec), node' = [node EXCEPT ![n] = rec],
           Noted(n, e, rec),
           rec.children = IF m = YouAreMyParent THEN node[n].children \cup {e} ELSE node[n].children
    PROVE  IInv'
<1> USE DEF Noted
<1>1. /\ TypeOK /\ OnlyCommDelayed /\ PairingFresh /\ NoMisbehavior
      /\ WavesInv /\ LeadersInv /\ TreeInv /\ ParentsAcyclic
  BY DEF IInv
<1>2. /\ e \in Endpoints /\ e \in EndpointsOf(n) /\ chan[e] # <<>> /\ m = Head(chan[e])
      /\ session' = session
  <2>1. e \in Endpoints
    BY <1>1, TakesFacts
  <2> QED
    BY <2>1 DEF Takes
<1>3. PICK D \in SUBSET EndpointsOf(n) : D = {}
  OBVIOUS
<1>4. PICK out : out = <<>>
  OBVIOUS
<1>5. /\ chan' \in [Endpoints -> Seq(Msg)] /\ Entered(D, out) /\ Left(e, m, D, out)
  BY <1>1, <1>2, <1>3, <1>4, ReceiveOnly
<1>6. rec \in Node /\ rec.phase \in {"tree", "done"}
  BY DEF Fit
<1>7. TypeOK' /\ OnlyCommDelayed' /\ PairingFresh' /\ NoMisbehavior' /\ Moved(n, rec)
  BY <1>1, <1>2, <1>5, <1>6, TypeStep
<1>8. node'[n] = rec
  BY <1>7 DEF Moved
<1>9. WavesInv'
  <2> SUFFICES ASSUME NEW w \in Connectors PROVE HasHistory(w)'
    BY DEF WavesInv
  <2>1. \A x \in session.net : Quiet(x, {LeaderWave(w)})
    <3>1. \A f \in D : out[f] # LeaderWave(w)
      BY <1>3
    <3> QED
      BY <1>1, <1>5, <3>1, OtherMessages
  <2>2. WaveGoesOn(n, w)
    BY <1>6, <1>8 DEF WaveGoesOn
  <2>3. HasHistory(w)
    BY <1>1 DEF WavesInv
  <2> QED
    BY <1>1, <1>6, <1>7, <2>1, <2>2, <2>3, WaveQuiet
<1>10. LeadersInv'
  <2>1. n <= rec.leader /\ rec.leader \in Component(n)
    BY <1>1 DEF LeadersInv
  <2>2. \A f \in D : Truthful(n, out[f])
    BY <1>3
  <2>3. /\ rec.phase \in {"tree", "done"} =>
             Greatest(rec.leader) /\ (rec.parent = NoEndpoint <=> n = rec.leader)
        /\ PastElection(n) => rec.phase \notin {"pairing", "election"}
    BY <1>1, <1>6 DEF PastElection, LeadersInv, Settled
  <2> QED
    BY <1>1, <1>5, <1>6, <1>7, <2>1, <2>2, <2>3, LeadersStep
<1>11. TreeInv' /\ ParentsAcyclic'
  <2>1. Entered({}, out) /\ Left(e, m, {}, out)
    BY <1>3, <1>5
  <2>2. TypeOK /\ TreeInv /\ ParentsAcyclic /\ Moved(n, rec) /\ e \in EndpointsOf(n)
    BY <1>1, <1>2, <1>7
  <2> QED
    BY <2>1, <2>2, TreeAnswered
<1> QED
  BY <1>7, <1>9, <1>10, <1>11 DEF IInv

LEMMA AnsweredFits ==
    ASSUME NEW n \in Connectors, NEW e, Fit(node[n]), NodeAfter(n) = node[n],
           node[n].phase = "tree", NEW kids \in SUBSET Endpoints
    PROVE  /\ Answered(n, e).children = node[n].children
           /\ \A rec : rec = [Answered(n, e) EXCEPT !.children = kids] =>
                Fit(rec) /\ Noted(n, e, rec) /\ rec.children = kids
<1>1. PICK r \in Node : r = node[n] /\ Fit(r)
  BY DEF Fit
<1>2. PICK a \in SUBSET Endpoints : a = r.awaiting \ {e}
  BY DEF Node
<1>3. PICK b : b = [r EXCEPT !.awaiting = a]
  OBVIOUS
<1>4. b = [NodeAfter(n) EXCEPT !.awaiting = @ \ {e}] /\ b.awaiting = a
  BY <1>1, <1>2, <1>3 DEF Node
<1>5. Answered(n, e) = IF a = {} THEN [b EXCEPT !.phase = "done"] ELSE b
  BY <1>4 DEF Answered
<1>6. PICK p \in {"tree", "done"} : p = IF a = {} THEN "done" ELSE "tree"
  OBVIOUS
<1>7. PICK ans : ans = [r EXCEPT !.awaiting = a, !.phase = p]
  OBVIOUS
<1>8. Answered(n, e) = ans
  <2>1. CASE a = {}
    BY <1>3, <1>5, <1>6, <1>7, <2>1 DEF Node
  <2>2. CASE a # {}
    BY <1>1, <1>3, <1>5, <1>6, <1>7, <2>2 DEF Node
  <2> QED
    BY <2>1, <2>2
<1>9. ans.children = r.children
  BY <1>7 DEF Node
<1>10. ASSUME NEW rec, rec = [ans EXCEPT !.children = kids]
       PROVE  /\ Fit(rec) /\ rec.phase = p /\ rec.leader = r.leader /\ rec.parent = r.parent
              /\ rec.awaiting = a /\ rec.children = kids
  BY <1>1, <1>7, <1>10 DEF Fit, Node, Phases
<1> QED
  BY <1>1, <1>2, <1>6, <1>8, <1>9, <1>10 DEF Noted

LEMMA TreeAnswerStep ==
    ASSUME IInv, NEW n \in Connectors, NEW e, NEW m, Takes(n, e, m),
           node[n].phase \in {"election", "tree"},
           TreeAnnounce(n, e, m) \/ ChildMsg(n, e, m)
    PROVE  IInv'
<1>1. TypeOK /\ OnlyCommDelayed /\ TreeInv
  BY DEF IInv
<1>2. PICK r \in Node : r = node[n] /\ Fit(r)
  BY <1>1, BrokenFits DEF Fit
<1>3. /\ m \in Msg /\ e \in Endpoints /\ e \in session.net /\ Owner[e] = n
      /\ NodeAfter(n) = node[n] /\ ChanAfter(n, e) = Without(e)
      /\ \A K : m \in K => ~NoneOf(chan[e], K)
  BY <1>1, TakesFacts
<1>4. m \in TreeMsgs /\ (m.type = "YouAreMyParent" <=> m = YouAreMyParent)
  BY <1>3, MessageKinds, Messages DEF TreeAnnounce, ChildMsg
<1>5. commSent' = commSent /\ chan' = Without(e)
  BY <1>3 DEF TreeAnnounce, ChildMsg
<1>6. node[n].phase = "tree"
  <2>1. CASE TreeAnnounce(n, e, m)
    BY <2>1 DEF TreeAnnounce
  <2>2. CASE ChildMsg(n, e, m)
    <3>1. m = YouAreMyParent
      BY <1>4, <2>2 DEF ChildMsg
    <3>2. PastElection(n)
      BY <1>1, <1>3, <3>1 DEF TreeInv, TreeMessages
    <3> QED
      BY <3>2 DEF PastElection
  <2> QED
    BY <2>1, <2>2
<1>7. e \in node[n].awaiting /\ e \in EndpointsOf(n)
  BY <1>1, <1>3, <1>4, <1>6 DEF TreeInv, TreeAnswers, Settled, EndpointsOf
<1>8. PICK kids \in SUBSET Endpoints :
        kids = IF m = YouAreMyParent THEN r.children \cup {e} ELSE r.children
  BY <1>2, <1>3 DEF Node
<1>9. PICK rec : rec = [Answered(n, e) EXCEPT !.children = kids]
  OBVIOUS
<1>10. /\ Answered(n, e).children = r.children
       /\ Fit(rec) /\ Noted(n, e, rec) /\ rec.children = kids
  BY <1>2, <1>3, <1>6, <1>9, AnsweredFits
<1>11. node' = [node EXCEPT ![n] = rec]
  <2>1. CASE TreeAnnounce(n, e, m)
    <3>1. node' = [node EXCEPT ![n] = Answered(n, e)] /\ m # YouAreMyParent
      BY <1>4, <1>7, <2>1 DEF TreeAnnounce
    <3>2. PICK ans : ans = Answered(n, e)
      OBVIOUS
    <3>3. rec = ans
      <4>1. rec = [ans EXCEPT !.children = ans.children]
        BY <1>8, <1>9, <1>10, <3>1, <3>2
      <4>2. ans = [NodeAfter(n) EXCEPT !.awaiting = @ \ {e}]
            \/ ans = [[NodeAfter(n) EXCEPT !.awaiting = @ \ {e}] EXCEPT !.phase = "done"]
        BY <3>2 DEF Answered
      <4>3. PICK b : b = [r EXCEPT !.awaiting = r.awaiting \ {e}]
        OBVIOUS
      <4>4. ans = b \/ ans = [b EXCEPT !.phase = "done"]
        BY <1>2, <1>3, <4>2, <4>3
      <4>5. b = [phase |-> b.phase, leader |-> b.leader, parent |-> b.parent, awaiting |-> b.awaiting,
                 children |-> b.children, delayed |-> b.delayed, undelayed |-> b.undelayed]
        BY <4>3 DEF Node
      <4> QED
        BY <4>1, <4>4, <4>5
    <3> QED
      BY <3>1, <3>2, <3>3
  <2>2. CASE ChildMsg(n, e, m)
    <3>1. node' = [node EXCEPT ![n] = [Answered(n, e) EXCEPT !.children = @ \cup {e}]]
      BY <1>6, <1>7, <2>2 DEF ChildMsg
    <3>2. m = YouAreMyParent
      BY <1>4, <2>2 DEF ChildMsg
    <3>3. [Answered(n, e) EXCEPT !.children = @ \cup {e}] = [Answered(n, e) EXCEPT !.children = kids]
      BY <1>8, <1>10, <3>2
    <3> QED
      BY <1>9, <3>1, <3>3
  <2> QED
    BY <2>1, <2>2
<1>12. rec.children = IF m = YouAreMyParent THEN node[n].children \cup {e} ELSE node[n].children
  BY <1>2, <1>8, <1>10
<1> QED
  BY <1>4, <1>5, <1>6, <1>7, <1>10, <1>11, <1>12, AnswerStep

LEMMA SendCommStep ==
    ASSUME IInv, NEW n \in Connectors, SendComm(n)
    PROVE  IInv'
<1>1. /\ TypeOK /\ OnlyCommDelayed /\ PairingFresh /\ NoMisbehavior
  BY DEF IInv
<1>2. PICK f \in EndpointsOf(n) :
         /\ commSent[f] < session.comm
         /\ commSent' = [commSent EXCEPT ![f] = @ + 1]
         /\ chan' = [chan EXCEPT ![Peer[f]] = Append(@, CommMsg)]
  BY DEF SendComm
<1>3. session' = session /\ node' = node /\ node[n].phase = "done"
  BY DEF SendComm
<1>4. PICK rec \in Node : rec = node[n]
  BY <1>1, NetClosed
<1>5. Moved(n, rec)
  BY <1>3, <1>4 DEF Moved
<1>6. PICK D \in SUBSET EndpointsOf(n) : D = {f}
  OBVIOUS
<1>7. PICK out : out = [x \in D |-> CommMsg]
  OBVIOUS
<1>8. \A x \in D : out[x] = CommMsg /\ out[x] \in Msg
  BY <1>7, Messages
<1>9. f \in Endpoints /\ session.comm \in Nat
  BY <1>1, NetClosed, SessionsAssumption DEF EndpointsOf, TypeOK, Session
<1>10. chan' = StreamsOver(chan, D, out)
  <2>1. \A x \in Endpoints : Peer[x] \in D <=> x = Peer[f]
    BY <1>6, <1>9, PeerAssumption
  <2>2. \A x \in Endpoints : Peer[x] \in D => out[Peer[x]] = CommMsg
    BY <1>8
  <2> QED
    BY <1>1, <1>2, <2>1, <2>2 DEF StreamsOver, TypeOK
<1>11. chan' \in [Endpoints -> Seq(Msg)] /\ Entered(D, out)
  BY <1>1, <1>8, <1>10, SendStreams DEF TypeOK
<1>12. TypeOK'
  <2>1. commSent[f] \in 0..session.comm /\ commSent[f] + 1 \in 0..session.comm
    BY <1>1, <1>2, <1>9 DEF TypeOK
  <2>2. commSent' \in [Endpoints -> 0..session.comm]
    BY <1>1, <1>2, <2>1 DEF TypeOK
  <2> QED
    BY <1>1, <1>3, <1>11, <2>2 DEF TypeOK
<1>13. OnlyCommDelayed' /\ PairingFresh' /\ NoMisbehavior'
  BY <1>1, <1>3 DEF OnlyCommDelayed, PairingFresh, NoMisbehavior
<1>14. Stays(n, rec)
  BY <1>3, <1>4 DEF Stays
<1>15. WavesInv' /\ LeadersInv' /\ TreeInv' /\ ParentsAcyclic'
  BY <1>5, <1>8, <1>11, <1>14, QuietStep
<1> QED
  BY <1>12, <1>13, <1>15 DEF IInv

\* A connector without endpoints is its own tree.
LEMMA LonelyStep ==
    ASSUME IInv, NEW n \in Connectors, Begin(n), EndpointsOf(n) = {}
    PROVE  IInv'
<1>1. /\ TypeOK /\ OnlyCommDelayed /\ PairingFresh /\ NoMisbehavior
      /\ WavesInv /\ LeadersInv /\ TreeInv /\ ParentsAcyclic
  BY DEF IInv
<1>2. PICK r \in Node : r = node[n] /\ Fit(r)
  BY <1>1, BrokenFits DEF Fit
<1>3. /\ node[n].phase = "pairing" /\ node' = [node EXCEPT ![n].phase = "done"]
      /\ chan' = chan /\ session' = session /\ commSent' = commSent
  BY DEF Begin
<1>4. PICK rec : rec = [r EXCEPT !.phase = "done"]
  OBVIOUS
<1>5. /\ Fit(rec) /\ rec \in Node /\ rec.phase = "done" /\ rec.leader = n
      /\ rec.parent = NoEndpoint /\ rec.awaiting = {}
  BY <1>1, <1>2, <1>3, <1>4 DEF Fit, Node, Phases, PairingFresh
<1>6. node' = [node EXCEPT ![n] = rec]
  BY <1>2, <1>3, <1>4
<1>7. PICK D \in SUBSET EndpointsOf(n) : D = {}
  OBVIOUS
<1>8. PICK out : out = <<>>
  OBVIOUS
<1>9. chan' \in [Endpoints -> Seq(Msg)] /\ Entered(D, out)
  BY <1>1, <1>3, <1>7, <1>8, NothingSent DEF TypeOK
<1>10. TypeOK' /\ OnlyCommDelayed' /\ PairingFresh' /\ NoMisbehavior' /\ Moved(n, rec)
  BY <1>1, <1>3, <1>5, <1>6, <1>9, TypeStep
<1>11. node'[n] = rec /\ \A f : f \notin D
  BY <1>7, <1>10 DEF Moved
<1>12. WavesInv'
  <2> SUFFICES ASSUME NEW w \in Connectors PROVE HasHistory(w)'
    BY DEF WavesInv
  <2>1. \A x \in session.net : Quiet(x, {LeaderWave(w)})
    <3>1. \A f \in D : out[f] # LeaderWave(w)
      BY <1>11
    <3> QED
      BY <1>1, <1>9, <3>1, OtherMessages
  <2>2. WaveGoesOn(n, w) /\ HasHistory(w)
    BY <1>1, <1>5, <1>11 DEF WaveGoesOn, WavesInv
  <2> QED
    BY <1>1, <1>5, <1>10, <2>1, <2>2, WaveQuiet
<1>13. LeadersInv'
  <2>1. Closed({n})
    BY DEF Closed, EndpointsOf
  <2>2. Component(n) \subseteq {n}
    BY <2>1 DEF Component
  <2>3. n \in Component(n) /\ n \in Nat
    BY <1>1, Linked, ConnectorsAssumption
  <2>4. Greatest(n) /\ n <= n
    BY <2>2, <2>3 DEF Greatest
  <2>5. \A f \in D : Truthful(n, out[f])
    BY <1>11
  <2>6. PastElection(n) => rec.phase \notin {"pairing", "election"}
    BY <1>5
  <2>7. /\ n <= rec.leader /\ rec.leader \in Component(n)
        /\ rec.phase \in {"tree", "done"} =>
             Greatest(rec.leader) /\ (rec.parent = NoEndpoint <=> n = rec.leader)
    BY <1>5, <2>3, <2>4
  <2> QED
    BY <1>1, <1>5, <1>9, <1>10, <2>5, <2>6, <2>7, LeadersStep
<1>14. TreeInv' /\ ParentsAcyclic'
  <2>1. \A x \in session.net : QuietTree(x)
    <3>1. \A f \in D : out[f] \notin TreeMsgs
      BY <1>11
    <3> QED
      BY <1>1, <1>9, <3>1, OtherMessages
  <2>2. TreeGoesOn(n)
    BY <1>5, <1>11 DEF TreeGoesOn
  <2> QED
    BY <1>1, <1>10, <2>1, <2>2, TreeQuiet
<1> QED
  BY <1>10, <1>12, <1>13, <1>14 DEF IInv

\* n starts its own wave.
LEMMA BeginStep ==
    ASSUME IInv, NEW n \in Connectors, Begin(n), EndpointsOf(n) # {}
    PROVE  IInv'
<1>1. /\ TypeOK /\ OnlyCommDelayed /\ PairingFresh /\ NoMisbehavior
      /\ WavesInv /\ LeadersInv /\ TreeInv /\ ParentsAcyclic
  BY DEF IInv
<1>2. PICK r \in Node : r = node[n] /\ Fit(r)
  BY <1>1, BrokenFits DEF Fit
<1>3. /\ node[n].phase = "pairing" /\ session' = session /\ commSent' = commSent
      /\ Proceed(n, chan, Wave(n, n, NoEndpoint),
                 UndelayAll([node[n] EXCEPT !.phase = "election", !.awaiting = EndpointsOf(n)]))
  BY DEF Begin
<1>4. PICK a \in SUBSET Endpoints : a = EndpointsOf(n)
  BY <1>1, NetClosed DEF EndpointsOf
<1>5. PICK b : b = [r EXCEPT !.phase = "election", !.awaiting = a]
  OBVIOUS
<1>6. /\ Fit(b) /\ b.phase = "election" /\ b.leader = n /\ b.parent = NoEndpoint /\ b.awaiting = a
  BY <1>1, <1>2, <1>3, <1>5 DEF Fit, Node, Phases, PairingFresh
<1>7. PICK new : new = UndelayAll(b)
  OBVIOUS
<1>8. Fit(new) /\ new.phase = "election" /\ new.leader = n /\ new.parent = NoEndpoint /\ new.awaiting = a
  BY <1>6, <1>7, UndelayFits
<1>9. PICK out : out = Wave(n, n, NoEndpoint)
  OBVIOUS
<1>10. /\ DOMAIN out = EndpointsOf(n) \ {NoEndpoint}
       /\ \A f \in DOMAIN out : out[f] = LeaderWave(n)
  BY <1>9 DEF Wave
<1>11. Proceed(n, chan, out, new)
  BY <1>2, <1>3, <1>4, <1>5, <1>7, <1>9
<1>12. PICK D, rec : Outcome(n, out, new, D, rec)
  <2>1. Sendable(out)
    BY <1>10, Messages DEF Sendable
  <2> QED
    BY <1>1, <1>8, <1>11, <2>1, SendProceeds
<1>13. /\ Fit(rec) /\ node' = [node EXCEPT ![n] = rec] /\ rec \in Node
       /\ chan' \in [Endpoints -> Seq(Msg)] /\ Entered(D, out)
       /\ D \in SUBSET EndpointsOf(n) /\ \A f \in D : out[f] = LeaderWave(n)
  BY <1>10, <1>12 DEF Outcome, Fit
<1>14. /\ rec.phase \in {"election", "broken"} /\ rec.leader = n
       /\ rec.phase = "election" =>
            rec.parent = NoEndpoint /\ rec.awaiting = EndpointsOf(n) \ {NoEndpoint}
  <2>1. CASE rec = new
    <3>1. NoEndpoint \notin a
      BY NoEndpointAssumption
    <3> QED
      BY <1>4, <1>8, <2>1, <3>1
  <2>2. CASE rec = Broken(n)
    BY <1>1, <1>3, <2>2, BrokenFits DEF PairingFresh
  <2> QED
    BY <1>12, <2>1, <2>2 DEF Outcome
<1>15. TypeOK' /\ OnlyCommDelayed' /\ PairingFresh' /\ NoMisbehavior' /\ Moved(n, rec)
  BY <1>1, <1>3, <1>13, <1>14, TypeStep
<1>16. node'[n] = rec
  BY <1>15 DEF Moved
<1>17. WavesInv'
  <2> SUFFICES ASSUME NEW w \in Connectors PROVE HasHistory(w)'
    BY DEF WavesInv
  <2>1. HasHistory(w) /\ HasHistory(n)
    BY <1>1 DEF WavesInv
  <2>2. CASE n = w
    <3>1. PICK e \in Endpoints \cup {NoEndpoint} : e = NoEndpoint
      OBVIOUS
    <3>2. n <= n /\ (e = NoEndpoint <=> n = n)
      BY <3>1, ConnectorsAssumption
    <3>3. rec.phase = "election" =>
              rec.leader = n /\ rec.parent = e /\ rec.awaiting = EndpointsOf(n) \ {e}
      BY <1>14, <3>1
    <3>4. e # NoEndpoint =>
              /\ e \in EndpointsOf(n)
              /\ ~NoneOf(chan[e], {LeaderWave(n)})
              /\ Peer[e] \notin D => NoneOf(chan'[e], {LeaderWave(n)})
              /\ e \in D => EndpointsOf(n) = {e}
      BY <3>1
    <3>5. rec.phase # "pairing" /\ Moved(n, rec) /\ rec \in Node
      BY <1>13, <1>14, <1>15
    <3>6. HasHistory(n)'
      BY <1>1, <1>3, <1>13, <2>1, <3>2, <3>3, <3>4, <3>5, WaveJoined
    <3> QED
      BY <2>2, <3>6
  <2>3. CASE n # w
    <3>1. \A f \in D : out[f] # LeaderWave(w)
      <4>1. LeaderWave(n).leader = n /\ LeaderWave(w).leader = w
        BY Messages
      <4> QED
        BY <1>13, <2>3, <4>1
    <3>2. \A x \in session.net : Quiet(x, {LeaderWave(w)})
      BY <1>1, <1>13, <3>1, OtherMessages
    <3>3. WaveGoesOn(n, w)
      BY <1>3, <1>14, <1>16, <2>3 DEF WaveGoesOn
    <3> QED
      BY <1>1, <1>13, <1>15, <2>1, <3>2, <3>3, WaveQuiet
  <2> QED
    BY <2>2, <2>3
<1>18. LeadersInv'
  <2>1. n <= rec.leader /\ rec.leader \in Component(n) /\ n \in Component(n)
    BY <1>1, <1>14, Linked, ConnectorsAssumption
  <2>2. \A f \in D : Truthful(n, out[f])
    BY <1>13, <2>1 DEF Truthful
  <2>3. /\ rec.phase \in {"tree", "done"} =>
             Greatest(rec.leader) /\ (rec.parent = NoEndpoint <=> n = rec.leader)
        /\ PastElection(n) => rec.phase \notin {"pairing", "election"}
    BY <1>3, <1>14 DEF PastElection
  <2> QED
    BY <1>1, <1>13, <1>15, <2>1, <2>2, <2>3, LeadersStep
<1>19. TreeInv' /\ ParentsAcyclic'
  <2>1. \A f \in D : out[f] \notin TreeMsgs
    BY <1>13, TreeMsgsParts
  <2>2. \A x \in session.net : QuietTree(x)
    BY <1>1, <1>13, <2>1, OtherMessages
  <2>3. TreeGoesOn(n)
    BY <1>3, <1>14, <1>16 DEF TreeGoesOn, PastElection
  <2> QED
    BY <1>1, <1>15, <2>2, <2>3, TreeQuiet
<1> QED
  BY <1>15, <1>17, <1>18, <1>19 DEF IInv

LEMMA RecvStep ==
    ASSUME IInv, NEW n \in Connectors, Recv(n)
    PROVE  IInv'
<1>1. PICK em \in Incoming(n) :
        \/ ElectionAnnounce(n, em[1], em[2])
        \/ IgnoreWave(n, em[1], em[2])
        \/ JoinWave(n, em[1], em[2])
        \/ CountReply(n, em[1], em[2])
        \/ TreeAnnounce(n, em[1], em[2])
        \/ ChildMsg(n, em[1], em[2])
        \/ DelayComm(n, em[1], em[2])
  BY DEF Recv
<1>2. session' = session /\ node[n].phase \in {"election", "tree"}
  BY DEF Recv
<1>3. CASE DelayComm(n, em[1], em[2])
  BY <1>2, <1>3, DelayCommStep
<1>4. CASE ~DelayComm(n, em[1], em[2])
  <2>1. em[2].type # "CommMsg"
    BY <1>1, <1>4 DEF ElectionAnnounce, IgnoreWave, JoinWave, CountReply, TreeAnnounce, ChildMsg
  <2>2. node[n].undelayed = <<>>
    <3> SUFFICES ASSUME node[n].undelayed # <<>> PROVE FALSE
      OBVIOUS
    <3>1. PICK q \in Seq(Endpoints \X {CommMsg}) : q = node[n].undelayed
      BY DEF IInv, OnlyCommDelayed
    <3>2. em = q[Len(q)] /\ Len(q) \in DOMAIN q
      BY <3>1 DEF Incoming, Last
    <3>3. em \in Endpoints \X {CommMsg}
      BY <3>2
    <3> QED
      BY <2>1, <3>3, Messages
  <2>3. PICK e : e = em[1]
    OBVIOUS
  <2>4. PICK m : m = em[2]
    OBVIOUS
  <2>5. Takes(n, e, m)
    <3>1. PICK f \in EndpointsOf(n) : em = <<f, Head(chan[f])>> /\ chan[f] # <<>>
      BY <2>2 DEF Incoming
    <3> QED
      BY <1>2, <2>2, <2>3, <2>4, <3>1 DEF Takes
  <2>6. \/ ElectionAnnounce(n, e, m) \/ IgnoreWave(n, e, m) \/ JoinWave(n, e, m)
        \/ CountReply(n, e, m) \/ TreeAnnounce(n, e, m) \/ ChildMsg(n, e, m)
    BY <1>1, <1>4, <2>3, <2>4
  <2>7. CASE ElectionAnnounce(n, e, m)
    BY <2>5, <2>7, ElectionAnnounceStep
  <2>8. CASE IgnoreWave(n, e, m)
    BY <1>2, <2>5, <2>8, IgnoreWaveStep
  <2>9. CASE JoinWave(n, e, m)
    BY <2>5, <2>9, JoinWaveStep
  <2>10. CASE CountReply(n, e, m)
    BY <2>5, <2>10, CountReplyStep
  <2>11. CASE TreeAnnounce(n, e, m) \/ ChildMsg(n, e, m)
    BY <1>2, <2>5, <2>11, TreeAnswerStep
  <2> QED
    BY <2>6, <2>7, <2>8, <2>9, <2>10, <2>11
<1> QED
  BY <1>3, <1>4

LEMMA InitIInv == Init => IInv
<1> SUFFICES ASSUME Init PROVE IInv
  OBVIOUS
<1>1. PICK none \in Seq(Endpoints \X {CommMsg}) : none = <<>>
  BY EmptyStream
<1>2. none \in Seq(Endpoints \X Msg)
  BY <1>1, EmptyStream
<1>3. ASSUME NEW n \in Connectors
      PROVE  /\ node[n] \in Node /\ node[n].phase = "pairing" /\ node[n].leader = n
             /\ node[n].parent = NoEndpoint /\ node[n].awaiting = {}
             /\ node[n].delayed = none /\ node[n].undelayed = none
  BY <1>1, <1>2 DEF Init, Node, Phases
<1>4. TypeOK
  <2>1. node = [n \in Connectors |-> node[n]] /\ chan = [e \in Endpoints |-> chan[e]]
        /\ commSent = [e \in Endpoints |-> commSent[e]]
    BY DEF Init
  <2>2. session \in Sessions /\ session.comm \in Nat
    BY SessionsAssumption DEF Init, Session
  <2>3. \A e \in Endpoints : chan[e] \in Seq(Msg) /\ commSent[e] \in 0..session.comm
    BY <2>2, EmptyStream DEF Init
  <2> QED
    BY <1>3, <2>1, <2>2, <2>3 DEF TypeOK
<1>5. OnlyCommDelayed /\ PairingFresh /\ NoMisbehavior
  BY <1>3 DEF OnlyCommDelayed, PairingFresh, NoMisbehavior
<1>6. \A e \in session.net : \A K : NoneOf(chan[e], K) /\ OneOf(chan[e], K)
  BY <1>4, NetClosed, EmptyStream DEF Init
<1>7. WavesInv
  <2> SUFFICES ASSUME NEW w \in Connectors PROVE HasHistory(w)
    BY DEF WavesInv
  <2>1. WaveHistory(w, {}, {}, {})
    BY <1>3, <1>6 DEF WaveHistory, JoinsGrow, InWave, Answers, InFlight, HeardAll, GrownFrom
  <2> QED
    BY <2>1 DEF HasHistory
<1>8. LeadersInv
  <2>1. \A n \in Connectors : n <= node[n].leader /\ node[n].leader \in Component(n)
    BY <1>3, <1>4, Linked, ConnectorsAssumption
  <2> QED
    BY <1>3, <1>6, <2>1 DEF LeadersInv, Settled
<1>9. TreeInv
  BY <1>3, <1>4, <1>6, NetClosed DEF TreeInv, TreeMessages, TreeAnswers, Settled, Neighbor
<1>10. ParentsAcyclic
  BY <1>3 DEF ParentsAcyclic, Settled
<1> QED
  BY <1>4, <1>5, <1>7, <1>8, <1>9, <1>10 DEF IInv

LEMMA NextIInv == IInv /\ [Next]_vars => IInv'
<1> SUFFICES ASSUME IInv, [Next]_vars PROVE IInv'
  OBVIOUS
<1>1. CASE UNCHANGED vars
  <2>1. session' = session /\ node' = node /\ chan' = chan /\ commSent' = commSent
    BY <1>1 DEF vars
  <2>2. TypeOK' /\ OnlyCommDelayed' /\ PairingFresh' /\ NoMisbehavior'
    BY <2>1 DEF IInv, TypeOK, OnlyCommDelayed, PairingFresh, NoMisbehavior
  <2>3. WavesInv'
    <3> SUFFICES ASSUME NEW w \in Connectors PROVE HasHistory(w)'
      BY DEF WavesInv
    <3>1. PICK J \in SUBSET Connectors, P \in SUBSET Endpoints, C \in SUBSET Connectors :
            WaveHistory(w, J, P, C)
      BY DEF IInv, WavesInv, HasHistory
    <3>2. JoinsGrow(w, J)' /\ InWave(w, J, P, C)' /\ Answers(w, J, P, C)'
      BY <2>1, <3>1 DEF WaveHistory, JoinsGrow, InWave, Answers, Sent, EndpointsOf
    <3>3. InFlight(w, J, P, C)' /\ HeardAll(J, P, C)' /\ GrownFrom(w, J, P)'
      BY <2>1, <3>1 DEF WaveHistory, InFlight, HeardAll, GrownFrom, Sent
    <3>4. WaveHistory(w, J, P, C)'
      BY <2>1, <3>1, <3>2, <3>3 DEF WaveHistory
    <3> QED
      BY <3>4 DEF HasHistory
  <2>4. LeadersInv'
    <3>1. \A x : Component(x)' = Component(x) /\ Greatest(x)' = Greatest(x)
      BY <2>1 DEF Component, Closed, Neighbor, Greatest
    <3> QED
      BY <2>1, <3>1 DEF IInv, LeadersInv, Settled, PastElection
  <2>5. TreeInv' /\ ParentsAcyclic'
    BY <2>1 DEF IInv, TreeInv, TreeMessages, TreeAnswers, Settled, PastElection, Neighbor,
                EndpointsOf, ParentsAcyclic
  <2> QED
    BY <2>2, <2>3, <2>4, <2>5 DEF IInv
<1>2. CASE Next
  <2>1. PICK n \in Connectors : Begin(n) \/ Recv(n) \/ Timeout(n) \/ ReadBroken(n) \/ SendComm(n)
    BY <1>2 DEF Next
  <2>2. CASE Begin(n)
    BY <2>2, LonelyStep, BeginStep
  <2>3. CASE Recv(n)
    BY <2>3, RecvStep
  <2>4. CASE Timeout(n) \/ ReadBroken(n)
    BY <2>4, FailureStep
  <2>5. CASE SendComm(n)
    BY <2>5, SendCommStep
  <2> QED
    BY <2>1, <2>2, <2>3, <2>4, <2>5
<1> QED
  BY <1>1, <1>2

LEMMA SpecIInv == Spec => []IInv
<1> QED
  BY InitIInv, NextIInv, PTL DEF Spec
-----------------------------------------------------------------------------
(* What follows *)

\* init_neighborhood keeps its locals and the streams well-formed.
THEOREM ElectionTypeCorrect == Spec => []TypeOK
<1>1. IInv => TypeOK
  BY DEF IInv
<1> QED
  BY <1>1, SpecIInv, PTL

\* "Only the wave of the connector with GREATEST ID completes": in any network,
\* who leaves the election believes in the greatest connector it is linked to,
\* and nobody else has no parent.
THEOREM GreatestIsElected == Spec => []GreatestLeads
<1>1. IInv => GreatestLeads
  <2> SUFFICES ASSUME IInv, NEW n \in Connectors, Settled(n)
               PROVE  /\ node[n].leader \in Component(n)
                      /\ \A m \in Component(n) : m <= node[n].leader
                      /\ node[n].parent = NoEndpoint <=> n = node[n].leader
    BY DEF GreatestLeads
  <2>1. TypeOK /\ LeadersInv
    BY DEF IInv
  <2>2. PICK l \in Connectors : l = node[n].leader
    BY <2>1, NetClosed DEF Node
  <2>3. l \in Component(n) /\ Greatest(l) /\ (node[n].parent = NoEndpoint <=> n = l)
    BY <2>1, <2>2 DEF LeadersInv
  <2>4. \A m \in Connectors : m \in Component(n) => m \in Component(l)
    BY <2>1, <2>3, Linked
  <2>5. Component(n) \subseteq Connectors
    BY DEF Component
  <2> QED
    BY <2>2, <2>3, <2>4, <2>5 DEF Greatest
<1> QED
  BY <1>1, SpecIInv, PTL

\* The parents and children that the connectors have agreed on make up one tree.
THEOREM TreeIsBuilt == Spec => []ConsensusTree
<1>1. IInv => ConsensusTree
  <2> SUFFICES ASSUME IInv PROVE ParentsAcyclic /\ ChildrenKnown
    BY DEF ConsensusTree
  <2>1. TypeOK /\ NoMisbehavior /\ TreeInv /\ ParentsAcyclic
    BY DEF IInv
  <2>2. ASSUME NEW n \in Connectors, node[n].phase = "done", NEW e \in EndpointsOf(n),
               ~Failed(Neighbor(e))
        PROVE  e \in node[n].children <=> node[Neighbor(e)].parent = Peer[e]
    <3>1. Settled(n) /\ node[n].awaiting = {}
      BY <2>1, <2>2 DEF Settled, TreeInv, TreeAnswers
    <3>2. /\ PastElection(Neighbor(e))
          /\ Settled(Neighbor(e)) => (e \in node[n].children <=> node[Neighbor(e)].parent = Peer[e])
      BY <2>1, <2>2, <3>1 DEF TreeInv, TreeAnswers
    <3>3. Neighbor(e) \in Connectors /\ node[Neighbor(e)].phase \in Phases
      BY <2>1, NetClosed DEF Neighbor, EndpointsOf, Node
    <3>4. Settled(Neighbor(e))
      BY <2>2, <3>2, <3>3 DEF PastElection, Failed, Settled, Phases
    <3> QED
      BY <3>2, <3>4
  <2> QED
    BY <2>1, <2>2 DEF ChildrenKnown
<1> QED
  BY <1>1, SpecIInv, PTL

\* No assert of the election loop fails and nobody is accused of
\* SetupAlgMisbehavior, in whatever order the messages are handled.
THEOREM NobodyMisbehaves == Spec => []NoMisbehavior
<1>1. IInv => NoMisbehavior
  BY DEF IInv
<1> QED
  BY <1>1, SpecIInv, PTL
-----------------------------------------------------------------------------
(* What the rounds start from *)

\* The tree of the connectors that n is linked to: parents by name, as in Rounds.
TreeOf(n, none) ==
    [m \in Component(n) |->
        IF node[m].parent = NoEndpoint THEN none ELSE Neighbor(node[m].parent)]

ChildrenOf(m) == EndpointsOf(m) \cap node[m].children

\* What Rounds assumes of the parents of a session among these connectors, and that
\* its children, the connectors with that parent, are those that are sent to, once.
SessionBuilt(n, none) ==
    LET parent == TreeOf(n, none)
    IN  /\ parent \in [Component(n) -> Component(n) \cup {none}]
        /\ \A m \in Component(n) : parent[m] # m
        /\ \A m, k \in Component(n) : parent[m] = none /\ parent[k] = none => m = k
        /\ \A m \in Component(n) :
             /\ {Neighbor(e) : e \in ChildrenOf(m)} = {k \in Component(n) : parent[k] = m}
             /\ \A e, f \in ChildrenOf(m) : Neighbor(e) = Neighbor(f) => e = f

\* A connector that has left the election: its parent is a neighbour, if it has one.
LEMMA ParentFacts ==
    ASSUME IInv, NEW m \in Connectors, Settled(m), node[m].parent # NoEndpoint
    PROVE  /\ node[m].parent \in session.net /\ Owner[node[m].parent] = m
           /\ Neighbor(node[m].parent) \in Component(m)
           /\ Neighbor(node[m].parent) # m
<1>1. TypeOK /\ ParentsAcyclic
  BY DEF IInv
<1>2. node[m].parent \in session.net /\ Owner[node[m].parent] = m
  BY DEF IInv, TreeInv, TreeAnswers, EndpointsOf
<1>3. Neighbor(node[m].parent) \in Connectors
  BY <1>1, <1>2, NetClosed DEF Neighbor
<1>4. Neighbor(node[m].parent) \in Component(m)
  <2>1. Neighbor(node[m].parent) \in Component(Neighbor(node[m].parent))
    BY <1>1, <1>3, Linked
  <2> QED
    BY <1>1, <1>2, <1>3, <2>1, Linked
<1>5. Neighbor(node[m].parent) # m
  <2>1. {m} \in SUBSET Connectors /\ {m} # {}
    OBVIOUS
  <2>2. \E k \in {m} : ~ /\ Settled(k)
                         /\ node[k].parent # NoEndpoint
                         /\ Neighbor(node[k].parent) \in {m}
    BY <1>1, <2>1 DEF ParentsAcyclic
  <2> QED
    BY <2>2
<1> QED
  BY <1>2, <1>4, <1>5

LEMMA OneRoot ==
    ASSUME IInv, NEW m \in Connectors, NEW k \in Connectors, k \in Component(m), m \in Component(k),
           Settled(m), Settled(k), node[m].parent = NoEndpoint, node[k].parent = NoEndpoint
    PROVE  m = k
<1>1. m = node[m].leader /\ k = node[k].leader
  BY DEF IInv, LeadersInv
<1>2. Greatest(m) /\ Greatest(k)
  BY <1>1 DEF IInv, LeadersInv
<1>3. k <= m /\ m <= k
  BY <1>2 DEF Greatest
<1> QED
  BY <1>3, ConnectorsAssumption

LEMMA ChildrenAre ==
    ASSUME IInv, NEW m \in Connectors, node[m].phase = "done",
           NEW e \in EndpointsOf(m), node[Neighbor(e)].phase = "done"
    PROVE  /\ Neighbor(e) \in Connectors
           /\ e \in node[m].children <=> node[Neighbor(e)].parent = Peer[e]
<1>1. Settled(m) /\ Settled(Neighbor(e))
  BY DEF Settled
<1>2. Neighbor(e) \in Connectors
  BY NetClosed DEF IInv, Neighbor, EndpointsOf
<1>3. node[m].awaiting = {}
  BY <1>1 DEF IInv, TreeInv, TreeAnswers
<1> QED
  BY <1>1, <1>2, <1>3 DEF IInv, TreeInv, TreeAnswers

\* When connect() has returned to all connectors that are linked to each other, the
\* parents and children that init_neighborhood has left in their ConnectorComm are
\* what synchronous rounds rely on: one connector without parent, parents that are
\* linked, and a child for every connector that has one as its parent.
THEOREM TreeIsASession ==
    Spec => [](\A n \in Connectors :
                 (\A m \in Component(n) : node[m].phase = "done") =>
                    \A none : none \notin Connectors => SessionBuilt(n, none))
<1>1. ASSUME IInv, NEW n \in Connectors, \A m \in Component(n) : node[m].phase = "done",
             NEW none, none \notin Connectors
      PROVE  SessionBuilt(n, none)
  <2> DEFINE C == Component(n)
             parent == TreeOf(n, none)
  <2>1. TypeOK /\ C \subseteq Connectors /\ \A m \in C : Settled(m)
    BY <1>1 DEF IInv, Component, Settled
  <2>2. \A m \in C, k \in Connectors : k \in Component(m) => k \in C
    BY <1>1, <2>1, Linked
  <2>3. \A m, k \in C : k \in Component(m) /\ m \in Component(k)
    BY <1>1, <2>1, Linked
  <2>4. \A m \in C : parent[m] = IF node[m].parent = NoEndpoint THEN none ELSE Neighbor(node[m].parent)
    BY DEF TreeOf
  <2>5. ASSUME NEW m \in C, node[m].parent # NoEndpoint
        PROVE  /\ node[m].parent \in session.net /\ Owner[node[m].parent] = m
               /\ parent[m] = Neighbor(node[m].parent) /\ parent[m] \in C /\ parent[m] # m
    <3>1. /\ node[m].parent \in session.net /\ Owner[node[m].parent] = m
          /\ Neighbor(node[m].parent) \in Component(m) /\ Neighbor(node[m].parent) # m
      BY <1>1, <2>1, <2>5, ParentFacts
    <3>2. Neighbor(node[m].parent) \in Connectors
      BY <2>1, <3>1, NetClosed DEF Neighbor
    <3> QED
      BY <2>2, <2>4, <2>5, <3>1, <3>2
  <2>6. ASSUME NEW m \in C, node[m].parent = NoEndpoint PROVE parent[m] = none /\ none \notin C
    BY <1>1, <2>1, <2>4, <2>6
  <2>7. \A m \in C : parent[m] \in C \cup {none} /\ parent[m] # m
    BY <2>5, <2>6
  <2>8. parent \in [C -> C \cup {none}]
    BY <2>4, <2>7 DEF TreeOf
  <2>9. ASSUME NEW m \in C, NEW k \in C, parent[m] = none, parent[k] = none PROVE m = k
    <3>1. none \notin C
      BY <1>1, <2>1
    <3>2. node[m].parent = NoEndpoint /\ node[k].parent = NoEndpoint
      BY <2>5, <2>9, <3>1
    <3> QED
      BY <1>1, <2>1, <2>3, <3>2, OneRoot
  <2>10. ASSUME NEW m \in C, NEW e \in ChildrenOf(m)
         PROVE  Neighbor(e) \in C /\ node[Neighbor(e)].parent = Peer[e] /\ parent[Neighbor(e)] = m
    <3>1. /\ e \in session.net /\ Owner[e] = m /\ e \in node[m].children /\ e \in EndpointsOf(m)
          /\ Peer[Peer[e]] = e /\ Peer[e] \in session.net /\ Neighbor(e) \in Connectors
      BY <2>1, <2>10, NetClosed DEF ChildrenOf, EndpointsOf, Neighbor
    <3>2. Neighbor(e) \in C
      <4>1. Neighbor(e) \in Component(Neighbor(e))
        BY <2>1, <3>1, Linked
      <4>2. Neighbor(e) \in Component(m)
        BY <2>1, <3>1, <4>1, Linked
      <4> QED
        BY <2>2, <3>1, <4>2
    <3>3. node[Neighbor(e)].parent = Peer[e]
      BY <1>1, <2>1, <3>1, <3>2, ChildrenAre
    <3>4. Peer[e] # NoEndpoint
      BY <2>1, <3>1, NetClosed, NoEndpointAssumption
    <3>5. parent[Neighbor(e)] = Neighbor(Peer[e])
      BY <2>5, <3>2, <3>3, <3>4
    <3> QED
      BY <3>1, <3>2, <3>3, <3>5 DEF Neighbor
  <2>11. ASSUME NEW m \in C, NEW k \in C, parent[k] = m PROVE \E e \in ChildrenOf(m) : Neighbor(e) = k
    <3>1. node[k].parent # NoEndpoint
      BY <1>1, <2>1, <2>6, <2>11
    <3>2. PICK f : f = node[k].parent
      OBVIOUS
    <3>3. f \in session.net /\ Owner[f] = k /\ Neighbor(f) = m
      BY <2>5, <2>11, <3>1, <3>2
    <3>4. /\ Peer[f] \in session.net /\ Owner[Peer[f]] = m /\ Peer[Peer[f]] = f
          /\ Peer[f] \in EndpointsOf(m) /\ Neighbor(Peer[f]) = k
      BY <2>1, <3>3, NetClosed DEF Neighbor, EndpointsOf
    <3>5. Peer[f] \in node[m].children
      BY <1>1, <2>1, <3>2, <3>4, ChildrenAre
    <3> QED
      BY <3>4, <3>5 DEF ChildrenOf
  <2>12. ASSUME NEW m \in C
         PROVE  /\ {Neighbor(e) : e \in ChildrenOf(m)} = {k \in C : parent[k] = m}
                /\ \A e, f \in ChildrenOf(m) : Neighbor(e) = Neighbor(f) => e = f
    <3>1. {Neighbor(e) : e \in ChildrenOf(m)} = {k \in C : parent[k] = m}
      BY <2>10, <2>11
    <3>2. \A e \in ChildrenOf(m) : Peer[Peer[e]] = e
      BY <2>1, NetClosed DEF ChildrenOf, EndpointsOf
    <3>3. \A e, f \in ChildrenOf(m) : Neighbor(e) = Neighbor(f) => Peer[e] = Peer[f]
      BY <2>10
    <3> QED
      BY <3>1, <3>2, <3>3
  <2> QED
    BY <2>7, <2>8, <2>9, <2>12 DEF SessionBuilt
<1>2. IInv => \A n \in Connectors :
                (\A m \in Component(n) : node[m].phase = "done") =>
                   \A none : none \notin Connectors => SessionBuilt(n, none)
  BY <1>1
<1> QED
  BY <1>2, SpecIInv, PTL
-----------------------------------------------------------------------------
(* Early messages are kept *)

\* The numbers of S, each k greater.
LEMMA ShiftedSet ==
    ASSUME NEW S \in SUBSET Nat, IsFiniteSet(S), NEW k \in Nat
    PROVE  IsFiniteSet({i + k : i \in S}) /\ Cardinality({i + k : i \in S}) = Cardinality(S)
<1>1. PICK T : T = {i + k : i \in S}
  OBVIOUS
<1>2. PICK f : f = [i \in S |-> i + k]
  OBVIOUS
<1>3. f \in Bijection(S, T)
  <2>1. f \in [S -> T]
    BY <1>1, <1>2
  <2>2. \A i, j \in S : f[i] = f[j] => i = j
    BY <1>2
  <2>3. \A t \in T : \E i \in S : f[i] = t
    BY <1>1, <1>2
  <2> QED
    BY <2>1, <2>2, <2>3 DEF Bijection, Injection, Surjection, IsInjective
<1>4. ExistsBijection(S, T)
  BY <1>3 DEF ExistsBijection
<1> QED
  BY <1>1, <1>4, FS_Bijection

LEMMA OccurrencesOf ==
    ASSUME NEW M, NEW q \in Seq(M), NEW x
    PROVE  /\ IsFiniteSet({i \in DOMAIN q : q[i] = x})
           /\ {i \in DOMAIN q : q[i] = x} \in SUBSET Nat
           /\ Occurrences(q, x) \in Nat
<1>1. IsFiniteSet(1..Len(q))
  BY FS_Interval
<1>2. {i \in DOMAIN q : q[i] = x} \in SUBSET (1..Len(q))
  OBVIOUS
<1>3. IsFiniteSet({i \in DOMAIN q : q[i] = x})
  BY <1>1, <1>2, FS_Subset
<1> QED
  BY <1>2, <1>3, FS_CardinalityType DEF Occurrences

LEMMA OccurrencesNone ==
    \A x : Occurrences(<<>>, x) = 0
<1> SUFFICES ASSUME NEW x PROVE Occurrences(<<>>, x) = 0
  OBVIOUS
<1>1. {i \in DOMAIN <<>> : <<>>[i] = x} = {}
  OBVIOUS
<1> QED
  BY <1>1, FS_EmptySet DEF Occurrences

LEMMA OccurrencesAppend ==
    ASSUME NEW M, NEW q \in Seq(M), NEW m \in M, NEW x
    PROVE  Occurrences(Append(q, m), x) = Occurrences(q, x) + (IF m = x THEN 1 ELSE 0)
<1>1. PICK A : A = {i \in DOMAIN q : q[i] = x}
  OBVIOUS
<1>2. PICK B : B = {i \in DOMAIN Append(q, m) : Append(q, m)[i] = x}
  OBVIOUS
<1>3. /\ IsFiniteSet(A) /\ Occurrences(q, x) = Cardinality(A) /\ Cardinality(A) \in Nat
      /\ Occurrences(Append(q, m), x) = Cardinality(B)
  BY <1>1, <1>2, OccurrencesOf DEF Occurrences
<1>4. Len(q) + 1 \notin A /\ B = IF m = x THEN A \cup {Len(q) + 1} ELSE A
  BY <1>1, <1>2
<1>5. Cardinality(A \cup {Len(q) + 1}) = Cardinality(A) + 1
  BY <1>3, <1>4, FS_AddElement
<1> QED
  BY <1>3, <1>4, <1>5

LEMMA OccurrencesTail ==
    ASSUME NEW M, NEW q \in Seq(M), q # <<>>, NEW x
    PROVE  Occurrences(q, x) = Occurrences(Tail(q), x) + (IF Head(q) = x THEN 1 ELSE 0)
<1>1. PICK t \in Seq(M) : t = Tail(q)
  BY TailStream
<1>2. PICK A : A = {i \in DOMAIN q : q[i] = x}
  OBVIOUS
<1>3. PICK B : B = {i \in DOMAIN t : t[i] = x}
  OBVIOUS
<1>4. PICK C : C = {i + 1 : i \in B}
  OBVIOUS
<1>5. /\ IsFiniteSet(A) /\ Occurrences(q, x) = Cardinality(A)
      /\ IsFiniteSet(B) /\ B \in SUBSET Nat /\ Cardinality(B) \in Nat
      /\ Occurrences(t, x) = Cardinality(B)
  BY <1>2, <1>3, OccurrencesOf DEF Occurrences
<1>6. IsFiniteSet(C) /\ Cardinality(C) = Cardinality(B)
  BY <1>4, <1>5, ShiftedSet
<1>7. A = IF Head(q) = x THEN C \cup {1} ELSE C
  <2>1. /\ DOMAIN q = 1..Len(q) /\ DOMAIN t = 1..(Len(q) - 1) /\ Len(q) \in Nat /\ Len(q) >= 1
        /\ \A i \in 1..(Len(q) - 1) : t[i] = q[i + 1]
        /\ Head(q) = q[1]
    BY <1>1
  <2>2. \A i \in 1..Len(q) : i = 1 \/ (i - 1 \in 1..(Len(q) - 1) /\ (i - 1) + 1 = i)
    BY <2>1
  <2>3. \A i \in C : i \in 1..Len(q) /\ i # 1 /\ q[i] = x
    BY <1>3, <1>4, <2>1
  <2>4. \A i \in A : i # 1 => i \in C
    <3> SUFFICES ASSUME NEW i \in A, i # 1 PROVE i \in C
      OBVIOUS
    <3>1. i - 1 \in DOMAIN t /\ t[i - 1] = x /\ (i - 1) + 1 = i
      BY <1>2, <2>1, <2>2
    <3> QED
      BY <1>3, <1>4, <3>1
  <2> QED
    BY <1>2, <2>1, <2>3, <2>4
<1>8. 1 \notin C
  <2>1. \A i \in B : i \in Nat /\ i >= 1
    BY <1>3
  <2> QED
    BY <1>4, <2>1
<1>9. Cardinality(C \cup {1}) = Cardinality(C) + 1
  BY <1>6, <1>8, FS_AddElement
<1> QED
  BY <1>1, <1>5, <1>6, <1>7, <1>9

LEMMA OccurrencesConcat ==
    ASSUME NEW M, NEW p \in Seq(M), NEW q \in Seq(M), NEW x
    PROVE  Occurrences(p \o q, x) = Occurrences(p, x) + Occurrences(q, x)
<1>1. PICK A : A = {i \in DOMAIN p : p[i] = x}
  OBVIOUS
<1>2. PICK B : B = {i \in DOMAIN q : q[i] = x}
  OBVIOUS
<1>3. PICK k \in Nat : k = Len(p)
  OBVIOUS
<1>4. PICK C : C = {i + k : i \in B}
  OBVIOUS
<1>5. /\ IsFiniteSet(A) /\ Occurrences(p, x) = Cardinality(A) /\ Cardinality(A) \in Nat
      /\ IsFiniteSet(B) /\ B \in SUBSET Nat /\ Cardinality(B) \in Nat
      /\ Occurrences(q, x) = Cardinality(B)
  BY <1>1, <1>2, OccurrencesOf DEF Occurrences
<1>6. IsFiniteSet(C) /\ Cardinality(C) = Cardinality(B)
  BY <1>4, <1>5, ShiftedSet
<1>7. PICK D : D = {i \in DOMAIN (p \o q) : (p \o q)[i] = x}
  OBVIOUS
<1>8. PICK l \in Nat : l = Len(q)
  OBVIOUS
<1>9. PICK r : r = p \o q
  OBVIOUS
<1>10. /\ DOMAIN p = 1..k /\ DOMAIN q = 1..l /\ DOMAIN r = 1..(k + l)
       /\ \A i \in 1..k : r[i] = p[i]
       /\ \A i \in 1..l : r[i + k] = q[i]
  BY <1>3, <1>8, <1>9
<1>11. D = A \cup C
  <2>1. D = {i \in 1..(k + l) : r[i] = x}
    BY <1>7, <1>9, <1>10
  <2>2. A \cup C \subseteq D
    BY <1>1, <1>2, <1>4, <1>10, <2>1
  <2>3. ASSUME NEW i \in D
        PROVE  i \in A \cup C
    <3>1. CASE i <= k
      BY <1>1, <1>10, <2>1, <3>1
    <3>2. CASE i > k
      <4>1. i - k \in 1..l /\ (i - k) + k = i
        BY <2>1, <3>2
      <4>2. q[i - k] = x
        BY <1>10, <2>1, <4>1
      <4>3. i - k \in B
        BY <1>2, <1>10, <4>1, <4>2
      <4> QED
        BY <1>4, <4>1, <4>3
    <3> QED
      BY <2>1, <3>1, <3>2
  <2> QED
    BY <2>2, <2>3
<1>12. A \cap C = {}
  <2>1. \A i \in A : i <= k
    BY <1>1, <1>10
  <2>2. \A i \in B : i \in Nat /\ i >= 1
    BY <1>2, <1>10
  <2>3. \A i \in C : i > k /\ i \in Nat
    BY <1>4, <2>2
  <2> QED
    BY <2>1, <2>3
<1>13. Cardinality(A \cup C) = Cardinality(A) + Cardinality(C)
  <2>1. Cardinality(A \cup C) = Cardinality(A) + Cardinality(C) - Cardinality(A \cap C)
    BY <1>5, <1>6, FS_Union
  <2>2. Cardinality(A \cap C) = 0
    BY <1>12, FS_EmptySet
  <2> QED
    BY <1>5, <1>6, <2>1, <2>2
<1> QED
  BY <1>5, <1>6, <1>7, <1>11, <1>13 DEF Occurrences

LEMMA OccurrencesFront ==
    ASSUME NEW M, NEW q \in Seq(M), q # <<>>, NEW x
    PROVE  /\ Front(q) \in Seq(M) /\ Last(q) \in M
           /\ Occurrences(q, x) = Occurrences(Front(q), x) + (IF Last(q) = x THEN 1 ELSE 0)
<1>1. Len(q) \in Nat /\ Len(q) >= 1 /\ q[Len(q)] \in M /\ Last(q) = q[Len(q)]
  BY DEF Last
<1>2. Front(q) \in Seq(M) /\ Len(Front(q)) = Len(q) - 1
      /\ \A i \in 1..(Len(q) - 1) : Front(q)[i] = q[i]
  <2>1. PICK k \in Nat : k = Len(q) - 1
    BY <1>1
  <2>2. k <= Len(q) /\ \A i \in 1..k : q[i] \in M
    BY <1>1, <2>1
  <2>3. Front(q) = SubSeq(q, 1, k)
    BY <2>1 DEF Front
  <2>4. SubSeq(q, 1, k) \in Seq(M) /\ Len(SubSeq(q, 1, k)) = k
        /\ \A i \in 1..k : SubSeq(q, 1, k)[i] = q[i]
    BY <2>1, <2>2
  <2> QED
    BY <2>1, <2>3, <2>4
<1>3. PICK f \in Seq(M) : f = Front(q)
  BY <1>2
<1>4. PICK z \in M : z = Last(q)
  BY <1>1
<1>5. q = Append(f, z)
  BY <1>1, <1>2, <1>3, <1>4
<1>6. Occurrences(Append(f, z), x) = Occurrences(f, x) + (IF z = x THEN 1 ELSE 0)
  BY OccurrencesAppend
<1> QED
  BY <1>1, <1>2, <1>3, <1>4, <1>5, <1>6
-----------------------------------------------------------------------------
Early == Endpoints \X {CommMsg}

\* The CommMsgs of endpoint e that a connector with locals `rec` has put aside.
Aside(rec, e) == Occurrences(rec.delayed, <<e, CommMsg>>) + Occurrences(rec.undelayed, <<e, CommMsg>>)

SameAside(rec, new) == \A e \in Endpoints : Aside(new, e) = Aside(rec, e)

\* As many CommMsgs are on their way in the streams `ch` as in `chan`.
SameComm(ch) == \A e \in Endpoints : Occurrences(ch[e], CommMsg) = Occurrences(chan[e], CommMsg)

CommFree(out) == \A f \in DOMAIN out : out[f] \in Msg /\ out[f] # CommMsg

LEMMA CommSendsKeep ==
    ASSUME NEW ch \in [Endpoints -> Seq(Msg)], SameComm(ch), NEW out, CommFree(out),
           NEW D \in SUBSET DOMAIN out, chan' = StreamsOver(ch, D, out)
    PROVE  SameComm(chan')
<1> SUFFICES ASSUME NEW e \in Endpoints
             PROVE  Occurrences(chan'[e], CommMsg) = Occurrences(ch[e], CommMsg)
  BY DEF SameComm
<1>1. CASE Peer[e] \in D
  <2>1. PICK q \in Seq(Msg) : q = ch[e]
    OBVIOUS
  <2>2. PICK m \in Msg : m = out[Peer[e]] /\ m # CommMsg
    BY <1>1 DEF CommFree
  <2>3. chan'[e] = Append(q, m)
    BY <1>1, <2>1, <2>2 DEF StreamsOver
  <2>4. Occurrences(Append(q, m), CommMsg) = Occurrences(q, CommMsg) + 0
    BY <2>2, OccurrencesAppend
  <2>5. Occurrences(q, CommMsg) \in Nat
    BY OccurrencesOf
  <2> QED
    BY <2>1, <2>3, <2>4, <2>5
<1>2. CASE Peer[e] \notin D
  BY <1>2 DEF StreamsOver
<1> QED
  BY <1>1, <1>2

LEMMA CommTaken ==
    ASSUME TypeOK, NEW e \in Endpoints, chan[e] # <<>>, Head(chan[e]) # CommMsg
    PROVE  Without(e) \in [Endpoints -> Seq(Msg)] /\ SameComm(Without(e))
<1>1. PICK q \in Seq(Msg) : q = chan[e]
  BY DEF TypeOK
<1>2. PICK t \in Seq(Msg) : t = Tail(q)
  BY <1>1, TailStream
<1>3. Without(e) = [chan EXCEPT ![e] = t]
  BY <1>1, <1>2 DEF Without
<1>4. Without(e) \in [Endpoints -> Seq(Msg)] /\ Without(e)[e] = t
      /\ \A x \in Endpoints : x # e => Without(e)[x] = chan[x]
  BY <1>3 DEF TypeOK
<1>5. Occurrences(q, CommMsg) = Occurrences(t, CommMsg) + 0
  BY <1>1, <1>2, OccurrencesTail
<1>6. Occurrences(t, CommMsg) \in Nat
  BY OccurrencesOf
<1> QED
  BY <1>1, <1>4, <1>5, <1>6 DEF SameComm

\* A step of n that neither sends nor takes a CommMsg.
LEMMA CommQuiet ==
    ASSUME TypeOK, TypeOK', CommMsgsKept, NEW n \in Connectors, NEW rec,
           node' = [node EXCEPT ![n] = rec], commSent' = commSent, SameComm(chan'),
           Failed(n)' \/ (~Failed(n) /\ SameAside(node[n], rec))
    PROVE  CommMsgsKept'
<1>1. node'[n] = rec /\ \A x \in Connectors : x # n => node'[x] = node[x]
  BY DEF TypeOK
<1> SUFFICES ASSUME NEW e \in Endpoints, ~Failed(Owner[e])'
             PROVE  commSent[Peer[e]] = Occurrences(chan'[e], CommMsg)
                       + Occurrences(node'[Owner[e]].delayed, <<e, CommMsg>>)
                       + Occurrences(node'[Owner[e]].undelayed, <<e, CommMsg>>)
  BY DEF CommMsgsKept
<1>2. Owner[e] \in Connectors
  BY OwnerAssumption
<1>3. ~Failed(Owner[e])
  BY <1>1, <1>2 DEF Failed
<1>4. commSent[Peer[e]] = Occurrences(chan[e], CommMsg)
                       + Occurrences(node[Owner[e]].delayed, <<e, CommMsg>>)
                       + Occurrences(node[Owner[e]].undelayed, <<e, CommMsg>>)
  BY <1>3 DEF CommMsgsKept
<1>5. Occurrences(chan'[e], CommMsg) = Occurrences(chan[e], CommMsg)
  BY DEF SameComm
<1>6. CASE Owner[e] # n
  BY <1>1, <1>2, <1>4, <1>5, <1>6
<1>7. CASE Owner[e] = n
  <2>1. Aside(rec, e) = Aside(node[n], e)
    BY <1>7 DEF SameAside
  <2>2. /\ node[n].delayed \in Seq(Endpoints \X Msg) /\ node[n].undelayed \in Seq(Endpoints \X Msg)
        /\ rec.delayed \in Seq(Endpoints \X Msg) /\ rec.undelayed \in Seq(Endpoints \X Msg)
        /\ chan[e] \in Seq(Msg)
    BY <1>1 DEF TypeOK, Node
  <2>3. PICK c \in Nat : c = Occurrences(chan[e], CommMsg)
    BY <2>2, OccurrencesOf
  <2>4. PICK d \in Nat : d = Occurrences(node[n].delayed, <<e, CommMsg>>)
    BY <2>2, OccurrencesOf
  <2>5. PICK u \in Nat : u = Occurrences(node[n].undelayed, <<e, CommMsg>>)
    BY <2>2, OccurrencesOf
  <2>6. PICK d1 \in Nat : d1 = Occurrences(rec.delayed, <<e, CommMsg>>)
    BY <2>2, OccurrencesOf
  <2>7. PICK u1 \in Nat : u1 = Occurrences(rec.undelayed, <<e, CommMsg>>)
    BY <2>2, OccurrencesOf
  <2>8. d + u = d1 + u1 /\ commSent[Peer[e]] = c + d + u
    BY <1>4, <1>7, <2>1, <2>3, <2>4, <2>5, <2>6, <2>7 DEF Aside
  <2>9. commSent[Peer[e]] = c + d1 + u1
    BY <2>8
  <2> QED
    BY <1>1, <1>5, <1>7, <2>3, <2>6, <2>7, <2>9
<1> QED
  BY <1>6, <1>7

\* A handler that sends `out` and leaves n in state `new`.
LEMMA ProceedKeeps ==
    ASSUME TypeOK, TypeOK', CommMsgsKept, NEW n \in Connectors, ~Failed(n), commSent' = commSent,
           NEW ch \in [Endpoints -> Seq(Msg)], SameComm(ch), NEW out, CommFree(out),
           NEW new, SameAside(node[n], new), Proceed(n, ch, out, new)
    PROVE  CommMsgsKept'
<1>1. PICK D \in SUBSET DOMAIN out :
        /\ chan' = StreamsOver(ch, D, out)
        /\ \/ node' = [node EXCEPT ![n] = new]
           \/ node' = [node EXCEPT ![n].phase = "broken"]
  BY ProceedForm
<1>2. SameComm(chan')
  BY <1>1, CommSendsKeep
<1>3. CASE node' = [node EXCEPT ![n] = new]
  BY <1>2, <1>3, CommQuiet
<1>4. CASE node' = [node EXCEPT ![n].phase = "broken"]
  <2>1. node' = [node EXCEPT ![n] = Broken(n)]
    BY <1>4 DEF Broken
  <2>2. node[n] \in Node /\ node'[n] = Broken(n)
    BY <2>1 DEF TypeOK
  <2>3. Failed(n)'
    BY <2>2 DEF Broken, Failed, Node
  <2> QED
    BY <1>2, <2>1, <2>3, CommQuiet
<1> QED
  BY <1>1, <1>3, <1>4

LEMMA UndelayKeeps ==
    ASSUME NEW r, Fit(r)
    PROVE  SameAside(r, UndelayAll(r))
<1> SUFFICES ASSUME NEW e \in Endpoints
             PROVE  Aside(UndelayAll(r), e) = Aside(r, e)
  BY DEF SameAside
<1>1. PICK d \in Seq(Early) : d = r.delayed
  BY DEF Fit, Early
<1>2. PICK u \in Seq(Early) : u = r.undelayed
  BY DEF Fit, Early
<1>3. UndelayAll(r).undelayed = u \o d /\ UndelayAll(r).delayed = <<>>
  BY <1>1, <1>2 DEF UndelayAll, Fit, Node
<1>4. PICK x : x = <<e, CommMsg>>
  OBVIOUS
<1>5. Occurrences(u \o d, x) = Occurrences(u, x) + Occurrences(d, x)
  BY OccurrencesConcat
<1>6. Occurrences(u, x) \in Nat /\ Occurrences(d, x) \in Nat
  BY OccurrencesOf
<1>7. Occurrences(<<>>, x) = 0
  BY OccurrencesNone
<1> QED
  BY <1>1, <1>2, <1>3, <1>4, <1>5, <1>6, <1>7 DEF Aside

LEMMA StartTreeKeeps ==
    ASSUME TypeOK, TypeOK', CommMsgsKept, NEW n \in Connectors, ~Failed(n), commSent' = commSent,
           NEW rec, Fit(rec), SameAside(node[n], rec),
           NEW ch \in [Endpoints -> Seq(Msg)], SameComm(ch), NEW l \in Connectors,
           NEW d \in Endpoints \cup {NoEndpoint}, StartTree(n, rec, ch, l, d)
    PROVE  CommMsgsKept'
<1>1. PICK w : w = EndpointsOf(n) \ {d}
  OBVIOUS
<1>2. PICK out : out = [f \in EndpointsOf(n) |-> IF f = d THEN YouAreMyParent ELSE LeaderAnnounce(l)]
  OBVIOUS
<1>3. PICK r : r = [rec EXCEPT !.phase = IF w = {} THEN "done" ELSE "tree",
                                !.leader = l, !.parent = d, !.awaiting = w, !.children = {}]
  OBVIOUS
<1>4. Proceed(n, ch, out, UndelayAll(r))
  BY <1>1, <1>2, <1>3 DEF StartTree
<1>5. w \in SUBSET Endpoints
  BY <1>1, NetClosed DEF EndpointsOf
<1>6. Fit(r) /\ r.delayed = rec.delayed /\ r.undelayed = rec.undelayed
  BY <1>3, <1>5 DEF Fit, Node, Phases
<1>7. SameAside(node[n], UndelayAll(r))
  BY <1>6, UndelayKeeps DEF SameAside, Aside
<1>8. CommFree(out)
  BY <1>2, Messages DEF CommFree
<1> QED
  BY <1>4, <1>7, <1>8, ProceedKeeps

LEMMA BeginKeeps ==
    ASSUME TypeOK, OnlyCommDelayed, TypeOK', CommMsgsKept, NEW n \in Connectors, Begin(n)
    PROVE  CommMsgsKept'
<1>1. Fit(node[n]) /\ node[n].phase = "pairing" /\ ~Failed(n) /\ commSent' = commSent /\ node[n] \in Node
  BY BrokenFits DEF Begin, Failed, TypeOK
<1>2. SameComm(chan) /\ chan \in [Endpoints -> Seq(Msg)]
  BY DEF SameComm, TypeOK
<1>3. CASE EndpointsOf(n) = {}
  <2>1. PICK rec : rec = [node[n] EXCEPT !.phase = "done"]
    OBVIOUS
  <2>2. chan' = chan /\ node' = [node EXCEPT ![n] = rec]
    BY <1>3, <2>1 DEF Begin
  <2>3. SameAside(node[n], rec)
    BY <1>1, <2>1 DEF SameAside, Aside, Node
  <2> QED
    BY <1>1, <1>2, <2>2, <2>3, CommQuiet
<1>4. CASE EndpointsOf(n) # {}
  <2>1. PICK out : out = Wave(n, n, NoEndpoint)
    OBVIOUS
  <2>2. PICK r : r = [node[n] EXCEPT !.phase = "election", !.awaiting = EndpointsOf(n)]
    OBVIOUS
  <2>3. Proceed(n, chan, out, UndelayAll(r))
    BY <1>4, <2>1, <2>2 DEF Begin
  <2>4. EndpointsOf(n) \in SUBSET Endpoints
    BY NetClosed DEF EndpointsOf
  <2>5. Fit(r) /\ r.delayed = node[n].delayed /\ r.undelayed = node[n].undelayed
    BY <1>1, <2>2, <2>4 DEF Fit, Node, Phases
  <2>6. SameAside(node[n], UndelayAll(r))
    BY <2>5, UndelayKeeps DEF SameAside, Aside
  <2>7. CommFree(out)
    BY <2>1, Messages DEF CommFree, Wave
  <2> QED
    BY <1>1, <1>2, <2>3, <2>6, <2>7, ProceedKeeps
<1> QED
  BY <1>3, <1>4

\* A handler that changes the locals of n, but not the messages put aside.
LEMMA LocalKeeps ==
    ASSUME TypeOK, TypeOK', CommMsgsKept, NEW n \in Connectors, ~Failed(n), commSent' = commSent,
           SameComm(chan'), NEW rec, node' = [node EXCEPT ![n] = rec],
           rec.delayed = node[n].delayed, rec.undelayed = node[n].undelayed
    PROVE  CommMsgsKept'
<1>1. SameAside(node[n], rec)
  BY DEF SameAside, Aside
<1> QED
  BY <1>1, CommQuiet

\* Handling the next message of a stream, when it is not a CommMsg.
LEMMA HandlersKeep ==
    ASSUME TypeOK, OnlyCommDelayed, TypeOK', CommMsgsKept, NEW n \in Connectors,
           node[n].phase \in {"election", "tree"}, NEW e, NEW m, Takes(n, e, m), m.type # "CommMsg",
           \/ ElectionAnnounce(n, e, m) \/ IgnoreWave(n, e, m) \/ JoinWave(n, e, m)
           \/ CountReply(n, e, m) \/ TreeAnnounce(n, e, m) \/ ChildMsg(n, e, m)
    PROVE  CommMsgsKept'
<1>1. /\ m \in Msg /\ e \in Endpoints /\ NodeAfter(n) = node[n] /\ ChanAfter(n, e) = Without(e)
      /\ chan[e] # <<>> /\ m = Head(chan[e])
  BY TakesFacts DEF Takes
<1>2. m # CommMsg
  BY Messages
<1>3. Without(e) \in [Endpoints -> Seq(Msg)] /\ SameComm(Without(e)) /\ SameComm(chan)
  BY <1>1, <1>2, CommTaken DEF SameComm
<1>4. ~Failed(n) /\ Fit(node[n]) /\ node[n] \in Node /\ commSent' = commSent
  BY BrokenFits DEF Failed, Fit, ElectionAnnounce, IgnoreWave, JoinWave, CountReply, TreeAnnounce,
                    ChildMsg
<1>5. ASSUME NEW phase, phase \in {"panic", "misbehavior"},
             node' = [node EXCEPT ![n] = [node[n] EXCEPT !.phase = phase]], SameComm(chan')
      PROVE  CommMsgsKept'
  <2>1. PICK rec : rec = [node[n] EXCEPT !.phase = phase]
    OBVIOUS
  <2>2. rec.delayed = node[n].delayed /\ rec.undelayed = node[n].undelayed
    BY <1>4, <2>1 DEF Node
  <2> QED
    BY <1>4, <1>5, <2>1, <2>2, LocalKeeps
<1>6. CASE ElectionAnnounce(n, e, m)
  <2>1. CASE m.leader >= node[n].leader /\ m.leader # n
    <3>1. StartTree(n, node[n], Without(e), m.leader, e)
      BY <1>1, <1>6, <2>1 DEF ElectionAnnounce
    <3>2. m.leader \in Connectors
      BY <1>1, <1>6, MessageKinds DEF ElectionAnnounce
    <3>3. SameAside(node[n], node[n])
      BY DEF SameAside
    <3> QED
      BY <1>1, <1>3, <1>4, <3>1, <3>2, <3>3, StartTreeKeeps
  <2>2. CASE ~(m.leader >= node[n].leader /\ m.leader # n)
    <3>1. node' = [node EXCEPT ![n] = [node[n] EXCEPT !.phase = "panic"]] /\ chan' = chan
      BY <1>6, <2>2 DEF ElectionAnnounce
    <3> QED
      BY <1>3, <1>5, <3>1
  <2> QED
    BY <2>1, <2>2
<1>7. CASE IgnoreWave(n, e, m)
  <2>1. chan' = Without(e) /\ node' = [node EXCEPT ![n] = node[n]]
    BY <1>1, <1>7 DEF IgnoreWave
  <2> QED
    BY <1>3, <1>4, <2>1, LocalKeeps
<1>8. CASE JoinWave(n, e, m)
  <2>1. PICK w : w = EndpointsOf(n) \ {e}
    OBVIOUS
  <2>2. PICK out : out = IF w = {} THEN [f \in {e} |-> m] ELSE Wave(n, m.leader, e)
    OBVIOUS
  <2>3. PICK new : new = [node[n] EXCEPT !.leader = m.leader, !.parent = e, !.awaiting = w]
    OBVIOUS
  <2>4. Proceed(n, Without(e), out, new) /\ m.type = "LeaderWave"
    BY <1>1, <1>8, <2>1, <2>2, <2>3 DEF JoinWave
  <2>5. CommFree(out)
    <3>1. m.leader \in Connectors
      BY <1>1, <2>4, MessageKinds
    <3>2. CommFree([f \in {e} |-> m])
      BY <1>1, <1>2 DEF CommFree
    <3>3. CommFree(Wave(n, m.leader, e))
      BY <3>1, Messages DEF CommFree, Wave
    <3> QED
      BY <2>2, <3>2, <3>3
  <2>6. SameAside(node[n], new)
    BY <1>4, <2>3 DEF SameAside, Aside, Node
  <2> QED
    BY <1>3, <1>4, <2>4, <2>5, <2>6, ProceedKeeps
<1>9. CASE CountReply(n, e, m)
  <2>1. CASE e \notin node[n].awaiting
    <3>1. node' = [node EXCEPT ![n] = [node[n] EXCEPT !.phase = "panic"]] /\ chan' = chan
      BY <1>9, <2>1 DEF CountReply
    <3> QED
      BY <1>3, <1>5, <3>1
  <2>2. CASE e \in node[n].awaiting
    <3>1. PICK rec : rec = [node[n] EXCEPT !.awaiting = node[n].awaiting \ {e}]
      OBVIOUS
    <3>2. Fit(rec) /\ rec.delayed = node[n].delayed /\ rec.undelayed = node[n].undelayed
      BY <1>4, <3>1 DEF Fit, Node
    <3>3. SameAside(node[n], rec)
      BY <3>2 DEF SameAside, Aside
    <3>4. \/ chan' = Without(e) /\ node' = [node EXCEPT ![n] = rec]
          \/ /\ node[n].parent # NoEndpoint
             /\ Proceed(n, Without(e), [f \in {node[n].parent} |-> m], rec)
          \/ StartTree(n, rec, Without(e), node[n].leader, NoEndpoint)
      BY <1>1, <1>9, <2>2, <3>1 DEF CountReply
    <3>5. CASE chan' = Without(e) /\ node' = [node EXCEPT ![n] = rec]
      BY <1>3, <1>4, <3>2, <3>5, LocalKeeps
    <3>6. CASE Proceed(n, Without(e), [f \in {node[n].parent} |-> m], rec)
      <4>1. PICK out : out = [f \in {node[n].parent} |-> m]
        OBVIOUS
      <4>2. CommFree(out)
        BY <1>1, <1>2, <4>1 DEF CommFree
      <4> QED
        BY <1>3, <1>4, <3>3, <3>6, <4>1, <4>2, ProceedKeeps
    <3>7. CASE StartTree(n, rec, Without(e), node[n].leader, NoEndpoint)
      <4>1. node[n].leader \in Connectors
        BY <1>4 DEF Node
      <4> QED
        BY <1>3, <1>4, <3>2, <3>3, <3>7, <4>1, StartTreeKeeps
    <3> QED
      BY <3>4, <3>5, <3>6, <3>7
  <2> QED
    BY <2>1, <2>2
<1>10. CASE TreeAnnounce(n, e, m) \/ ChildMsg(n, e, m)
  <2>1. PICK done : done = Answered(n, e)
    OBVIOUS
  <2>2. done \in Node /\ done.delayed = node[n].delayed /\ done.undelayed = node[n].undelayed
    <3>1. PICK rec : rec = [node[n] EXCEPT !.awaiting = @ \ {e}]
      OBVIOUS
    <3>2. rec \in Node /\ rec.delayed = node[n].delayed /\ rec.undelayed = node[n].undelayed
      BY <1>4, <3>1 DEF Node
    <3>3. done = IF rec.awaiting = {} THEN [rec EXCEPT !.phase = "done"] ELSE rec
      BY <1>1, <2>1, <3>1 DEF Answered
    <3> QED
      BY <3>2, <3>3 DEF Node, Phases
  <2>3. PICK child : child = [done EXCEPT !.children = @ \cup {e}]
    OBVIOUS
  <2>4. child.delayed = node[n].delayed /\ child.undelayed = node[n].undelayed
    BY <2>2, <2>3 DEF Node
  <2>5. /\ chan' = Without(e)
        /\ \/ node' = [node EXCEPT ![n] = done]
           \/ node' = [node EXCEPT ![n] = child]
           \/ node' = [node EXCEPT ![n] = [node[n] EXCEPT !.phase = "misbehavior"]]
    BY <1>1, <1>10, <2>1, <2>3 DEF TreeAnnounce, ChildMsg
  <2>6. CASE node' = [node EXCEPT ![n] = done]
    BY <1>3, <1>4, <2>2, <2>5, <2>6, LocalKeeps
  <2>7. CASE node' = [node EXCEPT ![n] = child]
    BY <1>3, <1>4, <2>4, <2>5, <2>7, LocalKeeps
  <2>8. CASE node' = [node EXCEPT ![n] = [node[n] EXCEPT !.phase = "misbehavior"]]
    BY <1>3, <1>5, <2>5, <2>8
  <2> QED
    BY <2>5, <2>6, <2>7, <2>8
<1> QED
  BY <1>6, <1>7, <1>8, <1>9, <1>10

\* Messages other than CommMsgs come from the streams.
LEMMA NotCommTakes ==
    ASSUME OnlyCommDelayed, NEW n \in Connectors, NEW em \in Incoming(n), session' = session,
           em[2].type # "CommMsg"
    PROVE  Takes(n, em[1], em[2])
<1>1. node[n].undelayed = <<>>
  <2> SUFFICES ASSUME node[n].undelayed # <<>> PROVE FALSE
    OBVIOUS
  <2>1. PICK q \in Seq(Endpoints \X {CommMsg}) : q = node[n].undelayed
    BY DEF OnlyCommDelayed
  <2>2. em = q[Len(q)] /\ Len(q) \in DOMAIN q
    BY <2>1 DEF Incoming, Last
  <2>3. em \in Endpoints \X {CommMsg}
    BY <2>2
  <2> QED
    BY <2>3, Messages
<1>2. PICK f \in EndpointsOf(n) : em = <<f, Head(chan[f])>> /\ chan[f] # <<>>
  BY <1>1 DEF Incoming
<1> QED
  BY <1>1, <1>2 DEF Takes

\* A CommMsg that arrives early moves from the stream, or from the messages
\* already put aside, to the end of the delayed ones.
LEMMA DelayCommKeeps ==
    ASSUME TypeOK, OnlyCommDelayed, TypeOK', CommMsgsKept, NEW n \in Connectors,
           node[n].phase \in {"election", "tree"}, NEW em \in Incoming(n), DelayComm(n, em[1], em[2])
    PROVE  CommMsgsKept'
<1>1. /\ Fit(node[n]) /\ node[n] \in Node /\ ~Failed(n) /\ commSent' = commSent
      /\ node[n].delayed \in Seq(Early) /\ node[n].undelayed \in Seq(Early)
  BY BrokenFits DEF Failed, Fit, DelayComm, Early
<1>2. PICK d \in Seq(Early) : d = node[n].delayed
  BY <1>1
<1>3. PICK u \in Seq(Early) : u = node[n].undelayed
  BY <1>1
<1>4. em[2].type = "CommMsg" /\ chan' = ChanAfter(n, em[1])
      /\ node' = [node EXCEPT ![n] = [NodeAfter(n) EXCEPT !.delayed = Append(@, <<em[1], em[2]>>)]]
  BY DEF DelayComm
<1>5. CASE u # <<>>
  <2>1. em = Last(u)
    BY <1>3, <1>5 DEF Incoming
  <2>2. PICK front \in Seq(Early) : front = Front(u)
    BY <1>5, OccurrencesFront
  <2>3. PICK z \in Early : z = Last(u) /\ z = em /\ z = <<em[1], em[2]>>
    <3>1. Last(u) \in Early
      BY <1>5, OccurrencesFront
    <3>2. Last(u) = <<Last(u)[1], Last(u)[2]>>
      BY <3>1 DEF Early
    <3> QED
      BY <2>1, <3>1, <3>2
  <2>4. PICK rec : rec = [node[n] EXCEPT !.undelayed = front, !.delayed = Append(d, z)]
    OBVIOUS
  <2>5. chan' = chan /\ node' = [node EXCEPT ![n] = rec]
    BY <1>1, <1>2, <1>3, <1>4, <1>5, <2>2, <2>3, <2>4 DEF ChanAfter, NodeAfter, Node
  <2>6. rec.undelayed = front /\ rec.delayed = Append(d, z)
    BY <1>1, <2>4 DEF Node
  <2>7. SameAside(node[n], rec)
    <3> SUFFICES ASSUME NEW e \in Endpoints PROVE Aside(rec, e) = Aside(node[n], e)
      BY DEF SameAside
    <3>1. PICK x : x = <<e, CommMsg>>
      OBVIOUS
    <3>2. /\ Occurrences(u, x) = Occurrences(front, x) + (IF z = x THEN 1 ELSE 0)
          /\ Occurrences(Append(d, z), x) = Occurrences(d, x) + (IF z = x THEN 1 ELSE 0)
      <4>1. Occurrences(u, x) = Occurrences(front, x) + (IF z = x THEN 1 ELSE 0)
        <5>1. Occurrences(u, x) = Occurrences(Front(u), x) + (IF Last(u) = x THEN 1 ELSE 0)
          BY <1>5, OccurrencesFront
        <5> QED
          BY <2>2, <2>3, <5>1
      <4>2. Occurrences(Append(d, z), x) = Occurrences(d, x) + (IF z = x THEN 1 ELSE 0)
        BY OccurrencesAppend
      <4> QED
        BY <4>1, <4>2
    <3>3. Occurrences(front, x) \in Nat /\ Occurrences(d, x) \in Nat
      BY OccurrencesOf
    <3> QED
      BY <1>2, <1>3, <2>6, <3>1, <3>2, <3>3 DEF Aside
  <2>8. SameComm(chan')
    BY <2>5 DEF SameComm
  <2> QED
    BY <1>1, <2>5, <2>7, <2>8, CommQuiet
<1>6. CASE u = <<>>
  <2>1. PICK e \in EndpointsOf(n) : em = <<e, Head(chan[e])>> /\ chan[e] # <<>>
    BY <1>3, <1>6 DEF Incoming
  <2>2. e \in Endpoints /\ Owner[e] = n
    BY NetClosed DEF EndpointsOf
  <2>3. PICK q \in Seq(Msg) : q = chan[e] /\ q # <<>>
    BY <2>1, <2>2 DEF TypeOK
  <2>4. PICK t \in Seq(Msg) : t = Tail(q)
    BY <2>3, TailStream
  <2>5. Head(q) = CommMsg /\ em = <<e, CommMsg>>
    <3>1. Head(q) \in Msg /\ em[2] = Head(q)
      BY <2>1, <2>3, TailStream
    <3>2. Head(q) = CommMsg
      BY <1>4, <3>1, MessageKinds
    <3> QED
      BY <2>1, <2>3, <3>2
  <2>6. PICK z \in Early : z = <<e, CommMsg>>
    BY <2>2 DEF Early
  <2>7. /\ chan' = [chan EXCEPT ![e] = t]
        /\ node' = [node EXCEPT ![n] = [node[n] EXCEPT !.delayed = Append(d, z)]]
    BY <1>1, <1>2, <1>3, <1>4, <1>6, <2>3, <2>4, <2>5, <2>6 DEF ChanAfter, NodeAfter, Node
  <2>8. PICK rec : rec = [node[n] EXCEPT !.delayed = Append(d, z)]
    OBVIOUS
  <2>9. /\ node'[n] = rec /\ rec.delayed = Append(d, z) /\ rec.undelayed = u
        /\ \A x \in Connectors : x # n => node'[x] = node[x]
        /\ chan'[e] = t /\ \A x \in Endpoints : x # e => chan'[x] = chan[x]
    BY <1>1, <1>3, <2>2, <2>7, <2>8 DEF TypeOK, Node
  <2> SUFFICES ASSUME NEW f \in Endpoints, ~Failed(Owner[f])'
               PROVE  commSent[Peer[f]] = Occurrences(chan'[f], CommMsg)
                         + Occurrences(node'[Owner[f]].delayed, <<f, CommMsg>>)
                         + Occurrences(node'[Owner[f]].undelayed, <<f, CommMsg>>)
    BY <1>1 DEF CommMsgsKept
  <2>10. ~Failed(Owner[f]) /\ Owner[f] \in Connectors
    BY <1>1, <2>9, OwnerAssumption DEF Failed
  <2>11. commSent[Peer[f]] = Occurrences(chan[f], CommMsg)
                         + Occurrences(node[Owner[f]].delayed, <<f, CommMsg>>)
                         + Occurrences(node[Owner[f]].undelayed, <<f, CommMsg>>)
    BY <2>10 DEF CommMsgsKept
  <2>12. PICK x : x = <<f, CommMsg>>
    OBVIOUS
  <2>13. Occurrences(Append(d, z), x) = Occurrences(d, x) + (IF z = x THEN 1 ELSE 0)
    BY OccurrencesAppend
  <2>14. Occurrences(q, CommMsg) = Occurrences(t, CommMsg) + 1
    BY <2>3, <2>4, <2>5, OccurrencesTail
  <2>15. /\ Occurrences(t, CommMsg) \in Nat /\ Occurrences(d, x) \in Nat /\ Occurrences(u, x) \in Nat
    BY OccurrencesOf
  <2>16. CASE f = e
    <3>1. z = x
      BY <2>6, <2>12, <2>16
    <3>2. commSent[Peer[f]] = Occurrences(q, CommMsg) + Occurrences(d, x) + Occurrences(u, x)
      BY <1>2, <1>3, <2>2, <2>3, <2>11, <2>12, <2>16
    <3>3. commSent[Peer[f]] = Occurrences(t, CommMsg) + Occurrences(Append(d, z), x) + Occurrences(u, x)
      BY <2>13, <2>14, <2>15, <3>1, <3>2
    <3> QED
      BY <2>2, <2>9, <2>12, <2>16, <3>3
  <2>17. CASE f # e
    <3>1. z # x
      BY <2>6, <2>12, <2>17
    <3>2. Occurrences(Append(d, z), x) = Occurrences(d, x)
      BY <2>13, <2>15, <3>1
    <3>3. CASE Owner[f] = n
      BY <1>2, <1>3, <2>9, <2>11, <2>12, <2>17, <3>2, <3>3
    <3>4. CASE Owner[f] # n
      BY <2>9, <2>10, <2>11, <2>17, <3>4
    <3> QED
      BY <3>3, <3>4
  <2> QED
    BY <2>16, <2>17
<1> QED
  BY <1>5, <1>6

LEMMA SendCommKeeps ==
    ASSUME TypeOK, CommMsgsKept, NEW n \in Connectors, SendComm(n)
    PROVE  CommMsgsKept'
<1>1. PICK f \in EndpointsOf(n) :
         /\ commSent' = [commSent EXCEPT ![f] = @ + 1]
         /\ chan' = [chan EXCEPT ![Peer[f]] = Append(@, CommMsg)]
  BY DEF SendComm
<1>2. node' = node /\ f \in Endpoints /\ Peer[f] \in Endpoints /\ Peer[Peer[f]] = f
  BY NetClosed, PeerAssumption DEF SendComm, EndpointsOf
<1> SUFFICES ASSUME NEW e \in Endpoints, ~Failed(Owner[e])
             PROVE  commSent'[Peer[e]] = Occurrences(chan'[e], CommMsg)
                       + Occurrences(node[Owner[e]].delayed, <<e, CommMsg>>)
                       + Occurrences(node[Owner[e]].undelayed, <<e, CommMsg>>)
  BY <1>2 DEF CommMsgsKept, Failed
<1>3. commSent[Peer[e]] = Occurrences(chan[e], CommMsg)
                       + Occurrences(node[Owner[e]].delayed, <<e, CommMsg>>)
                       + Occurrences(node[Owner[e]].undelayed, <<e, CommMsg>>)
  BY DEF CommMsgsKept
<1>4. PICK q \in Seq(Msg) : q = chan[e]
  BY DEF TypeOK
<1>5. PICK m \in Msg : m = CommMsg
  BY Messages
<1>6. Peer[e] \in Endpoints /\ Peer[Peer[e]] = e
  BY PeerAssumption
<1>7. CASE e = Peer[f]
  <2>1. Peer[e] = f
    BY <1>2, <1>7
  <2>2. chan'[e] = Append(q, m) /\ commSent'[f] = commSent[f] + 1
    BY <1>1, <1>2, <1>4, <1>5, <1>7 DEF TypeOK
  <2>3. Occurrences(Append(q, m), CommMsg) = Occurrences(q, CommMsg) + 1
    BY <1>5, OccurrencesAppend
  <2>4. node[Owner[e]].delayed \in Seq(Endpoints \X Msg) /\ node[Owner[e]].undelayed \in Seq(Endpoints \X Msg)
    BY OwnerAssumption DEF TypeOK, Node
  <2>5. PICK c \in Nat : c = Occurrences(q, CommMsg)
    BY OccurrencesOf
  <2>6. PICK d \in Nat : d = Occurrences(node[Owner[e]].delayed, <<e, CommMsg>>)
    BY <2>4, OccurrencesOf
  <2>7. PICK u \in Nat : u = Occurrences(node[Owner[e]].undelayed, <<e, CommMsg>>)
    BY <2>4, OccurrencesOf
  <2>8. commSent[f] = c + d + u
    BY <1>3, <1>4, <2>1, <2>5, <2>6, <2>7
  <2>9. commSent'[f] = (c + 1) + d + u
    BY <2>2, <2>8
  <2> QED
    BY <2>1, <2>2, <2>3, <2>5, <2>6, <2>7, <2>9
<1>8. CASE e # Peer[f]
  <2>1. Peer[e] # f
    BY <1>6, <1>8
  <2>2. chan'[e] = chan[e] /\ commSent'[Peer[e]] = commSent[Peer[e]]
    BY <1>1, <1>6, <1>8, <2>1 DEF TypeOK
  <2> QED
    BY <1>3, <2>2
<1> QED
  BY <1>7, <1>8

LEMMA NextKeeps == IInv /\ IInv' /\ CommMsgsKept /\ [Next]_vars => CommMsgsKept'
<1> SUFFICES ASSUME IInv, IInv', CommMsgsKept, [Next]_vars PROVE CommMsgsKept'
  OBVIOUS
<1>1. TypeOK /\ OnlyCommDelayed /\ TypeOK'
  BY DEF IInv
<1>2. CASE UNCHANGED vars
  BY <1>2 DEF vars, CommMsgsKept, Failed
<1>3. CASE Next
  <2>1. PICK n \in Connectors : Begin(n) \/ Recv(n) \/ Timeout(n) \/ ReadBroken(n) \/ SendComm(n)
    BY <1>3 DEF Next
  <2>2. CASE Begin(n)
    BY <1>1, <2>2, BeginKeeps
  <2>3. CASE Recv(n)
    <3>1. PICK em \in Incoming(n) :
            \/ ElectionAnnounce(n, em[1], em[2])
            \/ IgnoreWave(n, em[1], em[2])
            \/ JoinWave(n, em[1], em[2])
            \/ CountReply(n, em[1], em[2])
            \/ TreeAnnounce(n, em[1], em[2])
            \/ ChildMsg(n, em[1], em[2])
            \/ DelayComm(n, em[1], em[2])
      BY <2>3 DEF Recv
    <3>2. session' = session /\ node[n].phase \in {"election", "tree"}
      BY <2>3 DEF Recv
    <3>3. CASE DelayComm(n, em[1], em[2])
      BY <1>1, <3>2, <3>3, DelayCommKeeps
    <3>4. CASE ~DelayComm(n, em[1], em[2])
      <4>1. em[2].type # "CommMsg"
        BY <3>1, <3>4 DEF ElectionAnnounce, IgnoreWave, JoinWave, CountReply, TreeAnnounce, ChildMsg
      <4>2. PICK e : e = em[1]
        OBVIOUS
      <4>3. PICK m : m = em[2]
        OBVIOUS
      <4>4. Takes(n, e, m)
        BY <1>1, <3>2, <4>1, <4>2, <4>3, NotCommTakes
      <4> QED
        BY <1>1, <3>1, <3>2, <3>4, <4>1, <4>2, <4>3, <4>4, HandlersKeep
    <3> QED
      BY <3>3, <3>4
  <2>4. CASE Timeout(n) \/ ReadBroken(n)
    <3>1. PICK phase \in {"timeout", "broken"} : node' = [node EXCEPT ![n].phase = phase]
      BY <2>4 DEF Timeout, ReadBroken
    <3>2. chan' = chan /\ commSent' = commSent
      BY <2>4 DEF Timeout, ReadBroken
    <3>3. PICK rec : rec = [node[n] EXCEPT !.phase = phase]
      OBVIOUS
    <3>4. node' = [node EXCEPT ![n] = rec] /\ node'[n] = rec /\ rec.phase = phase
      BY <1>1, <3>1, <3>3 DEF TypeOK, Node
    <3>5. Failed(n)' /\ SameComm(chan')
      BY <3>2, <3>4 DEF Failed, SameComm
    <3> QED
      BY <1>1, <3>2, <3>4, <3>5, CommQuiet
  <2>5. CASE SendComm(n)
    BY <1>1, <2>5, SendCommKeeps
  <2> QED
    BY <2>1, <2>2, <2>3, <2>4, <2>5
<1> QED
  BY <1>2, <1>3

LEMMA InitKeeps == Init => CommMsgsKept
<1> SUFFICES ASSUME Init, NEW e \in Endpoints
             PROVE  commSent[Peer[e]] = Occurrences(chan[e], CommMsg)
                       + Occurrences(node[Owner[e]].delayed, <<e, CommMsg>>)
                       + Occurrences(node[Owner[e]].undelayed, <<e, CommMsg>>)
  BY DEF CommMsgsKept
<1>1. commSent[Peer[e]] = 0 /\ chan[e] = <<>>
      /\ node[Owner[e]].delayed = <<>> /\ node[Owner[e]].undelayed = <<>>
  BY PeerAssumption, OwnerAssumption DEF Init
<1>2. \A x : Occurrences(<<>>, x) = 0
  BY OccurrencesNone
<1> QED
  BY <1>1, <1>2

\* A message of round 0 that reaches a connector that is still constructing the
\* tree is neither lost nor duplicated by delaying and undelaying it.
THEOREM EarlyMessagesAreKept == Spec => []CommMsgsKept
<1> QED
  BY InitKeeps, NextKeeps, SpecIInv, PTL DEF Spec
=============================================================================
