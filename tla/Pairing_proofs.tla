--------------------------- MODULE Pairing_proofs ---------------------------
(***************************************************************************)
(* Pairing, for any connectors and channels and any number of attempts.      *)
(***************************************************************************)
EXTENDS Pairing, TLAPS

NetTodo == [kind : {"none", "Accepting", "PeerInfoRecving"}, conn : 0..MaxConns,
            inbox : Seq(Bytes), sent_local_port : BOOLEAN,
            recv_peer_port : BOOLEAN, retry : BOOLEAN,
            incomplete : BOOLEAN, polled : BOOLEAN]
Connection == [active : EndStates, passive : EndStates,
               toactive : Seq(Bytes), topassive : Seq(Bytes), reset : BOOLEAN]

\* What the flags of an endpoint e with the NetTodo t say about each other.  Only
\* connecting ends are retried, and a listener has not talked to anybody yet.
TodoOK(e, t) ==
    /\ ~t.incomplete => t.sent_local_port /\ t.recv_peer_port
    /\ t.recv_peer_port => e[1] \notin mismatched
    /\ t.recv_peer_port /\ t.inbox # <<>> => t.polled
    /\ t.retry => t.kind = "PeerInfoRecving" /\ e[2] = "active"
    /\ t.kind = "Accepting" => e[2] = "passive" /\ t = NewTodo("Accepting", 0)
    /\ t.kind = "PeerInfoRecving" => t.conn \in Slots
    /\ t.kind = "none" => t = NoTodo
TodoInv == \A e \in Ends : TodoOK(e, todo[e])

StatusInv ==
    \A c \in Connectors :
        /\ status[c] = "done" => \A e \in EndsOf(c) : ~todo[e].incomplete
        /\ status[c] = "idle" => \A e \in EndsOf(c) : todo[e] = NoTodo
        /\ status[c] # "idle" => attempts[c] >= 1
-----------------------------------------------------------------------------
(* As long as nobody has failed *)

FirstTime == \A c \in Connectors : attempts[c] = 0 \/ (attempts[c] = 1 /\ status[c] # "idle")

Links == {<<"connecting", "none">>, <<"refused", "none">>, <<"open", "backlog">>, <<"open", "open">>}

Has(bytes) == \E i \in DOMAIN bytes : bytes[i] = "MyPortInfo2"
\* The endpoint t knows its peer, or what it needs is in `bytes` or its inbox.
Reaches(t, bytes) ==
    \/ t.kind = "PeerInfoRecving" /\ t.recv_peer_port
    \/ Has(bytes)
    \/ t.kind = "PeerInfoRecving" /\ Has(t.inbox)

\* A channel with the ends ta and tp and the connections cn: there is at most one
\* connection, the one of the active end, and no end of it is ever closed.
OneConnection(ta, tp, cn) ==
    \A k \in Slots :
        /\ cn[k] = FreeConn
           \/ /\ ta.kind = "PeerInfoRecving" /\ ta.conn = k
              /\ <<cn[k].active, cn[k].passive>> \in Links
              /\ ~cn[k].reset
        /\ cn[k].passive = "open" <=> tp.kind = "PeerInfoRecving" /\ tp.conn = k

\* Only what was refused is retried, and then nothing has been sent; what has
\* been sent has not been lost.
Told(ta, tp, cn) ==
    /\ ta.retry => cn[ta.conn].active = "refused"
    /\ ta.sent_local_port =>
          /\ ta.kind = "PeerInfoRecving" /\ cn[ta.conn].active = "open"
          /\ Reaches(tp, cn[ta.conn].topassive)
    /\ tp.sent_local_port =>
          tp.kind = "PeerInfoRecving" /\ Reaches(ta, cn[tp.conn].toactive)

ChannelOK(ta, tp, cn) == OneConnection(ta, tp, cn) /\ Told(ta, tp, cn)

FirstInv ==
    FirstTime => \A h \in Channels : ChannelOK(todo[<<h, "active">>], todo[<<h, "passive">>], conns[h])

IInv == TypeOK /\ TodoInv /\ StatusInv /\ FirstInv
-----------------------------------------------------------------------------
(* Ends, streams and records *)

LEMMA EndFacts ==
    ASSUME NEW e \in Ends
    PROVE  /\ e[1] \in Channels /\ e[2] \in {"active", "passive"} /\ e = <<e[1], e[2]>>
           /\ Owner(e) \in Connectors /\ e \in EndsOf(Owner(e))
           /\ Other(e) \in Ends /\ Other(Other(e)) = e /\ Other(e) # e
           /\ Other(e)[1] = e[1] /\ Other(e)[2] # e[2]
           /\ To(e) \in {"toactive", "topassive"} /\ To(Other(e)) \in {"toactive", "topassive"}
           /\ To(e) # To(Other(e))
<1>1. PICK h \in Channels, r \in {"active", "passive"} : e = <<h, r>>
  BY DEF Ends
<1>2. e[1] = h /\ e[2] = r
  BY <1>1
<1>3. Owner(e) \in Connectors
  BY <1>2, ChannelEnds DEF Owner
<1>4. Other(e) = <<h, IF r = "active" THEN "passive" ELSE "active">>
  BY <1>2 DEF Other
<1> QED
  BY <1>1, <1>2, <1>3, <1>4 DEF EndsOf, Ends, Other, To

LEMMA Decoding ==
    ASSUME NEW s \in Seq(Bytes)
    PROVE  /\ Undecoded(s) \in Seq(Bytes)
           /\ Decoded(s) \in {"incomplete", "Election", "malformed", "MyPortInfo"}
           /\ Decoded(s) \in {"incomplete", "Election"} /\ Has(s) => Has(Undecoded(s))
           /\ Decoded(s) = "MyPortInfo" => Undecoded(s) # s
<1>1. CASE Decoded(s) \in {"incomplete", "malformed"}
  BY <1>1 DEF Undecoded
<1>2. CASE Decoded(s) \in {"Election", "MyPortInfo"}
  <2>1. s # <<>> /\ s # <<"MyPortInfo1">>
    BY <1>2 DEF Decoded
  <2>2. PICK l \in Nat : l = Len(s) /\ l >= 1
    BY <2>1
  <2>3. /\ s[1] = Head(s) /\ 1 \in DOMAIN s /\ DOMAIN s = 1..l
        /\ Tail(s) \in Seq(Bytes) /\ Len(Tail(s)) = l - 1 /\ DOMAIN Tail(s) = 1..(l - 1)
        /\ \A i \in 1..(l - 1) : Tail(s)[i] = s[i + 1]
    BY <2>1, <2>2
  <2>4. CASE Decoded(s) = "Election"
    <3>1. Undecoded(s) = Tail(s) /\ s[1] = "Election"
      BY <2>1, <2>3, <2>4 DEF Decoded, Undecoded
    <3>2. ASSUME NEW i \in 1..l, s[i] = "MyPortInfo2"
          PROVE  Has(Tail(s))
      <4>1. i # 1
        BY <3>1, <3>2
      <4>2. PICK j \in 1..(l - 1) : i = j + 1
        <5>1. i - 1 \in 1..(l - 1) /\ i = (i - 1) + 1
          BY <2>2, <4>1
        <5> QED
          BY <5>1
      <4> QED
        BY <2>3, <3>2, <4>2 DEF Has
    <3> QED
      BY <2>3, <2>4, <3>1, <3>2 DEF Has
  <2>5. CASE Decoded(s) = "MyPortInfo"
    <3>1. Undecoded(s) = Tail(Tail(s)) /\ s[1] = "MyPortInfo1"
      BY <2>1, <2>3, <2>5 DEF Decoded, Undecoded
    <3>2. l > 1
      <4> SUFFICES ASSUME l = 1 PROVE FALSE
        BY <2>2
      <4>1. s = <<"MyPortInfo1">>
        BY <2>2, <3>1
      <4> QED
        BY <2>1, <4>1
    <3>3. PICK u \in Seq(Bytes) : u = Tail(s) /\ Len(u) = l - 1
      BY <2>3
    <3>4. Len(u) > 0 /\ u # <<>>
      BY <2>2, <3>2, <3>3
    <3>5. Tail(u) \in Seq(Bytes) /\ Len(Tail(u)) = Len(u) - 1
      BY <3>4
    <3>6. Len(Tail(u)) # l
      BY <2>2, <3>3, <3>5
    <3> QED
      BY <2>2, <2>5, <3>1, <3>3, <3>5, <3>6
  <2> QED
    BY <1>2, <2>4, <2>5
<1>3. Decoded(s) \in {"incomplete", "Election", "malformed", "MyPortInfo"}
  BY DEF Decoded
<1> QED
  BY <1>1, <1>2, <1>3

\* Reading the first n bytes of q.
LEMMA Reading ==
    ASSUME NEW q \in Seq(Bytes), NEW n \in 0..Len(q)
    PROVE  /\ SubSeq(q, 1, n) \in Seq(Bytes) /\ SubSeq(q, n + 1, Len(q)) \in Seq(Bytes)
           /\ Has(q) => Has(SubSeq(q, 1, n)) \/ Has(SubSeq(q, n + 1, Len(q)))
<1>1. Len(q) \in Nat /\ n \in Nat /\ n <= Len(q) /\ DOMAIN q = 1..Len(q)
      /\ \A i \in DOMAIN q : q[i] \in Bytes
  OBVIOUS
<1>2. SubSeq(q, 1, n) \in Seq(Bytes) /\ DOMAIN SubSeq(q, 1, n) = 1..n
      /\ \A i \in 1..n : SubSeq(q, 1, n)[i] = q[i]
  BY <1>1
<1>3. /\ SubSeq(q, n + 1, Len(q)) \in Seq(Bytes)
      /\ DOMAIN SubSeq(q, n + 1, Len(q)) = 1..(Len(q) - n)
      /\ \A i \in 1..(Len(q) - n) : SubSeq(q, n + 1, Len(q))[i] = q[n + i]
  BY <1>1
<1>4. ASSUME NEW i \in DOMAIN q, q[i] = "MyPortInfo2"
      PROVE  Has(SubSeq(q, 1, n)) \/ Has(SubSeq(q, n + 1, Len(q)))
  <2>1. CASE i <= n
    BY <1>1, <1>2, <1>4, <2>1 DEF Has
  <2>2. CASE i > n
    <3>1. i - n \in 1..(Len(q) - n) /\ n + (i - n) = i
      BY <1>1, <2>2
    <3> QED
      BY <1>3, <1>4, <3>1 DEF Has
  <2> QED
    BY <1>1, <2>1, <2>2
<1> QED
  BY <1>2, <1>3, <1>4 DEF Has

LEMMA Joining ==
    ASSUME NEW a \in Seq(Bytes), NEW b \in Seq(Bytes)
    PROVE  a \o b \in Seq(Bytes) /\ (Has(a) \/ Has(b) => Has(a \o b))
<1>1. /\ a \o b \in Seq(Bytes) /\ Len(a) \in Nat /\ Len(b) \in Nat
      /\ DOMAIN (a \o b) = 1..(Len(a) + Len(b)) /\ DOMAIN a = 1..Len(a) /\ DOMAIN b = 1..Len(b)
      /\ \A i \in 1..Len(a) : (a \o b)[i] = a[i]
      /\ \A i \in 1..Len(b) : (a \o b)[Len(a) + i] = b[i]
  OBVIOUS
<1>2. \A i \in DOMAIN a : i \in DOMAIN (a \o b)
  BY <1>1
<1>3. \A i \in DOMAIN b : Len(a) + i \in DOMAIN (a \o b)
  BY <1>1
<1> QED
  BY <1>1, <1>2, <1>3 DEF Has

LEMMA InfoBytes == PortInfo \in Seq(Bytes) /\ Has(PortInfo) /\ <<>> \in Seq(Bytes)
BY DEF PortInfo, Bytes, Has

\* The connection with `q` on its way in one direction.
LEMMA Carrying ==
    ASSUME NEW c \in Connection, NEW f \in {"toactive", "topassive"}, NEW q \in Seq(Bytes)
    PROVE  /\ [c EXCEPT ![f] = q] \in Connection
           /\ [c EXCEPT ![f] = q][f] = q
           /\ \A g \in {"toactive", "topassive", "active", "passive", "reset"} :
                g # f => [c EXCEPT ![f] = q][g] = c[g]
<1>1. CASE f = "toactive"
  BY <1>1 DEF Connection
<1>2. CASE f = "topassive"
  BY <1>2 DEF Connection
<1> QED
  BY <1>1, <1>2

-----------------------------------------------------------------------------
(* The handler of an endpoint *)

\* What a handler makes of the endpoint's NetTodo t ...
Updated(e, t, new) ==
    /\ new \in NetTodo
    /\ new.kind = t.kind /\ new.conn = t.conn /\ new.retry = t.retry
    /\ new.incomplete <=> ~(new.sent_local_port /\ new.recv_peer_port)
    /\ t.sent_local_port => new.sent_local_port
    /\ t.recv_peer_port =>
          new.recv_peer_port /\ new.inbox = t.inbox /\ new.polled = t.polled
    /\ ~t.recv_peer_port /\ new.recv_peer_port =>
          e[1] \notin mismatched /\ (new.inbox # <<>> => new.polled)

\* ... and of the connections cs of its channel.  What the peer has sent is still
\* on its way, in the inbox, or understood.
Carried(e, t, new, cs, csn) ==
    LET k == t.conn  in == To(e)  out == To(Other(e)) IN
    /\ csn \in [Slots -> Connection]
    /\ \A j \in Slots : j # k => csn[j] = cs[j]
    /\ csn[k].active = cs[k].active /\ csn[k].passive = cs[k].passive /\ csn[k].reset = cs[k].reset
    /\ Has(cs[k][out]) => Has(csn[k][out])
    /\ new.sent_local_port /\ ~t.sent_local_port /\ cs[k][Other(e)[2]] # "closed" => Has(csn[k][out])
    /\ ~new.recv_peer_port /\ (Has(cs[k][in]) \/ Has(t.inbox)) => Has(csn[k][in]) \/ Has(new.inbox)

\* The local port is sent.
LEMMA Sending ==
    ASSUME NEW e \in Ends, NEW cs \in [Slots -> Connection], NEW t, NEW k \in Slots, k = t.conn,
           cs[k][Other(e)[2]] # "closed", NEW csn, csn = PortSent(e, t, cs)
    PROVE  /\ csn \in [Slots -> Connection]
           /\ \A j \in Slots : j # k => csn[j] = cs[j]
           /\ csn[k].active = cs[k].active /\ csn[k].passive = cs[k].passive
           /\ csn[k].reset = cs[k].reset
           /\ Has(csn[k][To(Other(e))]) /\ csn[k][To(e)] = cs[k][To(e)]
<1>0. PICK out \in {"toactive", "topassive"} : out = To(Other(e)) /\ out # To(e)
  BY EndFacts
<1>1. cs[k] \in Connection /\ To(e) \in {"toactive", "topassive"}
  BY EndFacts
<1>2. cs[k][out] \in Seq(Bytes)
  BY <1>1 DEF Connection
<1>3. PICK q \in Seq(Bytes) : q = cs[k][out] \o PortInfo /\ Has(q)
  BY <1>2, Joining, InfoBytes
<1>4. PICK c \in Connection : c = [cs[k] EXCEPT ![out] = q]
  BY <1>1, <1>3, Carrying
<1>5. /\ c[out] = q /\ c[To(e)] = cs[k][To(e)] /\ c.active = cs[k].active
      /\ c.passive = cs[k].passive /\ c.reset = cs[k].reset
  BY <1>0, <1>1, <1>4, Carrying
<1>6. csn = [j \in Slots |-> IF j = k THEN c ELSE cs[j]]
  <2>1. PortSent(e, t, cs) = With(cs, k, [cs[k] EXCEPT ![To(Other(e))] = @ \o PortInfo])
    BY DEF PortSent
  <2> QED
    BY <1>0, <1>3, <1>4, <2>1 DEF With
<1>7. csn \in [Slots -> Connection] /\ csn[k] = c /\ \A j \in Slots : j # k => csn[j] = cs[j]
  BY <1>6
<1> QED
  BY <1>0, <1>3, <1>5, <1>7

\* n bytes for e are read.
LEMMA Draining ==
    ASSUME NEW e \in Ends, NEW cs \in [Slots -> Connection], NEW t, NEW k \in Slots, k = t.conn,
           NEW rest \in Seq(Bytes), NEW csn, csn = Drained(e, t, cs, rest)
    PROVE  /\ csn \in [Slots -> Connection]
           /\ \A j \in Slots : j # k => csn[j] = cs[j]
           /\ csn[k].active = cs[k].active /\ csn[k].passive = cs[k].passive
           /\ csn[k].reset = cs[k].reset
           /\ csn[k][To(e)] = rest /\ csn[k][To(Other(e))] = cs[k][To(Other(e))]
<1>1. cs[k] \in Connection /\ To(e) \in {"toactive", "topassive"}
      /\ To(Other(e)) \in {"toactive", "topassive"} /\ To(e) # To(Other(e))
  BY EndFacts
<1>2. PICK c \in Connection : c = [cs[k] EXCEPT ![To(e)] = rest]
  BY <1>1, Carrying
<1>3. /\ c[To(e)] = rest /\ c[To(Other(e))] = cs[k][To(Other(e))] /\ c.active = cs[k].active
      /\ c.passive = cs[k].passive /\ c.reset = cs[k].reset
  BY <1>1, <1>2, Carrying
<1>4. csn = [j \in Slots |-> IF j = k THEN c ELSE cs[j]]
  BY <1>2 DEF With, Drained
<1>5. csn \in [Slots -> Connection] /\ csn[k] = c /\ \A j \in Slots : j # k => csn[j] = cs[j]
  BY <1>4
<1> QED
  BY <1>3, <1>5

\* What reading `bytes` makes of a NetTodo that is not rejected.
LEMMA Reception ==
    ASSUME NEW t \in NetTodo, ~t.recv_peer_port, NEW bytes \in Seq(Bytes), NEW h, ~Rejected(h, t, bytes),
           NEW new, new = Received(t, bytes)
    PROVE  /\ new \in NetTodo
           /\ new.kind = t.kind /\ new.conn = t.conn /\ new.retry = t.retry
           /\ new.sent_local_port = t.sent_local_port
           /\ new.recv_peer_port => h \notin mismatched /\ (new.inbox # <<>> => new.polled)
           /\ ~new.recv_peer_port /\ (Has(bytes) \/ Has(t.inbox)) => Has(new.inbox)
<1>1. PICK s \in Seq(Bytes) : s = t.inbox \o bytes /\ (Has(bytes) \/ Has(t.inbox) => Has(s))
  BY Joining DEF NetTodo
<1>2. /\ Undecoded(s) \in Seq(Bytes)
      /\ Decoded(s) \in {"incomplete", "Election", "malformed", "MyPortInfo"}
      /\ Decoded(s) \in {"incomplete", "Election"} /\ Has(s) => Has(Undecoded(s))
      /\ Decoded(s) = "MyPortInfo" => Undecoded(s) # s
  BY Decoding
<1>3. Decoded(s) # "malformed" /\ (Decoded(s) = "MyPortInfo" => h \notin mismatched)
  BY <1>1 DEF Rejected
<1>4. PICK u \in Seq(Bytes) : u = Undecoded(s)
  BY <1>2
<1>5. PICK p \in BOOLEAN : p = (t.polled \/ (u # s /\ u # <<>>))
  BY DEF NetTodo
<1>6. PICK d \in BOOLEAN : d = (Decoded(s) = "MyPortInfo")
  OBVIOUS
<1>7. new = [t EXCEPT !.inbox = u, !.recv_peer_port = t.recv_peer_port \/ d, !.polled = p]
  BY <1>1, <1>4, <1>5, <1>6 DEF Received
<1>8. /\ new \in NetTodo /\ new.inbox = u /\ (new.recv_peer_port <=> d) /\ (new.polled <=> p)
      /\ new.kind = t.kind /\ new.conn = t.conn /\ new.retry = t.retry
      /\ new.sent_local_port = t.sent_local_port
  BY <1>7 DEF NetTodo
<1>9. d => u # s
  BY <1>2, <1>4, <1>6
<1>10. ~d => Decoded(s) \in {"incomplete", "Election"}
  BY <1>2, <1>3, <1>6
<1>11. new.recv_peer_port => h \notin mismatched /\ (new.inbox # <<>> => new.polled)
  BY <1>3, <1>5, <1>6, <1>8, <1>9
<1>12. ~new.recv_peer_port /\ (Has(bytes) \/ Has(t.inbox)) => Has(new.inbox)
  BY <1>1, <1>2, <1>4, <1>8, <1>10
<1> QED
  BY <1>8, <1>11, <1>12

LEMMA Completion ==
    ASSUME NEW t \in NetTodo, NEW new, new = Completed(t)
    PROVE  /\ new \in NetTodo
           /\ new.kind = t.kind /\ new.conn = t.conn /\ new.retry = t.retry
           /\ new.sent_local_port = t.sent_local_port /\ new.recv_peer_port = t.recv_peer_port
           /\ new.inbox = t.inbox /\ new.polled = t.polled
           /\ new.incomplete <=> ~(new.sent_local_port /\ new.recv_peer_port)
<1>1. PICK b \in BOOLEAN : b = ~(t.sent_local_port /\ t.recv_peer_port)
  OBVIOUS
<1>2. new = [t EXCEPT !.incomplete = b]
  BY <1>1 DEF Completed
<1> QED
  BY <1>1, <1>2 DEF NetTodo

\* connect() fails in the handler of e.
FailsAt(e) ==
    \E td \in [Ends -> NetTodo], cs \in [Channels -> [Slots -> Connection]] :
        /\ \A f \in Ends : f # e => td[f] = todo[f]
        /\ FailFrom(Owner(e), td, cs)

\* The handler of e, whose NetTodo is t and whose channel has the connections cs.
LEMMA ExchangeForm ==
    ASSUME TypeOK, NEW e \in Ends, NEW t \in NetTodo, t.conn \in Slots,
           NEW cs \in [Slots -> Connection], NEW w \in BOOLEAN, NEW r \in BOOLEAN,
           Exchange(e, t, cs, w, r)
    PROVE  \/ /\ status' = [status EXCEPT ![Owner(e)] = "panicked"]
              /\ UNCHANGED <<todo, conns>>
              /\ cs[t.conn].reset
           \/ FailsAt(e)
           \/ \E new \in NetTodo, csn \in [Slots -> Connection] :
                /\ status' = status
                /\ todo' = [todo EXCEPT ![e] = new]
                /\ conns' = [conns EXCEPT ![e[1]] = csn]
                /\ Updated(e, t, new)
                /\ Carried(e, t, new, cs, csn)
<1>1. /\ todo \in [Ends -> NetTodo] /\ conns \in [Channels -> [Slots -> Connection]]
      /\ e[1] \in Channels
  BY EndFacts DEF TypeOK, NetTodo, Connection
<1>2. PICK k \in Slots : k = t.conn
  OBVIOUS
<1> DEFINE send  == w /\ ~t.sent_local_port
           cs1   == IF send THEN PortSent(e, t, cs) ELSE cs
           t1    == [t EXCEPT !.sent_local_port = @ \/ send]
           recv  == r /\ ~t.recv_peer_port
           queue == cs1[t.conn][To(e)]
<1>3. \/ send /\ cs[t.conn].reset /\ status' = [status EXCEPT ![Owner(e)] = "panicked"]
            /\ UNCHANGED <<todo, conns>>
      \/ FailsWith(e, t1, cs1)
      \/ ~recv /\ Becomes(e, Completed(t1), cs1)
      \/ /\ recv
         /\ \E n \in (IF e[1] \in Fragmented THEN 0 ELSE Len(queue))..Len(queue) :
                LET bytes == SubSeq(queue, 1, n)
                    cs2   == Drained(e, t, cs1, SubSeq(queue, n + 1, Len(queue)))
                IN  IF Rejected(e[1], t1, bytes) THEN FailsWith(e, t1, cs2)
                    ELSE Becomes(e, Completed(Received(t1, bytes)), cs2)
  BY DEF Exchange
<1>4. send \in BOOLEAN /\ recv \in BOOLEAN /\ (recv => ~t.recv_peer_port)
      /\ (send => ~t.sent_local_port)
  OBVIOUS
<1>5. cs1 = IF send THEN PortSent(e, t, cs) ELSE cs
  OBVIOUS
<1>6. t1 = [t EXCEPT !.sent_local_port = @ \/ send]
  OBVIOUS
<1>9. queue = cs1[t.conn][To(e)]
  OBVIOUS
<1> HIDE DEF send, cs1, t1, recv, queue
<1>7. /\ t1 \in NetTodo /\ t1.kind = t.kind /\ t1.conn = t.conn /\ t1.retry = t.retry
      /\ t1.recv_peer_port = t.recv_peer_port /\ t1.inbox = t.inbox /\ t1.polled = t.polled
      /\ t1.sent_local_port <=> t.sent_local_port \/ send
  <2>1. PICK b \in BOOLEAN : b = (t.sent_local_port \/ send)
    BY <1>4
  <2>2. t1 = [t EXCEPT !.sent_local_port = b]
    BY <1>6, <2>1
  <2> QED
    BY <2>1, <2>2 DEF NetTodo
<1>8. /\ cs1 \in [Slots -> Connection]
      /\ \A j \in Slots : j # k => cs1[j] = cs[j]
      /\ cs1[k].active = cs[k].active /\ cs1[k].passive = cs[k].passive
      /\ cs1[k].reset = cs[k].reset
      /\ cs1[k][To(e)] = cs[k][To(e)]
      /\ Has(cs[k][To(Other(e))]) => Has(cs1[k][To(Other(e))])
      /\ t1.sent_local_port /\ ~t.sent_local_port /\ cs[k][Other(e)[2]] # "closed" =>
            Has(cs1[k][To(Other(e))])
  <2>1. CASE send /\ cs[k][Other(e)[2]] # "closed"
    <3>1. cs1 = PortSent(e, t, cs)
      BY <1>5, <2>1
    <3> QED
      BY <1>2, <2>1, <3>1, Sending
  <2>2. CASE ~(send /\ cs[k][Other(e)[2]] # "closed")
    <3>1. cs1 = cs
      BY <1>2, <1>5, <2>2 DEF PortSent
    <3> QED
      BY <1>7, <2>2, <3>1
  <2> QED
    BY <2>1, <2>2
<1>14. queue \in Seq(Bytes) /\ Len(queue) \in Nat /\ queue = cs1[k][To(e)]
  <2>1. cs1[k] \in Connection /\ To(e) \in {"toactive", "topassive"}
    BY <1>8, EndFacts
  <2> QED
    BY <1>2, <1>9, <2>1 DEF Connection
\* A failure, with the endpoint in state t1.
<1>10. ASSUME NEW cs2 \in [Slots -> Connection], FailsWith(e, t1, cs2)
       PROVE  FailsAt(e)
  <2>1. PICK td \in [Ends -> NetTodo] : td = [todo EXCEPT ![e] = t1]
    BY <1>1, <1>7
  <2>2. PICK cn \in [Channels -> [Slots -> Connection]] : cn = [conns EXCEPT ![e[1]] = cs2]
    BY <1>1
  <2>3. \A f \in Ends : f # e => td[f] = todo[f]
    BY <1>1, <2>1
  <2>4. FailFrom(Owner(e), td, cn)
    BY <1>10, <2>1, <2>2 DEF FailsWith
  <2> QED
    BY <2>3, <2>4 DEF FailsAt
<1>12. ASSUME ~recv, Becomes(e, Completed(t1), cs1)
       PROVE  \E new \in NetTodo, csn \in [Slots -> Connection] :
                /\ status' = status
                /\ todo' = [todo EXCEPT ![e] = new]
                /\ conns' = [conns EXCEPT ![e[1]] = csn]
                /\ Updated(e, t, new)
                /\ Carried(e, t, new, cs, csn)
  <2>1. PICK new : new = Completed(t1)
    OBVIOUS
  <2>2. /\ new \in NetTodo
        /\ new.kind = t1.kind /\ new.conn = t1.conn /\ new.retry = t1.retry
        /\ new.sent_local_port = t1.sent_local_port /\ new.recv_peer_port = t1.recv_peer_port
        /\ new.inbox = t1.inbox /\ new.polled = t1.polled
        /\ new.incomplete <=> ~(new.sent_local_port /\ new.recv_peer_port)
    BY <1>7, <2>1, Completion
  <2>3. Updated(e, t, new)
    BY <1>7, <2>2 DEF Updated
  <2>4. Carried(e, t, new, cs, cs1)
    BY <1>2, <1>7, <1>8, <2>2 DEF Carried
  <2> QED
    BY <1>8, <1>12, <2>1, <2>2, <2>3, <2>4 DEF Becomes
<1>13. ASSUME recv, NEW n \in 0..Len(queue), ~Rejected(e[1], t1, SubSeq(queue, 1, n)),
              NEW cs2, cs2 = Drained(e, t, cs1, SubSeq(queue, n + 1, Len(queue))),
              Becomes(e, Completed(Received(t1, SubSeq(queue, 1, n))), cs2)
       PROVE  \E new \in NetTodo, csn \in [Slots -> Connection] :
                /\ status' = status
                /\ todo' = [todo EXCEPT ![e] = new]
                /\ conns' = [conns EXCEPT ![e[1]] = csn]
                /\ Updated(e, t, new)
                /\ Carried(e, t, new, cs, csn)
  <2>1. PICK bytes \in Seq(Bytes), rest \in Seq(Bytes) :
          /\ bytes = SubSeq(queue, 1, n) /\ rest = SubSeq(queue, n + 1, Len(queue))
          /\ Has(queue) => Has(bytes) \/ Has(rest)
    BY <1>14, Reading
  <2>2. PICK t2 : t2 = Received(t1, bytes)
    OBVIOUS
  <2>3. /\ t2 \in NetTodo
        /\ t2.kind = t1.kind /\ t2.conn = t1.conn /\ t2.retry = t1.retry
        /\ t2.sent_local_port = t1.sent_local_port
        /\ t2.recv_peer_port => e[1] \notin mismatched /\ (t2.inbox # <<>> => t2.polled)
        /\ ~t2.recv_peer_port /\ (Has(bytes) \/ Has(t1.inbox)) => Has(t2.inbox)
    <3>1. ~t1.recv_peer_port /\ ~Rejected(e[1], t1, bytes)
      BY <1>4, <1>7, <1>13, <2>1
    <3> QED
      BY <1>7, <2>2, <3>1, Reception
  <2>4. PICK new : new = Completed(t2)
    OBVIOUS
  <2>5. /\ new \in NetTodo
        /\ new.kind = t2.kind /\ new.conn = t2.conn /\ new.retry = t2.retry
        /\ new.sent_local_port = t2.sent_local_port /\ new.recv_peer_port = t2.recv_peer_port
        /\ new.inbox = t2.inbox /\ new.polled = t2.polled
        /\ new.incomplete <=> ~(new.sent_local_port /\ new.recv_peer_port)
    BY <2>3, <2>4, Completion
  <2>6. /\ cs2 \in [Slots -> Connection]
        /\ \A j \in Slots : j # k => cs2[j] = cs1[j]
        /\ cs2[k].active = cs1[k].active /\ cs2[k].passive = cs1[k].passive
        /\ cs2[k].reset = cs1[k].reset
        /\ cs2[k][To(e)] = rest /\ cs2[k][To(Other(e))] = cs1[k][To(Other(e))]
    <3>1. cs2 = Drained(e, t, cs1, rest)
      BY <1>13, <2>1
    <3>2. cs1 \in [Slots -> Connection] /\ k = t.conn
      BY <1>2, <1>8
    <3> QED
      BY <3>1, <3>2, Draining
  <2>7. Updated(e, t, new)
    BY <1>4, <1>7, <1>13, <2>3, <2>5 DEF Updated
  <2>8. ~new.recv_peer_port /\ (Has(cs[k][To(e)]) \/ Has(t.inbox)) =>
            Has(cs2[k][To(e)]) \/ Has(new.inbox)
    BY <1>7, <1>8, <1>14, <2>1, <2>3, <2>5, <2>6
  <2>9. Carried(e, t, new, cs, cs2)
    BY <1>2, <1>7, <1>8, <2>3, <2>5, <2>6, <2>8 DEF Carried
  <2>10. Becomes(e, new, cs2)
    BY <1>13, <2>1, <2>2, <2>4
  <2> QED
    BY <2>5, <2>6, <2>7, <2>9, <2>10 DEF Becomes
<1> QED
  <2>1. CASE send /\ cs[k].reset /\ status' = [status EXCEPT ![Owner(e)] = "panicked"]
            /\ UNCHANGED <<todo, conns>>
    BY <1>2, <2>1
  <2>2. CASE FailsWith(e, t1, cs1)
    BY <1>8, <1>10, <2>2
  <2>3. CASE ~recv /\ Becomes(e, Completed(t1), cs1)
    BY <1>12, <2>3
  <2>4. ASSUME recv, NEW n \in 0..Len(queue), NEW cs2,
               cs2 = Drained(e, t, cs1, SubSeq(queue, n + 1, Len(queue))),
               Rejected(e[1], t1, SubSeq(queue, 1, n)), FailsWith(e, t1, cs2)
        PROVE  FailsAt(e)
    <3>1. PICK rest \in Seq(Bytes) : rest = SubSeq(queue, n + 1, Len(queue))
      BY <1>14, Reading
    <3>2. cs2 = Drained(e, t, cs1, rest) /\ cs1 \in [Slots -> Connection] /\ k = t.conn
      BY <1>2, <1>8, <2>4, <3>1
    <3>3. cs2 \in [Slots -> Connection]
      BY <3>2, Draining
    <3> QED
      BY <1>10, <2>4, <3>3
  <2>5. CASE /\ recv
             /\ \E n \in (IF e[1] \in Fragmented THEN 0 ELSE Len(queue))..Len(queue) :
                  LET bytes == SubSeq(queue, 1, n)
                      cs2   == Drained(e, t, cs1, SubSeq(queue, n + 1, Len(queue)))
                  IN  IF Rejected(e[1], t1, bytes) THEN FailsWith(e, t1, cs2)
                      ELSE Becomes(e, Completed(Received(t1, bytes)), cs2)
    <3>1. PICK n \in (IF e[1] \in Fragmented THEN 0 ELSE Len(queue))..Len(queue) :
                  LET bytes == SubSeq(queue, 1, n)
                      cs2   == Drained(e, t, cs1, SubSeq(queue, n + 1, Len(queue)))
                  IN  IF Rejected(e[1], t1, bytes) THEN FailsWith(e, t1, cs2)
                      ELSE Becomes(e, Completed(Received(t1, bytes)), cs2)
      BY <2>5
    <3>2. n \in 0..Len(queue)
      BY <1>14, <3>1
    <3>3. PICK cs2 : cs2 = Drained(e, t, cs1, SubSeq(queue, n + 1, Len(queue)))
      OBVIOUS
    <3>4. CASE Rejected(e[1], t1, SubSeq(queue, 1, n))
      BY <2>4, <2>5, <3>1, <3>2, <3>3, <3>4
    <3>5. CASE ~Rejected(e[1], t1, SubSeq(queue, 1, n))
      BY <1>13, <2>5, <3>1, <3>2, <3>3, <3>5
    <3> QED
      BY <3>4, <3>5
  <2> QED
    BY <1>3, <2>1, <2>2, <2>3, <2>5

-----------------------------------------------------------------------------
(* The channels of the first attempt *)

LEMMA FreeFacts ==
    /\ FreeConn \in Connection /\ FreeConn.active = "none" /\ FreeConn.passive = "none"
    /\ ~FreeConn.reset
    /\ [FreeConn EXCEPT !.active = "connecting"] \in Connection
    /\ [FreeConn EXCEPT !.active = "connecting"].active = "connecting"
    /\ [FreeConn EXCEPT !.active = "connecting"].passive = "none"
    /\ ~[FreeConn EXCEPT !.active = "connecting"].reset
BY InfoBytes DEF FreeConn, Connection, EndStates

LEMMA NewFacts ==
    ASSUME NEW kind \in {"none", "Accepting", "PeerInfoRecving"}, NEW k \in 0..MaxConns
    PROVE  /\ NewTodo(kind, k) \in NetTodo /\ NewTodo(kind, k).kind = kind
           /\ NewTodo(kind, k).conn = k /\ ~NewTodo(kind, k).sent_local_port
           /\ ~NewTodo(kind, k).recv_peer_port /\ ~NewTodo(kind, k).retry
           /\ NewTodo(kind, k).incomplete /\ NewTodo(kind, k).inbox = <<>>
BY InfoBytes DEF NewTodo, NetTodo

\* An end that has a connection is an end of the connection of the active end.
LEMMA Linked ==
    ASSUME NEW ta, NEW tp, NEW cn, ChannelOK(ta, tp, cn), NEW k \in Slots,
           cn[k].active # "none" \/ cn[k].passive # "none" \/ cn[k].reset
    PROVE  /\ ta.kind = "PeerInfoRecving" /\ ta.conn = k
           /\ <<cn[k].active, cn[k].passive>> \in Links
           /\ ~cn[k].reset
           /\ \A j \in Slots : j # k => cn[j] = FreeConn
BY FreeFacts DEF ChannelOK, OneConnection

\* The handler of an end with a stream keeps the channel in order.
LEMMA MetActive ==
    ASSUME NEW h \in Channels, NEW ta, NEW tp, NEW cn, ChannelOK(ta, tp, cn),
           ta.kind = "PeerInfoRecving", NEW k \in Slots, k = ta.conn, cn[k].active = "open",
           tp.kind = "PeerInfoRecving" => tp.conn \in Slots,
           NEW new, NEW csn,
           Updated(<<h, "active">>, ta, new), Carried(<<h, "active">>, ta, new, cn, csn)
    PROVE  ChannelOK(new, tp, csn)
<1>1. /\ To(<<h, "active">>) = "toactive" /\ To(Other(<<h, "active">>)) = "topassive"
      /\ Other(<<h, "active">>)[2] = "passive"
  BY DEF To, Other
<1>2. /\ csn[k].active = cn[k].active /\ csn[k].passive = cn[k].passive
      /\ csn[k].reset = cn[k].reset
      /\ \A j \in Slots : j # k => csn[j] = cn[j]
  BY DEF Carried
<1>3. new.kind = ta.kind /\ new.conn = k /\ new.retry = ta.retry
  BY DEF Updated
<1>4. /\ <<cn[k].active, cn[k].passive>> \in Links /\ ~cn[k].reset
      /\ \A j \in Slots : j # k => cn[j] = FreeConn
  BY Linked
<1>5. OneConnection(new, tp, csn)
  BY <1>2, <1>3, <1>4 DEF ChannelOK, OneConnection
<1>6. new.retry => csn[new.conn].active = "refused"
  BY <1>2, <1>3 DEF ChannelOK, Told
<1>7. new.sent_local_port => Reaches(tp, csn[new.conn].topassive)
  <2>1. cn[k].passive # "closed"
    BY <1>4 DEF Links
  <2>2. CASE ~ta.sent_local_port
    BY <1>1, <1>3, <2>1, <2>2 DEF Carried, Reaches
  <2>3. CASE ta.sent_local_port
    <3>1. Reaches(tp, cn[k].topassive)
      BY <2>3 DEF ChannelOK, Told
    <3>2. Has(cn[k].topassive) => Has(csn[k].topassive)
      BY <1>1 DEF Carried
    <3> QED
      BY <1>3, <3>1, <3>2 DEF Reaches
  <2> QED
    BY <2>2, <2>3
<1>8. ASSUME tp.sent_local_port
      PROVE  tp.kind = "PeerInfoRecving" /\ Reaches(new, csn[tp.conn].toactive)
  <2>1. tp.kind = "PeerInfoRecving" /\ Reaches(ta, cn[tp.conn].toactive) /\ tp.conn \in Slots
    BY <1>8 DEF ChannelOK, Told
  <2>2. cn[tp.conn].passive = "open"
    BY <2>1 DEF ChannelOK, OneConnection
  <2>3. tp.conn = k
    BY <2>1, <2>2, Linked
  <2>4. ~new.recv_peer_port /\ (Has(cn[k].toactive) \/ Has(ta.inbox)) =>
            Has(csn[k].toactive) \/ Has(new.inbox)
    BY <1>1 DEF Carried
  <2>5. ta.recv_peer_port => new.recv_peer_port
    BY DEF Updated
  <2> QED
    BY <1>3, <2>1, <2>3, <2>4, <2>5 DEF Reaches
<1> QED
  BY <1>2, <1>3, <1>5, <1>6, <1>7, <1>8 DEF ChannelOK, Told

LEMMA MetPassive ==
    ASSUME NEW h \in Channels, NEW ta, NEW tp, NEW cn, ChannelOK(ta, tp, cn),
           tp.kind = "PeerInfoRecving", NEW k \in Slots, k = tp.conn,
           NEW new, NEW csn,
           Updated(<<h, "passive">>, tp, new), Carried(<<h, "passive">>, tp, new, cn, csn)
    PROVE  ChannelOK(ta, new, csn)
<1>1. /\ To(<<h, "passive">>) = "topassive" /\ To(Other(<<h, "passive">>)) = "toactive"
      /\ Other(<<h, "passive">>)[2] = "active"
  BY DEF To, Other
<1>2. /\ csn[k].active = cn[k].active /\ csn[k].passive = cn[k].passive
      /\ csn[k].reset = cn[k].reset
      /\ \A j \in Slots : j # k => csn[j] = cn[j]
  BY DEF Carried
<1>3. new.kind = tp.kind /\ new.conn = k
  BY DEF Updated
<1>4. cn[k].passive = "open"
  BY DEF ChannelOK, OneConnection
<1>5. /\ <<cn[k].active, cn[k].passive>> \in Links /\ ~cn[k].reset
      /\ \A j \in Slots : j # k => cn[j] = FreeConn
      /\ ta.kind = "PeerInfoRecving" /\ ta.conn = k
  BY <1>4, Linked
<1>6. OneConnection(ta, new, csn)
  BY <1>2, <1>3, <1>5 DEF ChannelOK, OneConnection
<1>7. ta.retry => csn[ta.conn].active = "refused"
  BY <1>2, <1>5 DEF ChannelOK, Told
<1>8. new.sent_local_port => Reaches(ta, csn[new.conn].toactive)
  <2>1. cn[k].active # "closed"
    BY <1>5 DEF Links
  <2>2. CASE ~tp.sent_local_port
    BY <1>1, <1>3, <2>1, <2>2 DEF Carried, Reaches
  <2>3. CASE tp.sent_local_port
    <3>1. Reaches(ta, cn[k].toactive)
      BY <2>3 DEF ChannelOK, Told
    <3>2. Has(cn[k].toactive) => Has(csn[k].toactive)
      BY <1>1 DEF Carried
    <3> QED
      BY <1>3, <3>1, <3>2 DEF Reaches
  <2> QED
    BY <2>2, <2>3
<1>9. ASSUME ta.sent_local_port
      PROVE  /\ csn[ta.conn].active = "open"
             /\ Reaches(new, csn[ta.conn].topassive)
  <2>1. Reaches(tp, cn[k].topassive) /\ cn[k].active = "open"
    BY <1>5, <1>9 DEF ChannelOK, Told
  <2>2. ~new.recv_peer_port /\ (Has(cn[k].topassive) \/ Has(tp.inbox)) =>
            Has(csn[k].topassive) \/ Has(new.inbox)
    BY <1>1 DEF Carried
  <2>3. tp.recv_peer_port => new.recv_peer_port
    BY DEF Updated
  <2> QED
    BY <1>2, <1>3, <1>5, <2>1, <2>2, <2>3 DEF Reaches
<1> QED
  BY <1>3, <1>5, <1>6, <1>7, <1>8, <1>9 DEF ChannelOK, Told

\* A listener takes the connection k out of its backlog: ta, tp and cn become ta,
\* the NetTodo t and cs.
LEMMA Accepting ==
    ASSUME NEW h \in Channels, NEW ta, NEW tp, NEW cn \in [Slots -> Connection], ChannelOK(ta, tp, cn),
           NEW k \in Slots, cn[k].passive = "backlog", tp = NewTodo("Accepting", 0),
           NEW t, t = [tp EXCEPT !.kind = "PeerInfoRecving", !.conn = k],
           NEW cs, cs = With(ListenerDropped(h, k, cn), k, [cn[k] EXCEPT !.passive = "open"])
    PROVE  ChannelOK(ta, t, cs)
<1>1. /\ ta.kind = "PeerInfoRecving" /\ ta.conn = k
      /\ <<cn[k].active, cn[k].passive>> \in Links /\ ~cn[k].reset
      /\ \A j \in Slots : j # k => cn[j] = FreeConn
  BY Linked
<1>2. cn[k].active = "open"
  BY <1>1 DEF Links
<1>3. /\ tp.kind = "Accepting" /\ t.kind = "PeerInfoRecving" /\ t.conn = k /\ ~t.sent_local_port
  BY DEF NewTodo
<1>4. PICK c \in Connection : c = [cn[k] EXCEPT !.passive = "open"]
  BY DEF Connection, EndStates
<1>5. c.active = "open" /\ c.passive = "open" /\ ~c.reset /\ c.topassive = cn[k].topassive
  BY <1>1, <1>2, <1>4 DEF Connection
<1>6. \A j \in Slots : cs[j] = IF j = k THEN c ELSE cn[j]
  BY <1>1, <1>4, FreeFacts DEF With, ListenerDropped
<1>7. OneConnection(ta, t, cs)
  BY <1>1, <1>3, <1>5, <1>6, FreeFacts DEF OneConnection, Links
<1>8. ~ta.retry
  BY <1>1, <1>2 DEF ChannelOK, Told
<1>9. ta.sent_local_port => Reaches(t, cs[ta.conn].topassive)
  <2>1. ta.sent_local_port => Has(cn[k].topassive)
    BY <1>1, <1>3 DEF ChannelOK, Told, Reaches
  <2> QED
    BY <1>1, <1>5, <1>6, <2>1 DEF Reaches
<1> QED
  BY <1>1, <1>3, <1>5, <1>6, <1>7, <1>8, <1>9 DEF ChannelOK, Told

\* A connection attempt joins the backlog or is refused.
LEMMA Arriving ==
    ASSUME NEW ta, NEW tp, NEW cn, ChannelOK(ta, tp, cn),
           NEW k \in Slots, cn[k].active = "connecting", tp.kind = "PeerInfoRecving" => tp.conn \in Slots,
           NEW cs, \A j \in Slots : j # k => cs[j] = cn[j],
           <<cs[k].active, cs[k].passive>> \in {<<"refused", "none">>, <<"open", "backlog">>},
           cs[k].reset = cn[k].reset
    PROVE  ChannelOK(ta, tp, cs)
<1>1. /\ ta.kind = "PeerInfoRecving" /\ ta.conn = k
      /\ <<cn[k].active, cn[k].passive>> \in Links /\ ~cn[k].reset
      /\ \A j \in Slots : j # k => cn[j] = FreeConn
  BY Linked
<1>2. cn[k].passive = "none"
  BY <1>1 DEF Links
<1>3. OneConnection(ta, tp, cs)
  BY <1>1, <1>2 DEF ChannelOK, OneConnection, Links
<1>4. ~ta.retry /\ ~ta.sent_local_port
  BY <1>1 DEF ChannelOK, Told
<1>5. tp.kind # "PeerInfoRecving"
  BY <1>1, <1>2, FreeFacts DEF ChannelOK, OneConnection
<1>6. ~tp.sent_local_port
  BY <1>5 DEF ChannelOK, Told
<1> QED
  BY <1>3, <1>4, <1>6 DEF ChannelOK, Told

\* A channel without connections gets one.
LEMMA Connecting ==
    ASSUME NEW ta, ta.kind = "PeerInfoRecving", ta.conn \in Slots, ~ta.retry, ~ta.sent_local_port,
           NEW tp, tp.kind # "PeerInfoRecving", ~tp.sent_local_port,
           NEW cs, cs[ta.conn] = [FreeConn EXCEPT !.active = "connecting"],
           \A j \in Slots : j # ta.conn => cs[j] = FreeConn
    PROVE  ChannelOK(ta, tp, cs)
<1>1. OneConnection(ta, tp, cs)
  BY FreeFacts DEF OneConnection, Links
<1> QED
  BY <1>1 DEF ChannelOK, Told

\* Before its active end has connected, a channel has no connection.
LEMMA NotConnected ==
    ASSUME NEW ta, NEW tp, NEW cn, ChannelOK(ta, tp, cn), ta.kind # "PeerInfoRecving",
           tp.kind = "PeerInfoRecving" => tp.conn \in Slots
    PROVE  /\ \A k \in Slots : cn[k] = FreeConn
           /\ tp.kind # "PeerInfoRecving" /\ ~tp.sent_local_port
<1>1. \A k \in Slots : cn[k] = FreeConn
  BY DEF ChannelOK, OneConnection
<1>2. tp.kind # "PeerInfoRecving"
  BY <1>1, FreeFacts DEF ChannelOK, OneConnection
<1> QED
  BY <1>1, <1>2 DEF ChannelOK, Told

\* What is retried has been refused.
LEMMA Refused ==
    ASSUME NEW ta, NEW tp, NEW cn \in [Slots -> Connection], ChannelOK(ta, tp, cn), ta.retry,
           ta.conn \in Slots, tp.kind = "PeerInfoRecving" => tp.conn \in Slots
    PROVE  /\ ~ta.sent_local_port /\ tp.kind # "PeerInfoRecving" /\ ~tp.sent_local_port
           /\ cn[ta.conn] # FreeConn /\ Without(cn[ta.conn], {"active"}) = FreeConn
           /\ \A j \in Slots : j # ta.conn => cn[j] = FreeConn
<1> DEFINE k == ta.conn
<1>1. cn[k].active = "refused" /\ cn[k] \in Connection
  BY DEF ChannelOK, Told
<1>2. /\ <<cn[k].active, cn[k].passive>> \in Links
      /\ \A j \in Slots : j # k => cn[j] = FreeConn
  BY <1>1, Linked
<1>3. cn[k].passive = "none"
  BY <1>1, <1>2 DEF Links
<1>4. ~ta.sent_local_port /\ cn[k] # FreeConn
  BY <1>1, FreeFacts DEF ChannelOK, Told
<1>5. tp.kind # "PeerInfoRecving"
  BY <1>2, <1>3, FreeFacts DEF ChannelOK, OneConnection
<1>6. ~tp.sent_local_port
  BY <1>5 DEF ChannelOK, Told
<1>7. Without(cn[k], {"active"}) = FreeConn
  BY <1>1, <1>3 DEF Without, Connection
<1> QED
  BY <1>2, <1>4, <1>5, <1>6, <1>7

\* More is on its way in one direction.
LEMMA Electing ==
    ASSUME NEW ta, NEW tp, NEW cn \in [Slots -> Connection],
           NEW k \in Slots, NEW f \in {"toactive", "topassive"},
           NEW cs, cs = [cn EXCEPT ![k][f] = Append(@, "Election")]
    PROVE  /\ cs \in [Slots -> Connection]
           /\ /\ ChannelOK(ta, tp, cn) /\ cn[k].active = "open"
              /\ tp.kind = "PeerInfoRecving" => tp.conn \in Slots
              => ChannelOK(ta, tp, cs)
<1>1. cn[k] \in Connection /\ cn[k][f] \in Seq(Bytes) /\ "Election" \in Bytes
  BY DEF Connection, Bytes
<1>2. PICK q \in Seq(Bytes) : q = Append(cn[k][f], "Election") /\ (Has(cn[k][f]) => Has(q))
  <2>1. PICK s \in Seq(Bytes) : s = cn[k][f]
    BY <1>1
  <2>0. "Election" \in Bytes
    BY DEF Bytes
  <2>2. PICK q \in Seq(Bytes) : q = Append(s, "Election")
    <3>1. ASSUME NEW S, NEW x \in S, NEW u \in Seq(S)
          PROVE  Append(u, x) \in Seq(S)
      OBVIOUS
    <3> QED
      BY <2>0, <3>1
  <2>3. \A i \in DOMAIN s : i \in DOMAIN q /\ q[i] = s[i]
    BY <1>1, <2>2
  <2> QED
    BY <2>1, <2>2, <2>3 DEF Has
<1>3. PICK c \in Connection : c = [cn[k] EXCEPT ![f] = q]
  BY <1>1, <1>2, Carrying
<1>4. /\ c.active = cn[k].active /\ c.passive = cn[k].passive /\ c.reset = cn[k].reset
      /\ Has(cn[k].toactive) => Has(c.toactive)
      /\ Has(cn[k].topassive) => Has(c.topassive)
  <2>1. CASE f = "toactive"
    BY <1>1, <1>2, <1>3, <2>1 DEF Connection
  <2>2. CASE f = "topassive"
    BY <1>1, <1>2, <1>3, <2>2 DEF Connection
  <2> QED
    BY <2>1, <2>2
<1>5. cs = [cn EXCEPT ![k] = c]
  BY <1>2, <1>3
<1>6. cs \in [Slots -> Connection] /\ cs[k] = c /\ \A j \in Slots : j # k => cs[j] = cn[j]
  BY <1>5
<1>7. ASSUME ChannelOK(ta, tp, cn), cn[k].active = "open",
             tp.kind = "PeerInfoRecving" => tp.conn \in Slots
      PROVE  ChannelOK(ta, tp, cs)
  <2>1. /\ ta.kind = "PeerInfoRecving" /\ ta.conn = k
        /\ <<cn[k].active, cn[k].passive>> \in Links /\ ~cn[k].reset
        /\ \A j \in Slots : j # k => cn[j] = FreeConn
    BY <1>7, Linked
  <2>2. OneConnection(ta, tp, cs)
    BY <1>4, <1>6, <1>7, <2>1 DEF ChannelOK, OneConnection
  <2>3. ASSUME tp.sent_local_port
        PROVE  tp.conn = k
    <3>1. cn[tp.conn].passive = "open" /\ tp.conn \in Slots
      BY <1>7, <2>3 DEF ChannelOK, OneConnection, Told
    <3> QED
      BY <2>1, <3>1, FreeFacts
  <2>4. Told(ta, tp, cs)
    BY <1>4, <1>6, <1>7, <2>1, <2>3 DEF ChannelOK, Told, Reaches
  <2> QED
    BY <2>2, <2>4 DEF ChannelOK
<1> QED
  BY <1>6, <1>7

-----------------------------------------------------------------------------
(* A connect() that fails *)

LEMMA Closing ==
    ASSUME NEW conn \in Connection, NEW roles
    PROVE  Without(conn, roles) \in Connection
<1>1. PICK rest \in Connection :
        rest = [conn EXCEPT !.active  = IF "active" \in roles THEN "closed" ELSE @,
                            !.passive = IF "passive" \in roles /\ @ # "none" THEN "closed" ELSE @]
  BY DEF Connection, EndStates
<1>2. Without(conn, roles) \in {FreeConn, rest}
  BY <1>1 DEF Without
<1> QED
  BY <1>1, <1>2, FreeFacts

LEMMA Failing ==
    ASSUME IInv, NEW c \in Connectors, status[c] = "setup",
           NEW td \in [Ends -> NetTodo], \A f \in Ends : Owner(f) # c => td[f] = todo[f],
           NEW cs \in [Channels -> [Slots -> Connection]],
           FailFrom(c, td, cs), UNCHANGED <<mismatched, attempts>>
    PROVE  IInv'
<1> DEFINE mine(h, k) == {e[2] : e \in {f \in EndsOf(c) : f[1] = h /\ td[f].conn = k}}
           left(h) == [k \in Slots |-> IF mine(h, k) = {} THEN cs[h][k]
                                       ELSE Without(cs[h][k], mine(h, k))]
<1>1. /\ status' = [status EXCEPT ![c] = "idle"]
      /\ todo' = [e \in Ends |-> IF Owner(e) = c THEN NoTodo ELSE td[e]]
      /\ conns' = [h \in Channels |-> IF Passive[h] = c THEN ListenerDropped(h, 0, left(h))
                                      ELSE left(h)]
  BY DEF FailFrom
<1>2. \A h \in Channels : left(h) \in [Slots -> Connection]
  <2> SUFFICES ASSUME NEW h \in Channels, NEW k \in Slots
               PROVE  (IF mine(h, k) = {} THEN cs[h][k] ELSE Without(cs[h][k], mine(h, k))) \in Connection
    OBVIOUS
  <2>1. cs[h][k] \in Connection
    OBVIOUS
  <2> HIDE DEF mine
  <2> QED
    BY <2>1, Closing
<1>3. \A h \in Channels : ListenerDropped(h, 0, left(h)) \in [Slots -> Connection]
  <2> SUFFICES ASSUME NEW h \in Channels
               PROVE  ListenerDropped(h, 0, left(h)) \in [Slots -> Connection]
    OBVIOUS
  <2>1. PICK l \in [Slots -> Connection] : l = left(h)
    BY <1>2
  <2>2. ASSUME NEW j \in Slots
        PROVE  (IF l[j].passive = "backlog" /\ j # 0 THEN Without(l[j], {"passive"}) ELSE l[j]) \in Connection
    BY Closing
  <2>3. ListenerDropped(h, 0, l) \in [Slots -> Connection]
    BY <2>2 DEF ListenerDropped
  <2> QED
    BY <2>1, <2>3
<1> HIDE DEF left, mine
<1>4. \A f \in Ends : todo'[f] = IF Owner(f) = c THEN NoTodo ELSE todo[f]
  BY <1>1
<1>5. NoTodo \in NetTodo /\ NoTodo.kind = "none" /\ ~NoTodo.recv_peer_port /\ ~NoTodo.retry
      /\ NoTodo.incomplete
  BY NewFacts, PairingBounds DEF NoTodo
<1>6. TypeOK'
  <2>1. conns' \in [Channels -> [Slots -> Connection]]
    BY <1>1, <1>2, <1>3
  <2>2. todo' \in [Ends -> NetTodo]
    BY <1>1, <1>5
  <2>3. status' \in [Connectors -> {"idle", "setup", "done", "panicked"}]
    BY <1>1 DEF IInv, TypeOK
  <2> QED
    BY <2>1, <2>2, <2>3 DEF IInv, TypeOK, NetTodo, Connection
<1>7. TodoInv'
  <2> SUFFICES ASSUME NEW e \in Ends PROVE TodoOK(e, todo[e])'
    BY DEF TodoInv
  <2>1. CASE Owner(e) = c
    BY <1>4, <1>5, <2>1 DEF TodoOK
  <2>2. CASE Owner(e) # c
    BY <1>4, <2>2 DEF TodoOK, TodoInv, IInv
  <2> QED
    BY <2>1, <2>2
<1>8. StatusInv'
  <2> SUFFICES ASSUME NEW d \in Connectors
               PROVE  /\ status'[d] = "done" => \A e \in EndsOf(d) : ~todo'[e].incomplete
                      /\ status'[d] = "idle" => \A e \in EndsOf(d) : todo'[e] = NoTodo
                      /\ status'[d] # "idle" => attempts'[d] >= 1
    BY DEF StatusInv
  <2>1. \A e \in EndsOf(d) : e \in Ends /\ Owner(e) = d
    BY DEF EndsOf
  <2>2. CASE d = c
    BY <1>1, <1>4, <2>1, <2>2 DEF IInv, TypeOK
  <2>3. CASE d # c
    BY <1>1, <1>4, <2>1, <2>3 DEF IInv, TypeOK, StatusInv
  <2> QED
    BY <2>2, <2>3
<1>9. FirstInv'
  <2>1. status'[c] = "idle"
    BY <1>1 DEF IInv, TypeOK
  <2>2. attempts[c] >= 1
    BY DEF IInv, StatusInv
  <2>3. attempts'[c] # 0
    BY <2>2
  <2> QED
    BY <2>1, <2>3 DEF FirstInv, FirstTime
<1> QED
  BY <1>6, <1>7, <1>8, <1>9 DEF IInv

-----------------------------------------------------------------------------
(* The steps *)

\* With the NetTodo `new` for e and the connections csn, the channel of e stays
\* in order.
StillOK(e, new, csn) ==
    FirstTime =>
        /\ e[2] = "active"  => ChannelOK(new, todo[<<e[1], "passive">>], csn)
        /\ e[2] = "passive" => ChannelOK(todo[<<e[1], "active">>], new, csn)

LEMMA Types ==
    ASSUME TypeOK
    PROVE  /\ todo \in [Ends -> NetTodo] /\ conns \in [Channels -> [Slots -> Connection]]
           /\ status \in [Connectors -> {"idle", "setup", "done", "panicked"}]
           /\ attempts \in [Connectors -> Nat]
BY DEF TypeOK, NetTodo, Connection

LEMMA ChannelEnd ==
    ASSUME IInv, NEW e \in Ends
    PROVE  StillOK(e, todo[e], conns[e[1]])
BY EndFacts DEF IInv, FirstInv, StillOK

LEMMA TwoEnds ==
    ASSUME NEW h \in Channels
    PROVE  /\ <<h, "active">> \in Ends /\ <<h, "passive">> \in Ends
           /\ <<h, "active">>[1] = h /\ <<h, "passive">>[1] = h
           /\ <<h, "active">>[2] = "active" /\ <<h, "passive">>[2] = "passive"
BY DEF Ends

\* A step of one end.
LEMMA OneEnd ==
    ASSUME IInv, NEW e \in Ends, NEW new \in NetTodo, NEW csn \in [Slots -> Connection],
           TodoOK(e, new), StillOK(e, new, csn),
           status[Owner(e)] = "setup" \/ new = todo[e],
           todo' = [todo EXCEPT ![e] = new], conns' = [conns EXCEPT ![e[1]] = csn],
           UNCHANGED <<mismatched, status, attempts>>
    PROVE  IInv'
<1>1. /\ todo \in [Ends -> NetTodo] /\ conns \in [Channels -> [Slots -> Connection]]
  BY Types DEF IInv
<1>2. /\ e[1] \in Channels /\ e[2] \in {"active", "passive"} /\ e = <<e[1], e[2]>>
      /\ Owner(e) \in Connectors
  BY EndFacts
<1>3. /\ todo' \in [Ends -> NetTodo] /\ conns' \in [Channels -> [Slots -> Connection]]
      /\ todo'[e] = new /\ conns'[e[1]] = csn
      /\ \A f \in Ends : f # e => todo'[f] = todo[f]
      /\ \A h \in Channels : h # e[1] => conns'[h] = conns[h]
  BY <1>1, <1>2
<1>4. TypeOK'
  BY <1>3 DEF IInv, TypeOK, NetTodo, Connection
<1>5. TodoInv'
  <2> SUFFICES ASSUME NEW f \in Ends PROVE TodoOK(f, todo[f])'
    BY DEF TodoInv
  <2>1. TodoOK(f, todo'[f])
    BY <1>3 DEF IInv, TodoInv
  <2> QED
    BY <2>1 DEF TodoOK
<1>6. StatusInv'
  <2> SUFFICES ASSUME NEW d \in Connectors
               PROVE  /\ status[d] = "done" => \A f \in EndsOf(d) : ~todo'[f].incomplete
                      /\ status[d] = "idle" => \A f \in EndsOf(d) : todo'[f] = NoTodo
                      /\ status[d] # "idle" => attempts[d] >= 1
    BY DEF StatusInv
  <2>1. \A f \in EndsOf(d) : f \in Ends /\ Owner(f) = d
    BY DEF EndsOf
  <2>2. CASE status[d] \notin {"done", "idle"}
    BY <2>2 DEF IInv, StatusInv
  <2>3. CASE status[d] \in {"done", "idle"}
    <3>1. \A f \in EndsOf(d) : todo'[f] = todo[f]
      BY <1>3, <2>1, <2>3
    <3> QED
      BY <3>1 DEF IInv, StatusInv
  <2> QED
    BY <2>2, <2>3
<1>7. FirstInv'
  <2> SUFFICES ASSUME FirstTime, NEW h \in Channels
               PROVE  ChannelOK(todo'[<<h, "active">>], todo'[<<h, "passive">>], conns'[h])
    BY DEF FirstInv, FirstTime
  <2>1. <<h, "active">> \in Ends /\ <<h, "passive">> \in Ends /\ <<h, "active">> # <<h, "passive">>
    BY DEF Ends
  <2>2. CASE h # e[1]
    <3>1. <<h, "active">> # e /\ <<h, "passive">> # e
      BY <1>2, <2>2
    <3> QED
      BY <1>3, <2>1, <2>2, <3>1 DEF IInv, FirstInv
  <2>3. CASE h = e[1] /\ e[2] = "active"
    <3>1. e = <<h, "active">>
      BY <1>2, <2>3
    <3> QED
      BY <1>3, <2>1, <2>3, <3>1 DEF StillOK
  <2>4. CASE h = e[1] /\ e[2] = "passive"
    <3>1. e = <<h, "passive">>
      BY <1>2, <2>4
    <3> QED
      BY <1>3, <2>1, <2>4, <3>1 DEF StillOK
  <2> QED
    BY <1>2, <2>2, <2>3, <2>4
<1> QED
  BY <1>4, <1>5, <1>6, <1>7 DEF IInv

LEMMA Handling ==
    ASSUME IInv, NEW e \in Ends, status[Owner(e)] = "setup",
           NEW t \in NetTodo, t.kind = "PeerInfoRecving", t.conn \in Slots, TodoOK(e, t),
           NEW cs \in [Slots -> Connection], StillOK(e, t, cs),
           e[2] = "active" => cs[t.conn].active = "open",
           NEW w \in BOOLEAN, NEW r \in BOOLEAN, Exchange(e, t, cs, w, r),
           UNCHANGED <<mismatched, attempts>>
    PROVE  IInv'
<1>1. /\ e[1] \in Channels /\ e[2] \in {"active", "passive"} /\ e = <<e[1], e[2]>>
      /\ Owner(e) \in Connectors /\ Other(e) \in Ends /\ Other(e)[1] = e[1] /\ Other(e)[2] # e[2]
      /\ Other(e) = <<Other(e)[1], Other(e)[2]>> /\ Other(e)[2] \in {"active", "passive"}
  BY EndFacts
<1>2. ASSUME status' = [status EXCEPT ![Owner(e)] = "panicked"], UNCHANGED <<todo, conns>>
      PROVE  IInv'
  <2>1. /\ status'[Owner(e)] = "panicked"
        /\ status' \in [Connectors -> {"idle", "setup", "done", "panicked"}]
        /\ \A d \in Connectors : d # Owner(e) => status'[d] = status[d]
    BY <1>1, <1>2 DEF IInv, TypeOK
  <2>2. TypeOK' /\ TodoInv'
    BY <1>2, <2>1 DEF IInv, TypeOK, TodoInv, TodoOK
  <2>3. StatusInv'
    BY <1>1, <1>2, <2>1 DEF IInv, StatusInv
  <2>4. FirstTime' => FirstTime
    BY <2>1 DEF FirstTime
  <2>5. FirstInv'
    BY <1>2, <2>4 DEF IInv, FirstInv
  <2> QED
    BY <2>2, <2>3, <2>5 DEF IInv
<1>3. ASSUME FailsAt(e)
      PROVE  IInv'
  <2>1. PICK td \in [Ends -> NetTodo], cn \in [Channels -> [Slots -> Connection]] :
            /\ \A f \in Ends : f # e => td[f] = todo[f]
            /\ FailFrom(Owner(e), td, cn)
    BY <1>3 DEF FailsAt
  <2>2. \A f \in Ends : Owner(f) # Owner(e) => td[f] = todo[f]
    BY <2>1
  <2> QED
    BY <1>1, <2>1, <2>2, Failing
<1>4. ASSUME NEW new \in NetTodo, NEW csn \in [Slots -> Connection], status' = status,
             todo' = [todo EXCEPT ![e] = new], conns' = [conns EXCEPT ![e[1]] = csn],
             Updated(e, t, new), Carried(e, t, new, cs, csn)
      PROVE  IInv'
  <2>1. TodoOK(e, new)
    BY <1>4 DEF TodoOK, Updated
  <2>2. StillOK(e, new, csn)
    <3>1. ASSUME FirstTime, e[2] = "active"
          PROVE  ChannelOK(new, todo[<<e[1], "passive">>], csn)
      <4>1. PICK tp : tp = todo[<<e[1], "passive">>]
        OBVIOUS
      <4>2. ChannelOK(t, tp, cs)
        BY <3>1, <4>1 DEF StillOK
      <4>3. e = <<e[1], "active">> /\ <<e[1], "passive">> \in Ends
        BY <1>1, <3>1 DEF Ends
      <4>4. tp.kind = "PeerInfoRecving" => tp.conn \in Slots
        BY <4>1, <4>3 DEF IInv, TodoInv, TodoOK
      <4>5. PICK k \in Slots : k = t.conn /\ cs[k].active = "open"
        BY <3>1
      <4>6. Updated(<<e[1], "active">>, t, new) /\ Carried(<<e[1], "active">>, t, new, cs, csn)
        BY <1>4, <4>3
      <4> QED
        BY <1>1, <4>1, <4>2, <4>4, <4>5, <4>6, MetActive
    <3>2. ASSUME FirstTime, e[2] = "passive"
          PROVE  ChannelOK(todo[<<e[1], "active">>], new, csn)
      <4>1. PICK ta : ta = todo[<<e[1], "active">>]
        OBVIOUS
      <4>2. ChannelOK(ta, t, cs)
        BY <3>2, <4>1 DEF StillOK
      <4>3. e = <<e[1], "passive">>
        BY <1>1, <3>2
      <4>5. PICK k \in Slots : k = t.conn
        OBVIOUS
      <4>6. Updated(<<e[1], "passive">>, t, new) /\ Carried(<<e[1], "passive">>, t, new, cs, csn)
        BY <1>4, <4>3
      <4> QED
        BY <1>1, <4>1, <4>2, <4>5, <4>6, MetPassive
    <3> QED
      BY <3>1, <3>2 DEF StillOK
  <2> QED
    BY <1>4, <2>1, <2>2, OneEnd
<1> QED
  BY <1>2, <1>3, <1>4, ExchangeForm DEF IInv

LEMMA ReadyStep ==
    ASSUME IInv, NEW e \in Ends, NEW w \in BOOLEAN, NEW r \in BOOLEAN, Ready(e, w, r)
    PROVE  IInv'
<1>1. /\ todo[e] \in NetTodo /\ conns[e[1]] \in [Slots -> Connection]
      /\ TodoOK(e, todo[e]) /\ StillOK(e, todo[e], conns[e[1]])
  BY Types, EndFacts, ChannelEnd DEF IInv, TodoInv
<1>2. todo[e].conn \in Slots
  BY <1>1 DEF Ready, TodoOK
<1>3. e[2] = "active" => conns[e[1]][todo[e].conn].active = "open"
  BY DEF Ready, Stream
<1> QED
  BY <1>1, <1>2, <1>3, Handling DEF Ready

LEMMA AcceptStep ==
    ASSUME IInv, NEW e \in Ends, Accept(e)
    PROVE  IInv'
<1>1. /\ todo[e] \in NetTodo /\ conns[e[1]] \in [Slots -> Connection]
      /\ TodoOK(e, todo[e]) /\ StillOK(e, todo[e], conns[e[1]]) /\ e[1] \in Channels
  BY Types, EndFacts, ChannelEnd DEF IInv, TodoInv
<1>2. PICK tp \in NetTodo, cn \in [Slots -> Connection] :
        tp = todo[e] /\ cn = conns[e[1]] /\ tp.kind = "Accepting"
  BY <1>1 DEF Accept
<1>3. tp = NewTodo("Accepting", 0) /\ e[2] = "passive"
  BY <1>1, <1>2 DEF TodoOK
<1>4. PICK k \in Slots :
        /\ cn[k].passive = "backlog"
        /\ Exchange(e, [tp EXCEPT !.kind = "PeerInfoRecving", !.conn = k],
                    With(ListenerDropped(e[1], k, cn), k, [cn[k] EXCEPT !.passive = "open"]),
                    FALSE, TRUE)
  BY <1>2 DEF Accept
<1>5. PICK t : t = [tp EXCEPT !.kind = "PeerInfoRecving", !.conn = k]
  OBVIOUS
<1>6. PICK cs : cs = With(ListenerDropped(e[1], k, cn), k, [cn[k] EXCEPT !.passive = "open"])
  OBVIOUS
<1>7. /\ t \in NetTodo /\ t.kind = "PeerInfoRecving" /\ t.conn \in Slots
      /\ t.incomplete /\ ~t.recv_peer_port /\ ~t.retry
  <2>1. k \in 0..MaxConns
    BY PairingBounds DEF Slots
  <2>2. 0 \in 0..MaxConns
    BY PairingBounds
  <2>3. tp.incomplete /\ ~tp.recv_peer_port /\ ~tp.retry
    BY <1>3, <2>2, NewFacts
  <2> QED
    BY <1>5, <2>1, <2>3 DEF NetTodo
<1>8. TodoOK(e, t)
  BY <1>7 DEF TodoOK
<1>9. cs \in [Slots -> Connection]
  <2>1. PICK c \in Connection : c = [cn[k] EXCEPT !.passive = "open"]
    BY DEF Connection, EndStates
  <2>2. \A j \in Slots : Without(cn[j], {"passive"}) \in Connection
    BY Closing
  <2> QED
    BY <1>6, <2>1, <2>2 DEF With, ListenerDropped
<1>10. StillOK(e, t, cs)
  <2> SUFFICES ASSUME FirstTime
               PROVE  ChannelOK(todo[<<e[1], "active">>], t, cs)
    BY <1>3 DEF StillOK
  <2>1. PICK ta : ta = todo[<<e[1], "active">>] /\ ChannelOK(ta, tp, cn)
    BY <1>1, <1>2, <1>3 DEF StillOK
  <2> QED
    BY <1>1, <1>3, <1>4, <1>5, <1>6, <2>1, Accepting
<1>11. Exchange(e, t, cs, FALSE, TRUE) /\ status[Owner(e)] = "setup"
       /\ UNCHANGED <<mismatched, attempts>>
  BY <1>4, <1>5, <1>6 DEF Accept
<1> QED
  BY <1>3, <1>7, <1>8, <1>9, <1>10, <1>11, Handling

LEMMA FailureSteps ==
    ASSUME IInv, \/ \E c \in Connectors : Timeout(c)
                 \/ \E e \in Ends : ErrorPassive(e)
    PROVE  IInv'
<1>1. PICK c \in Connectors : status[c] = "setup" /\ FailFrom(c, todo, conns)
                              /\ UNCHANGED <<mismatched, attempts>>
  BY EndFacts DEF Timeout, ErrorPassive, Fail
<1>2. todo \in [Ends -> NetTodo] /\ conns \in [Channels -> [Slots -> Connection]]
  BY Types DEF IInv
<1> QED
  BY <1>1, <1>2, Failing

LEMMA ErrorActiveStep ==
    ASSUME IInv, NEW e \in Ends, ErrorActive(e)
    PROVE  IInv'
<1>1. /\ todo \in [Ends -> NetTodo] /\ conns \in [Channels -> [Slots -> Connection]]
      /\ TodoOK(e, todo[e]) /\ StillOK(e, todo[e], conns[e[1]])
      /\ e[1] \in Channels /\ e = <<e[1], e[2]>>
  BY Types, EndFacts, ChannelEnd DEF IInv, TodoInv
<1>2. PICK cn \in [Slots -> Connection], t \in NetTodo : cn = conns[e[1]] /\ t = todo[e]
  BY <1>1
<1>3. PICK new : new = [t EXCEPT !.retry = TRUE]
  OBVIOUS
<1>4. /\ new \in NetTodo /\ new.retry /\ new.kind = t.kind /\ new.conn = t.conn
      /\ new.inbox = t.inbox /\ new.sent_local_port = t.sent_local_port
      /\ new.recv_peer_port = t.recv_peer_port /\ new.incomplete = t.incomplete
      /\ new.polled = t.polled
  BY <1>3 DEF NetTodo
<1>5. t.kind = "PeerInfoRecving" /\ e[2] = "active"
  BY <1>2 DEF ErrorActive
<1>6. TodoOK(e, new)
  BY <1>1, <1>2, <1>4, <1>5 DEF TodoOK
<1>7. StillOK(e, new, cn)
  <2> SUFFICES ASSUME FirstTime
               PROVE  ChannelOK(new, todo[<<e[1], "passive">>], cn)
    BY <1>5 DEF StillOK
  <2>1. PICK tp : tp = todo[<<e[1], "passive">>] /\ ChannelOK(t, tp, cn)
    BY <1>1, <1>2, <1>5 DEF StillOK
  <2>2. t.conn \in Slots
    BY <1>1, <1>2, <1>5 DEF TodoOK
  <2>3. cn[t.conn].active = "refused" \/ cn[t.conn].reset
    BY <1>2, <1>5 DEF ErrorActive, HasError, Stream
  <2>4. ~cn[t.conn].reset
    BY <2>1, <2>2, FreeFacts DEF ChannelOK, OneConnection
  <2>5. OneConnection(new, tp, cn)
    BY <1>4, <2>1 DEF ChannelOK, OneConnection
  <2>6. Told(new, tp, cn)
    BY <1>4, <2>1, <2>3, <2>4 DEF ChannelOK, Told, Reaches
  <2> QED
    BY <2>1, <2>5, <2>6 DEF ChannelOK
<1>8. todo' = [todo EXCEPT ![e] = new] /\ conns' = [conns EXCEPT ![e[1]] = cn]
  BY <1>1, <1>2, <1>3 DEF ErrorActive
<1> QED
  BY <1>4, <1>6, <1>7, <1>8, OneEnd DEF ErrorActive

LEMMA ReadyCompleteStep ==
    ASSUME IInv, NEW e \in Ends, ReadyComplete(e)
    PROVE  IInv'
<1>1. /\ todo \in [Ends -> NetTodo] /\ conns \in [Channels -> [Slots -> Connection]]
      /\ TodoOK(e, todo[e]) /\ StillOK(e, todo[e], conns[e[1]])
      /\ e[1] \in Channels /\ e = <<e[1], e[2]>>
  BY Types, EndFacts, ChannelEnd DEF IInv, TodoInv
<1>2. PICK cn \in [Slots -> Connection], t \in NetTodo : cn = conns[e[1]] /\ t = todo[e]
  BY <1>1
<1>3. PICK new : new = [t EXCEPT !.polled = TRUE]
  OBVIOUS
<1>4. /\ new \in NetTodo /\ new.polled /\ new.kind = t.kind /\ new.conn = t.conn
      /\ new.inbox = t.inbox /\ new.sent_local_port = t.sent_local_port
      /\ new.recv_peer_port = t.recv_peer_port /\ new.incomplete = t.incomplete
      /\ new.retry = t.retry
  BY <1>3 DEF NetTodo
<1>5. ~t.incomplete
  BY <1>2 DEF ReadyComplete
<1>6. TodoOK(e, new)
  <2>1. NoTodo.incomplete /\ NewTodo("Accepting", 0).incomplete
    BY DEF NoTodo, NewTodo
  <2>2. t.kind = "PeerInfoRecving"
    BY <1>1, <1>2, <1>5, <2>1 DEF TodoOK, NetTodo
  <2> QED
    BY <1>1, <1>2, <1>4, <2>2 DEF TodoOK
<1>7. StillOK(e, new, cn)
  <2>1. ASSUME NEW other, ChannelOK(t, other, cn)
        PROVE  ChannelOK(new, other, cn)
    BY <1>4, <2>1 DEF ChannelOK, OneConnection, Told, Reaches
  <2>2. ASSUME NEW other, ChannelOK(other, t, cn)
        PROVE  ChannelOK(other, new, cn)
    BY <1>4, <2>2 DEF ChannelOK, OneConnection, Told, Reaches
  <2> QED
    BY <1>1, <1>2, <2>1, <2>2 DEF StillOK
<1>8. todo' = [todo EXCEPT ![e] = new] /\ conns' = [conns EXCEPT ![e[1]] = cn]
  BY <1>1, <1>2, <1>3 DEF ReadyComplete
<1> QED
  BY <1>4, <1>6, <1>7, <1>8, OneEnd DEF ReadyComplete

LEMMA ElectStep ==
    ASSUME IInv, NEW e \in Ends, Elect(e)
    PROVE  IInv'
<1>1. /\ todo \in [Ends -> NetTodo] /\ conns \in [Channels -> [Slots -> Connection]]
      /\ TodoOK(e, todo[e]) /\ StillOK(e, todo[e], conns[e[1]])
      /\ e[1] \in Channels /\ e = <<e[1], e[2]>> /\ e[2] \in {"active", "passive"}
      /\ To(Other(e)) \in {"toactive", "topassive"}
      /\ e \in EndsOf(Owner(e)) /\ Owner(e) \in Connectors
  BY Types, EndFacts, ChannelEnd DEF IInv, TodoInv
<1>2. PICK cn \in [Slots -> Connection], t \in NetTodo, f \in {"toactive", "topassive"} :
        cn = conns[e[1]] /\ t = todo[e] /\ f = To(Other(e))
  BY <1>1
<1>3. t.kind = "PeerInfoRecving"
  BY <1>2 DEF Elect
<1>4. PICK k \in Slots : k = t.conn
  BY <1>1, <1>2, <1>3 DEF TodoOK
<1>5. t.sent_local_port
  <2>1. ~todo[e].incomplete
    BY <1>1 DEF IInv, StatusInv, Elect
  <2> QED
    BY <1>1, <1>2, <2>1 DEF TodoOK
<1>6. PICK cs : cs = [cn EXCEPT ![k][f] = Append(@, "Election")]
  OBVIOUS
<1>7. cs \in [Slots -> Connection]
  BY <1>6, Electing
<1>8. StillOK(e, t, cs)
  <2>1. ASSUME FirstTime, e[2] = "active"
        PROVE  ChannelOK(t, todo[<<e[1], "passive">>], cs)
    <3>1. PICK tp : tp = todo[<<e[1], "passive">>] /\ ChannelOK(t, tp, cn)
      BY <1>1, <1>2, <2>1 DEF StillOK
    <3>2. <<e[1], "passive">> \in Ends
      BY <1>1 DEF Ends
    <3>3. tp.kind = "PeerInfoRecving" => tp.conn \in Slots
      BY <3>1, <3>2 DEF IInv, TodoInv, TodoOK
    <3>4. cn[k].active = "open"
      BY <1>4, <1>5, <3>1 DEF ChannelOK, Told
    <3> QED
      BY <1>6, <3>1, <3>3, <3>4, Electing
  <2>2. ASSUME FirstTime, e[2] = "passive"
        PROVE  ChannelOK(todo[<<e[1], "active">>], t, cs)
    <3>1. PICK ta : ta = todo[<<e[1], "active">>] /\ ChannelOK(ta, t, cn)
      BY <1>1, <1>2, <2>2 DEF StillOK
    <3>2. cn[k].passive = "open"
      BY <1>3, <1>4, <3>1 DEF ChannelOK, OneConnection
    <3>3. <<cn[k].active, cn[k].passive>> \in Links
      BY <3>1, <3>2, Linked
    <3>4. cn[k].active = "open"
      BY <3>2, <3>3 DEF Links
    <3>5. t.kind = "PeerInfoRecving" => t.conn \in Slots
      BY <1>4
    <3> QED
      BY <1>6, <3>1, <3>4, <3>5, Electing
  <2> QED
    BY <2>1, <2>2 DEF StillOK
<1>9. todo' = [todo EXCEPT ![e] = t] /\ conns' = [conns EXCEPT ![e[1]] = cs]
  BY <1>1, <1>2, <1>4, <1>6 DEF Elect
<1> QED
  BY <1>1, <1>2, <1>7, <1>8, <1>9, OneEnd DEF Elect

LEMMA ReachStep ==
    ASSUME IInv, NEW h \in Channels, NEW k \in Slots, Reach(h, k)
    PROVE  IInv'
<1>1. PICK e \in Ends : e = <<h, "active">> /\ e[1] = h /\ e[2] = "active"
  BY TwoEnds
<1>2. /\ todo \in [Ends -> NetTodo] /\ conns \in [Channels -> [Slots -> Connection]]
      /\ TodoOK(e, todo[e]) /\ StillOK(e, todo[e], conns[h])
  BY <1>1, Types, ChannelEnd DEF IInv, TodoInv
<1>3. PICK cn \in [Slots -> Connection], t \in NetTodo : cn = conns[h] /\ t = todo[e]
  BY <1>2
<1>4. PICK c \in Connection :
        /\ \/ c = [cn[k] EXCEPT !.active = "open", !.passive = "backlog"] /\ Listening(h)
           \/ c = [cn[k] EXCEPT !.active = "refused"] /\ ~Listening(h)
        /\ <<c.active, c.passive>> \in {<<"refused", cn[k].passive>>, <<"open", "backlog">>}
        /\ c.reset = cn[k].reset
  <2>1. CASE Listening(h)
    <3>1. [cn[k] EXCEPT !.active = "open", !.passive = "backlog"] \in Connection
      BY DEF Connection, EndStates
    <3> QED
      BY <2>1, <3>1 DEF Connection
  <2>2. CASE ~Listening(h)
    <3>1. [cn[k] EXCEPT !.active = "refused"] \in Connection
      BY DEF Connection, EndStates
    <3> QED
      BY <2>2, <3>1 DEF Connection
  <2> QED
    BY <2>1, <2>2
<1>5. PICK cs \in [Slots -> Connection] : cs = [cn EXCEPT ![k] = c]
  OBVIOUS
<1>6. cs[k] = c /\ \A j \in Slots : j # k => cs[j] = cn[j]
  BY <1>5
<1>7. todo' = [todo EXCEPT ![e] = t] /\ conns' = [conns EXCEPT ![h] = cs]
  BY <1>1, <1>2, <1>3, <1>4, <1>5 DEF Reach
<1>8. StillOK(e, t, cs)
  <2> SUFFICES ASSUME FirstTime PROVE ChannelOK(t, todo[<<h, "passive">>], cs)
    BY <1>1 DEF StillOK
  <2>1. PICK tp : tp = todo[<<h, "passive">>] /\ ChannelOK(t, tp, cn)
    BY <1>1, <1>2, <1>3 DEF StillOK
  <2>2. <<h, "passive">> \in Ends
    BY DEF Ends
  <2>3. tp.kind = "PeerInfoRecving" => tp.conn \in Slots
    BY <2>1, <2>2 DEF IInv, TodoInv, TodoOK
  <2>4. cn[k].active = "connecting"
    BY <1>3 DEF Reach
  <2>5. cn[k].passive = "none"
    <3>1. <<cn[k].active, cn[k].passive>> \in Links
      BY <2>1, <2>4, Linked
    <3> QED
      BY <2>4, <3>1 DEF Links
  <2> QED
    BY <1>4, <1>6, <2>1, <2>3, <2>4, <2>5, Arriving
<1> QED
  BY <1>1, <1>2, <1>3, <1>7, <1>8, OneEnd DEF Reach

LEMMA ResetStep ==
    ASSUME IInv, NEW h \in Channels, NEW k \in Slots, Reset(h, k)
    PROVE  IInv'
<1>1. PICK e \in Ends : e = <<h, "active">> /\ e[1] = h /\ e[2] = "active"
  BY TwoEnds
<1>2. /\ todo \in [Ends -> NetTodo] /\ conns \in [Channels -> [Slots -> Connection]]
      /\ TodoOK(e, todo[e]) /\ StillOK(e, todo[e], conns[h])
  BY <1>1, Types, ChannelEnd DEF IInv, TodoInv
<1>3. PICK cn \in [Slots -> Connection], t \in NetTodo : cn = conns[h] /\ t = todo[e]
  BY <1>2
<1>4. PICK c \in Connection : c = [cn[k] EXCEPT !.reset = TRUE]
  BY DEF Connection
<1>5. PICK cs \in [Slots -> Connection] : cs = [cn EXCEPT ![k] = c]
  OBVIOUS
<1>6. todo' = [todo EXCEPT ![e] = t] /\ conns' = [conns EXCEPT ![h] = cs]
  BY <1>1, <1>2, <1>3, <1>4, <1>5 DEF Reset
<1>7. ~FirstTime
  <2> SUFFICES ASSUME FirstTime PROVE FALSE
    OBVIOUS
  <2>1. PICK tp : ChannelOK(t, tp, cn)
    BY <1>1, <1>2, <1>3 DEF StillOK
  <2>2. {cn[k].active, cn[k].passive} = {"open", "closed"}
    BY <1>3 DEF Reset
  <2>3. cn[k].active = "closed" \/ cn[k].passive = "closed"
    BY <2>2
  <2>4. <<cn[k].active, cn[k].passive>> \in Links
    BY <2>1, <2>3, Linked
  <2> QED
    BY <2>3, <2>4 DEF Links
<1> QED
  BY <1>1, <1>2, <1>3, <1>6, <1>7, OneEnd DEF Reset, StillOK

LEMMA FinishStep ==
    ASSUME IInv, NEW c \in Connectors, Finish(c)
    PROVE  IInv'
<1>1. /\ status'[c] = "done"
      /\ status' \in [Connectors -> {"idle", "setup", "done", "panicked"}]
      /\ \A d \in Connectors : d # c => status'[d] = status[d]
  BY DEF Finish, IInv, TypeOK
<1>2. TypeOK' /\ TodoInv'
  BY <1>1 DEF Finish, IInv, TypeOK, TodoInv, TodoOK
<1>3. StatusInv'
  BY <1>1 DEF Finish, IInv, StatusInv
<1>4. FirstTime' => FirstTime
  BY <1>1 DEF Finish, FirstTime
<1>5. FirstInv'
  BY <1>4 DEF Finish, IInv, FirstInv
<1> QED
  BY <1>2, <1>3, <1>5 DEF IInv

LEMMA Slot ==
    ASSUME NEW h, FreeSlots(h) # {}
    PROVE  NextSlot(h) \in Slots /\ conns[h][NextSlot(h)] = FreeConn
BY DEF NextSlot, FreeSlots

LEMMA StartStep ==
    ASSUME IInv, NEW c \in Connectors, Start(c)
    PROVE  IInv'
<1>1. /\ todo \in [Ends -> NetTodo] /\ conns \in [Channels -> [Slots -> Connection]]
      /\ status \in [Connectors -> {"idle", "setup", "done", "panicked"}]
      /\ attempts \in [Connectors -> Nat]
  BY Types DEF IInv
<1>2. /\ status'[c] = "setup" /\ attempts'[c] = attempts[c] + 1
      /\ status' \in [Connectors -> {"idle", "setup", "done", "panicked"}]
      /\ attempts' \in [Connectors -> Nat]
      /\ \A d \in Connectors : d # c => status'[d] = status[d] /\ attempts'[d] = attempts[d]
  BY <1>1 DEF Start
<1>3. \A e \in EndsOf(c) : todo[e] = NoTodo
  BY DEF Start, IInv, StatusInv
<1>4. \A h \in Channels : Active[h] = c => NextSlot(h) \in Slots /\ FreeSlots(h) # {}
  <2> SUFFICES ASSUME NEW h \in Channels, Active[h] = c
               PROVE  NextSlot(h) \in Slots /\ FreeSlots(h) # {}
    OBVIOUS
  <2>1. <<h, "active">> \in EndsOf(c)
    BY TwoEnds DEF EndsOf, Owner
  <2>2. FreeSlots(h) # {}
    BY <2>1, TwoEnds DEF Start
  <2> QED
    BY <2>2, Slot
<1>5. \A e \in Ends : todo'[e] = IF Owner(e) # c THEN todo[e]
                                 ELSE IF e[2] = "active" THEN NewTodo("PeerInfoRecving", NextSlot(e[1]))
                                 ELSE NewTodo("Accepting", 0)
  BY DEF Start
<1>6. \A e \in Ends : Owner(e) = c => todo'[e] \in NetTodo /\ todo'[e].incomplete /\ TodoOK(e, todo'[e])
  <2> SUFFICES ASSUME NEW e \in Ends, Owner(e) = c
               PROVE  todo'[e] \in NetTodo /\ todo'[e].incomplete /\ TodoOK(e, todo'[e])
    OBVIOUS
  <2>1. CASE e[2] = "active"
    <3>1. PICK k \in Slots : k = NextSlot(e[1])
      BY <1>4, <2>1, EndFacts DEF Owner
    <3>2. todo'[e] = NewTodo("PeerInfoRecving", k) /\ k \in 0..MaxConns
      BY <1>5, <2>1, <3>1, PairingBounds DEF Slots
    <3> QED
      BY <2>1, <3>2, NewFacts DEF TodoOK
  <2>2. CASE e[2] = "passive"
    <3>1. todo'[e] = NewTodo("Accepting", 0) /\ 0 \in 0..MaxConns
      BY <1>5, <2>2, PairingBounds
    <3> QED
      BY <2>2, <3>1, NewFacts DEF TodoOK
  <2> QED
    BY <2>1, <2>2, EndFacts
<1>7. TypeOK'
  <2>1. todo' \in [Ends -> NetTodo]
    <3>1. \A e \in Ends : todo'[e] \in NetTodo
      BY <1>1, <1>5, <1>6
    <3>2. todo' = [e \in Ends |-> todo'[e]]
      BY DEF Start
    <3> QED
      BY <3>1, <3>2
  <2>2. conns' \in [Channels -> [Slots -> Connection]]
    <3>1. PICK new \in Connection : new = [FreeConn EXCEPT !.active = "connecting"]
      BY FreeFacts
    <3> QED
      BY <1>1, <3>1 DEF Start
  <2>3. \A d \in Connectors : attempts'[d] <= MaxAttempts[d]
    <3>1. MaxAttempts[c] \in Nat /\ attempts[c] < MaxAttempts[c] /\ attempts[c] \in Nat
      BY <1>1, PairingBounds DEF Start
    <3>2. attempts'[c] <= MaxAttempts[c]
      BY <1>2, <3>1
    <3> QED
      BY <1>2, <3>2 DEF IInv, TypeOK
  <2> QED
    BY <1>2, <2>1, <2>2, <2>3 DEF Start, IInv, TypeOK, NetTodo, Connection
<1>8. TodoInv'
  <2> SUFFICES ASSUME NEW e \in Ends PROVE TodoOK(e, todo[e])'
    BY DEF TodoInv
  <2>1. TodoOK(e, todo'[e])
    BY <1>5, <1>6 DEF IInv, TodoInv
  <2> QED
    BY <2>1 DEF TodoOK, Start
<1>9. StatusInv'
  <2> SUFFICES ASSUME NEW d \in Connectors
               PROVE  /\ status'[d] = "done" => \A f \in EndsOf(d) : ~todo'[f].incomplete
                      /\ status'[d] = "idle" => \A f \in EndsOf(d) : todo'[f] = NoTodo
                      /\ status'[d] # "idle" => attempts'[d] >= 1
    BY DEF StatusInv
  <2>1. CASE d = c
    BY <1>1, <1>2, <2>1
  <2>2. CASE d # c
    <3>1. \A f \in EndsOf(d) : todo'[f] = todo[f]
      BY <1>5, <2>2 DEF EndsOf
    <3> QED
      BY <1>2, <2>2, <3>1 DEF IInv, StatusInv
  <2> QED
    BY <2>1, <2>2
<1>10. FirstTime' => FirstTime
  <2>1. attempts[c] \in Nat /\ attempts[c] + 1 # 0 /\ (attempts[c] + 1 = 1 => attempts[c] = 0)
    BY <1>1
  <2> QED
    BY <1>2, <2>1 DEF FirstTime
<1>11. ASSUME FirstTime, NEW h \in Channels
       PROVE  ChannelOK(todo'[<<h, "active">>], todo'[<<h, "passive">>], conns'[h])
  <2>1. PICK a \in Ends, p \in Ends :
          /\ a = <<h, "active">> /\ a[1] = h /\ a[2] = "active"
          /\ p = <<h, "passive">> /\ p[1] = h /\ p[2] = "passive"
    BY TwoEnds
  <2>2. /\ Owner(a) = Active[h] /\ Owner(p) = Passive[h]
        /\ Active[h] = c => a \in EndsOf(c)
        /\ Passive[h] = c => p \in EndsOf(c)
    BY <2>1 DEF Owner, EndsOf
  <2>3. PICK ta, tp, cn : ta = todo[a] /\ tp = todo[p] /\ cn = conns[h] /\ ChannelOK(ta, tp, cn)
    BY <1>11, <2>1 DEF IInv, FirstInv
  <2>4. TodoOK(p, tp)
    BY <2>3 DEF IInv, TodoInv
  <2>5. /\ NoTodo.kind = "none" /\ ~NoTodo.sent_local_port
        /\ NewTodo("Accepting", 0).kind = "Accepting" /\ ~NewTodo("Accepting", 0).sent_local_port
    BY DEF NoTodo, NewTodo
  <2>6. CASE Active[h] = c
    <3>1. ta.kind = "none"
      BY <1>3, <2>2, <2>3, <2>5, <2>6
    <3>2. tp.kind = "PeerInfoRecving" => tp.conn \in Slots
      BY <2>4 DEF TodoOK
    <3>3. /\ \A k \in Slots : cn[k] = FreeConn
          /\ tp.kind # "PeerInfoRecving" /\ ~tp.sent_local_port
      BY <2>3, <3>1, <3>2, NotConnected
    <3>4. PICK k \in Slots : k = NextSlot(h)
      BY <1>4, <2>6
    <3>5. k \in 0..MaxConns
      BY PairingBounds DEF Slots
    <3>6. PICK tan : tan = todo'[a] /\ tan.kind = "PeerInfoRecving" /\ tan.conn = k
                     /\ ~tan.retry /\ ~tan.sent_local_port
      <4>1. todo'[a] = NewTodo("PeerInfoRecving", k)
        BY <1>5, <2>1, <2>2, <2>6, <3>4
      <4> QED
        BY <3>5, <4>1, NewFacts
    <3>7. PICK tpn : tpn = todo'[p] /\ tpn.kind # "PeerInfoRecving" /\ ~tpn.sent_local_port
      BY <1>5, <2>1, <2>2, <2>3, <2>5, <3>3
    <3>8. PICK cs : /\ cs = conns'[h] /\ cs[k] = [FreeConn EXCEPT !.active = "connecting"]
                    /\ \A j \in Slots : j # k => cs[j] = FreeConn
      <4>1. conns'[h] = [j \in Slots |->
                            IF Active[h] = c /\ FreeSlots(h) # {} /\ j = NextSlot(h)
                            THEN [FreeConn EXCEPT !.active = "connecting"] ELSE conns[h][j]]
        BY DEF Start
      <4>2. Active[h] = c /\ FreeSlots(h) # {}
        BY <1>4, <2>6
      <4>3. conns'[h] = [j \in Slots |-> IF j = k THEN [FreeConn EXCEPT !.active = "connecting"]
                                         ELSE cn[j]]
        BY <2>3, <3>4, <4>1, <4>2
      <4> QED
        BY <3>3, <4>3
    <3>9. ChannelOK(tan, tpn, cs)
      BY <3>6, <3>7, <3>8, Connecting
    <3> QED
      BY <2>1, <3>6, <3>7, <3>8, <3>9
  <2>7. CASE Active[h] # c
    <3>1. todo'[a] = ta
      BY <1>5, <2>2, <2>3, <2>7
    <3>2. conns'[h] = cn
      <4>1. conns'[h] = [k \in Slots |-> cn[k]] /\ cn \in [Slots -> Connection]
        BY <1>1, <2>3, <2>7 DEF Start
      <4> QED
        BY <4>1
    <3>3. CASE Passive[h] # c
      BY <1>5, <2>1, <2>2, <2>3, <3>1, <3>2, <3>3
    <3>4. CASE Passive[h] = c
      <4>1. PICK tpn : tpn = todo'[p] /\ tpn.kind = "Accepting" /\ ~tpn.sent_local_port
        BY <1>5, <2>1, <2>2, <2>5, <3>4
      <4>2. tp.kind = "none" /\ ~tp.sent_local_port
        BY <1>3, <2>2, <2>3, <2>5, <3>4
      <4>3. ChannelOK(ta, tpn, cn)
        BY <2>3, <4>1, <4>2 DEF ChannelOK, OneConnection, Told, Reaches
      <4> QED
        BY <2>1, <3>1, <3>2, <4>1, <4>3
    <3> QED
      BY <3>3, <3>4
  <2> QED
    BY <2>6, <2>7
<1>12. FirstInv'
  BY <1>10, <1>11 DEF FirstInv
<1> QED
  BY <1>7, <1>8, <1>9, <1>12 DEF IInv

LEMMA RetryStep ==
    ASSUME IInv, NEW c \in Connectors, Retry(c)
    PROVE  IInv'
<1>1. /\ todo \in [Ends -> NetTodo] /\ conns \in [Channels -> [Slots -> Connection]]
      /\ UNCHANGED <<mismatched, status, attempts>> /\ status[c] = "setup"
  BY Types DEF IInv, Retry
<1>2. \A e \in Ends : todo'[e] = IF Owner(e) = c /\ todo[e].retry
                                 THEN [todo[e] EXCEPT !.retry = FALSE, !.conn = NextSlot(e[1])]
                                 ELSE todo[e]
  BY DEF Retry
<1>3. \A e \in Ends : Owner(e) = c /\ todo[e].retry =>
          /\ e[2] = "active" /\ todo[e].kind = "PeerInfoRecving"
          /\ NextSlot(e[1]) \in Slots /\ conns[e[1]][NextSlot(e[1])] = FreeConn
  <2> SUFFICES ASSUME NEW e \in Ends, Owner(e) = c, todo[e].retry
               PROVE  /\ e[2] = "active" /\ todo[e].kind = "PeerInfoRecving"
                      /\ NextSlot(e[1]) \in Slots /\ conns[e[1]][NextSlot(e[1])] = FreeConn
    OBVIOUS
  <2>1. e[2] = "active" /\ todo[e].kind = "PeerInfoRecving"
    BY DEF IInv, TodoInv, TodoOK
  <2>2. FreeSlots(e[1]) # {}
    BY DEF Retry, EndsOf
  <2> QED
    BY <2>1, <2>2, Slot
\* The NetTodo of an endpoint that is retried.
<1>4. ASSUME NEW e \in Ends, Owner(e) = c, todo[e].retry
      PROVE  /\ todo'[e] \in NetTodo /\ TodoOK(e, todo'[e]) /\ ~todo'[e].retry
             /\ todo'[e].kind = "PeerInfoRecving" /\ todo'[e].conn = NextSlot(e[1])
             /\ todo'[e].sent_local_port = todo[e].sent_local_port
  <2>1. PICK k \in Slots, t \in NetTodo : k = NextSlot(e[1]) /\ t = todo[e] /\ k \in 0..MaxConns
    BY <1>1, <1>3, <1>4, PairingBounds DEF Slots
  <2>2. PICK new : new = todo'[e] /\ new = [t EXCEPT !.retry = FALSE, !.conn = k]
    BY <1>2, <1>4, <2>1
  <2>3. /\ new \in NetTodo /\ ~new.retry /\ new.kind = t.kind /\ new.conn = k
        /\ new.inbox = t.inbox /\ new.sent_local_port = t.sent_local_port
        /\ new.recv_peer_port = t.recv_peer_port /\ new.incomplete = t.incomplete
        /\ new.polled = t.polled
    BY <2>1, <2>2 DEF NetTodo
  <2>4. TodoOK(e, t) /\ t.kind = "PeerInfoRecving"
    BY <1>3, <1>4, <2>1 DEF IInv, TodoInv
  <2>5. TodoOK(e, new)
    BY <2>3, <2>4 DEF TodoOK
  <2> QED
    BY <2>1, <2>2, <2>3, <2>4, <2>5
<1>5. TypeOK'
  <2>1. todo' \in [Ends -> NetTodo]
    <3>1. \A e \in Ends : todo'[e] \in NetTodo
      BY <1>1, <1>2, <1>4
    <3>2. todo' = [e \in Ends |-> todo'[e]]
      BY DEF Retry
    <3> QED
      BY <3>1, <3>2
  <2>2. conns' \in [Channels -> [Slots -> Connection]]
    <3> SUFFICES ASSUME NEW h \in Channels PROVE conns'[h] \in [Slots -> Connection]
      BY DEF Retry
    <3>1. PICK new \in Connection : new = [FreeConn EXCEPT !.active = "connecting"]
      BY FreeFacts
    <3>2. \A k \in Slots : Without(conns[h][k], {"active"}) \in Connection
      <4> SUFFICES ASSUME NEW k \in Slots PROVE Without(conns[h][k], {"active"}) \in Connection
        OBVIOUS
      <4>1. conns[h][k] \in Connection
        BY <1>1
      <4> QED
        BY <4>1, Closing
    <3> QED
      BY <1>1, <3>1, <3>2 DEF Retry
  <2> QED
    BY <1>1, <2>1, <2>2 DEF IInv, TypeOK, NetTodo, Connection
<1>6. TodoInv'
  <2> SUFFICES ASSUME NEW e \in Ends PROVE TodoOK(e, todo[e])'
    BY DEF TodoInv
  <2>1. TodoOK(e, todo'[e])
    BY <1>2, <1>4 DEF IInv, TodoInv
  <2> QED
    BY <1>1, <2>1 DEF TodoOK
<1>7. StatusInv'
  <2> SUFFICES ASSUME NEW d \in Connectors
               PROVE  /\ status[d] = "done" => \A f \in EndsOf(d) : ~todo'[f].incomplete
                      /\ status[d] = "idle" => \A f \in EndsOf(d) : todo'[f] = NoTodo
                      /\ status[d] # "idle" => attempts[d] >= 1
    BY <1>1 DEF StatusInv
  <2>1. CASE d = c
    BY <1>1, <2>1 DEF IInv, StatusInv
  <2>2. CASE d # c
    <3>1. \A f \in EndsOf(d) : todo'[f] = todo[f]
      BY <1>2, <2>2 DEF EndsOf
    <3> QED
      BY <3>1 DEF IInv, StatusInv
  <2> QED
    BY <2>1, <2>2
<1>8. ASSUME FirstTime, NEW h \in Channels
      PROVE  ChannelOK(todo'[<<h, "active">>], todo'[<<h, "passive">>], conns'[h])
  <2>1. PICK a \in Ends, p \in Ends :
          /\ a = <<h, "active">> /\ a[1] = h /\ a[2] = "active"
          /\ p = <<h, "passive">> /\ p[1] = h /\ p[2] = "passive"
    BY TwoEnds
  <2>2. PICK ta \in NetTodo, tp \in NetTodo, cn \in [Slots -> Connection] :
          ta = todo[a] /\ tp = todo[p] /\ cn = conns[h] /\ ChannelOK(ta, tp, cn)
    BY <1>1, <1>8, <2>1 DEF IInv, FirstInv
  <2>3. todo'[p] = tp
    BY <1>2, <1>3, <2>1, <2>2
  <2>4. CASE ~(Owner(a) = c /\ ta.retry)
    <3>1. todo'[a] = ta
      BY <1>2, <2>2, <2>4
    <3>2. conns'[h] = cn
      BY <2>1, <2>2, <2>4 DEF Retry
    <3> QED
      BY <2>1, <2>2, <2>3, <3>1, <3>2
  <2>5. CASE Owner(a) = c /\ ta.retry
    <3>1. PICK k \in Slots : k = NextSlot(h) /\ cn[k] = FreeConn
      BY <1>3, <2>1, <2>2, <2>5
    <3>2. ta.conn \in Slots
      BY <2>1, <2>2, <2>5 DEF IInv, TodoInv, TodoOK
    <3>3. tp.kind = "PeerInfoRecving" => tp.conn \in Slots
      BY <2>2 DEF IInv, TodoInv, TodoOK
    <3>4. /\ ~ta.sent_local_port /\ tp.kind # "PeerInfoRecving" /\ ~tp.sent_local_port
          /\ cn[ta.conn] # FreeConn /\ Without(cn[ta.conn], {"active"}) = FreeConn
          /\ \A j \in Slots : j # ta.conn => cn[j] = FreeConn
      BY <2>2, <2>5, <3>2, <3>3, Refused
    <3>5. PICK tan : /\ tan = todo'[a] /\ tan.kind = "PeerInfoRecving" /\ tan.conn = k
                     /\ ~tan.retry /\ ~tan.sent_local_port
      BY <1>4, <2>1, <2>2, <2>5, <3>1, <3>4
    <3>6. PICK cs : /\ cs = conns'[h] /\ cs[k] = [FreeConn EXCEPT !.active = "connecting"]
                    /\ \A j \in Slots : j # k => cs[j] = FreeConn
      <4>1. conns'[h] = [j \in Slots |->
                            IF j = ta.conn THEN Without(cn[j], {"active"})
                            ELSE IF j = k THEN [FreeConn EXCEPT !.active = "connecting"]
                            ELSE cn[j]]
        BY <2>1, <2>2, <2>5, <3>1 DEF Retry
      <4>2. k # ta.conn
        BY <3>1, <3>4
      <4> QED
        BY <3>4, <4>1, <4>2
    <3>7. ChannelOK(tan, tp, cs)
      BY <3>1, <3>4, <3>5, <3>6, Connecting
    <3> QED
      BY <2>1, <2>3, <3>5, <3>6, <3>7
  <2> QED
    BY <2>4, <2>5
<1>9. FirstInv'
  <2>1. FirstTime' => FirstTime
    BY <1>1 DEF FirstTime
  <2> QED
    BY <1>8, <2>1 DEF FirstInv
<1> QED
  BY <1>5, <1>6, <1>7, <1>9 DEF IInv

LEMMA InitIInv == Init => IInv
<1> SUFFICES ASSUME Init PROVE IInv
  OBVIOUS
<1>1. \A e \in Ends : todo[e] = NoTodo /\ NoTodo \in NetTodo /\ TodoOK(e, NoTodo)
  <2>1. /\ NoTodo \in NetTodo /\ NoTodo.kind = "none" /\ ~NoTodo.recv_peer_port /\ ~NoTodo.retry
        /\ NoTodo.incomplete
    BY NewFacts, PairingBounds DEF NoTodo
  <2> QED
    BY <2>1 DEF Init, TodoOK
<1>2. TypeOK
  <2>1. todo \in [Ends -> NetTodo]
    BY <1>1 DEF Init
  <2>2. conns \in [Channels -> [Slots -> Connection]]
    BY FreeFacts DEF Init
  <2>3. mismatched \subseteq Channels
    BY MismatchAssumption DEF Init
  <2> QED
    BY <2>1, <2>2, <2>3, PairingBounds DEF Init, TypeOK, NetTodo, Connection
<1>3. TodoInv
  BY <1>1 DEF TodoInv
<1>4. StatusInv
  BY <1>1 DEF Init, StatusInv, EndsOf
<1>5. FirstInv
  <2> SUFFICES ASSUME NEW h \in Channels
               PROVE  ChannelOK(todo[<<h, "active">>], todo[<<h, "passive">>], conns[h])
    BY DEF FirstInv
  <2>1. todo[<<h, "active">>] = NoTodo /\ todo[<<h, "passive">>] = NoTodo
    BY <1>1, TwoEnds
  <2>2. NoTodo.kind = "none" /\ ~NoTodo.sent_local_port /\ ~NoTodo.retry
    BY DEF NoTodo, NewTodo
  <2>3. \A k \in Slots : conns[h][k] = FreeConn
    BY DEF Init
  <2> QED
    BY <2>1, <2>2, <2>3, FreeFacts DEF ChannelOK, OneConnection, Told
<1> QED
  BY <1>2, <1>3, <1>4, <1>5 DEF IInv

LEMMA NextIInv == IInv /\ [Next]_vars => IInv'
<1> SUFFICES ASSUME IInv, [Next]_vars PROVE IInv'
  OBVIOUS
<1>1. ASSUME NEW c \in Connectors, Start(c) PROVE IInv'
  BY <1>1, StartStep
<1>2. ASSUME NEW c \in Connectors, Timeout(c) PROVE IInv'
  BY <1>2, FailureSteps
<1>3. ASSUME NEW c \in Connectors, Retry(c) PROVE IInv'
  BY <1>3, RetryStep
<1>4. ASSUME NEW c \in Connectors, Finish(c) PROVE IInv'
  BY <1>4, FinishStep
<1>5. ASSUME NEW e \in Ends, Accept(e) PROVE IInv'
  BY <1>5, AcceptStep
<1>6. ASSUME NEW e \in Ends, ErrorPassive(e) PROVE IInv'
  BY <1>6, FailureSteps
<1>7. ASSUME NEW e \in Ends, ErrorActive(e) PROVE IInv'
  BY <1>7, ErrorActiveStep
<1>8. ASSUME NEW e \in Ends, ReadyComplete(e) PROVE IInv'
  BY <1>8, ReadyCompleteStep
<1>9. ASSUME NEW e \in Ends, NEW w \in BOOLEAN, NEW r \in BOOLEAN, Ready(e, w, r) PROVE IInv'
  BY <1>9, ReadyStep
<1>10. ASSUME NEW e \in Ends, Elect(e) PROVE IInv'
  BY <1>10, ElectStep
<1>11. ASSUME NEW h \in Channels, NEW k \in Slots, Reach(h, k) PROVE IInv'
  BY <1>11, ReachStep
<1>12. ASSUME NEW h \in Channels, NEW k \in Slots, Reset(h, k) PROVE IInv'
  BY <1>12, ResetStep
<1>13. CASE UNCHANGED vars
  <2>1. TypeOK' /\ TodoInv' /\ StatusInv'
    BY <1>13 DEF vars, IInv, TypeOK, TodoInv, TodoOK, StatusInv
  <2>2. FirstInv'
    BY <1>13 DEF vars, IInv, FirstInv, FirstTime
  <2> QED
    BY <2>1, <2>2 DEF IInv
<1> QED
  BY <1>1, <1>2, <1>3, <1>4, <1>5, <1>6, <1>7, <1>8, <1>9, <1>10, <1>11, <1>12, <1>13
  DEF Next, Event

LEMMA SpecIInv == Spec => []IInv
<1>1. Init => IInv
  BY InitIInv
<1>2. IInv /\ [Next]_vars => IInv'
  BY NextIInv
<1> QED
  BY <1>1, <1>2, PTL DEF Spec
-----------------------------------------------------------------------------
(* Theorems *)

\* The endpoints, the connections and their streams keep their types, and nobody
\* calls connect() more often than allowed.
THEOREM PairingTypeCorrect == Spec => []TypeOK
<1>1. IInv => TypeOK
  BY DEF IInv
<1> QED
  BY <1>1, SpecIInv, PTL

\* When a connector goes on to the election, every endpoint with bytes left in
\* its inbox is in polled_undrained: the loop never waits for an event of bytes
\* it has already read.
THEOREM NothingIsStranded == Spec => []NothingStranded
<1>1. IInv => NothingStranded
  <2> SUFFICES ASSUME IInv, NEW e \in Ends, status[Owner(e)] = "done", todo[e].inbox # <<>>
               PROVE  todo[e].polled
    BY DEF NothingStranded
  <2>1. ~todo[e].incomplete
    BY EndFacts DEF IInv, StatusInv
  <2> QED
    BY <2>1 DEF IInv, TodoInv, TodoOK
<1> QED
  BY <1>1, SpecIInv, PTL

\* Ports of the same polarity are never paired, and as long as no connect() has
\* failed, whoever is done has told its peers what they need to finish: what an
\* endpoint has sent is on its way, in the peer's inbox or understood, however
\* often connections are refused and made again.
THEOREM PairingIsRight == Spec => []PairsRightly
<1>1. IInv => MismatchNeverPairs
  <2> SUFFICES ASSUME IInv, NEW h \in mismatched
               PROVE  status[Active[h]] # "done" /\ status[Passive[h]] # "done"
    BY DEF MismatchNeverPairs
  <2>1. h \in Channels
    BY DEF IInv, TypeOK
  <2>2. ASSUME NEW e \in Ends, e[1] = h
        PROVE  status[Owner(e)] # "done"
    <3>1. todo[e].incomplete
      BY <2>2 DEF IInv, TodoInv, TodoOK
    <3> QED
      BY <3>1, EndFacts DEF IInv, StatusInv
  <2>3. Owner(<<h, "active">>) = Active[h] /\ Owner(<<h, "passive">>) = Passive[h]
    BY DEF Owner
  <2> QED
    BY <2>1, <2>2, <2>3, TwoEnds
<1>2. IInv => NobodyLeftBehind
  <2> SUFFICES ASSUME IInv, FirstTime, NEW e \in Ends, status[Owner(e)] = "done"
               PROVE  InfoReaches(e)
    BY DEF NobodyLeftBehind, FirstTime
  <2>1. todo[e].sent_local_port
    <3>1. ~todo[e].incomplete
      BY EndFacts DEF IInv, StatusInv
    <3> QED
      BY <3>1 DEF IInv, TodoInv, TodoOK
  <2>2. StillOK(e, todo[e], conns[e[1]])
    BY ChannelEnd
  <2>3. Reaches(todo[Other(e)], Stream(e)[To(Other(e))])
    <3>1. CASE e[2] = "active"
      <4>1. To(Other(e)) = "topassive" /\ Other(e) = <<e[1], "passive">>
        BY <3>1 DEF To, Other
      <4> QED
        BY <2>1, <2>2, <3>1, <4>1 DEF StillOK, ChannelOK, Told, Stream
    <3>2. CASE e[2] = "passive"
      <4>1. To(Other(e)) = "toactive" /\ Other(e) = <<e[1], "active">>
        BY <3>2 DEF To, Other
      <4> QED
        BY <2>1, <2>2, <3>2, <4>1 DEF StillOK, ChannelOK, Told, Stream
    <3> QED
      BY <3>1, <3>2, EndFacts
  <2> QED
    BY <2>3 DEF Reaches, InfoReaches, Has
<1>3. IInv => PairsRightly
  BY <1>1, <1>2 DEF PairsRightly
<1> QED
  BY <1>3, SpecIInv, PTL

=============================================================================
