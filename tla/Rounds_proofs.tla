--------------------------- MODULE Rounds_proofs ----------------------------
(***************************************************************************)
(* The rounds of a session agree for every consensus tree, any solutions and  *)
(* payloads, any number of rounds, and whoever times out, leaves or crashes.  *)
(***************************************************************************)
EXTENDS Rounds, SequenceTheorems, TLAPS

-----------------------------------------------------------------------------
(* Messages in flight *)

\* msg is on its way from m to n: in the stream, or put aside by n.
Flying(ch, de, un, m, n, msg) ==
    \/ msg \in Range(ch[m][n])
    \/ <<m, msg>> \in Range(de[n])
    \/ <<m, msg>> \in Range(un[n])
InFlight(m, n, msg) == Flying(chan, delayed, undelayed, m, n, msg)

LEMMA RangeEmpty == Range(<<>>) = {}
BY DEF Range

LEMMA RangeAppend ==
    ASSUME NEW S, NEW s \in Seq(S), NEW x \in S
    PROVE  Append(s, x) \in Seq(S) /\ Range(Append(s, x)) = Range(s) \cup {x}
<1>1. /\ Append(s, x) \in Seq(S) /\ Len(Append(s, x)) = Len(s) + 1
      /\ \A i \in 1..Len(s) : Append(s, x)[i] = s[i]
      /\ Append(s, x)[Len(s) + 1] = x
  BY AppendProperties
<1>2. DOMAIN s = 1..Len(s) /\ DOMAIN Append(s, x) = 1..(Len(s) + 1) /\ Len(s) \in Nat
  BY <1>1, LenProperties
<1> QED
  BY <1>1, <1>2 DEF Range

LEMMA RangeTail ==
    ASSUME NEW S, NEW s \in Seq(S), s # <<>>
    PROVE  /\ Tail(s) \in Seq(S) /\ Head(s) \in S
           /\ Range(s) = Range(Tail(s)) \cup {Head(s)}
<1>1. /\ Tail(s) \in Seq(S) /\ Len(Tail(s)) = Len(s) - 1 /\ Head(s) = s[1]
      /\ \A i \in 1..Len(Tail(s)) : Tail(s)[i] = s[i + 1]
      /\ Head(s) \in S
  BY HeadTailProperties
<1>2. /\ DOMAIN s = 1..Len(s) /\ DOMAIN Tail(s) = 1..(Len(s) - 1)
      /\ Len(s) \in Nat /\ Len(s) > 0
  BY <1>1, LenProperties, EmptySeq
<1>3. ASSUME NEW i \in 1..Len(s)
      PROVE  s[i] = Head(s) \/ \E j \in 1..(Len(s) - 1) : s[i] = Tail(s)[j]
  <2>1. CASE i = 1
    BY <1>1, <2>1
  <2>2. CASE i # 1
    <3>1. i - 1 \in 1..(Len(s) - 1) /\ Tail(s)[i - 1] = s[i]
      BY <1>1, <1>2, <2>2
    <3> QED
      BY <3>1
  <2> QED
    BY <2>1, <2>2
<1>4. Range(s) \subseteq Range(Tail(s)) \cup {Head(s)}
  BY <1>2, <1>3 DEF Range
<1>5. \A j \in 1..(Len(s) - 1) : j + 1 \in 1..Len(s) /\ Tail(s)[j] = s[j + 1]
  BY <1>1, <1>2
<1>6. Range(Tail(s)) \subseteq Range(s)
  BY <1>2, <1>5 DEF Range
<1>7. Head(s) \in Range(s)
  BY <1>1, <1>2 DEF Range
<1> QED
  BY <1>1, <1>4, <1>6, <1>7

LEMMA RangeFront ==
    ASSUME NEW S, NEW s \in Seq(S), s # <<>>
    PROVE  /\ Front(s) \in Seq(S) /\ Last(s) \in S
           /\ Range(s) = Range(Front(s)) \cup {Last(s)}
<1> DEFINE n == Len(s)
<1>1. n \in Nat /\ n > 0 /\ DOMAIN s = 1..n /\ \A i \in 1..n : s[i] \in S
  BY LenProperties, EmptySeq, ElementOfSeq
<1>2. /\ Front(s) \in Seq(S) /\ Len(Front(s)) = n - 1
      /\ \A i \in 1..(n - 1) : Front(s)[i] = s[i]
  BY <1>1, SubSeqProperties DEF Front
<1>3. DOMAIN Front(s) = 1..(n - 1)
  BY <1>2, LenProperties
<1>4. Last(s) = s[n]
  BY DEF Last
<1> HIDE DEF n
<1> QED
  BY <1>1, <1>2, <1>3, <1>4 DEF Range

LEMMA RangeConcat ==
    ASSUME NEW S, NEW s \in Seq(S), NEW t \in Seq(S)
    PROVE  s \o t \in Seq(S) /\ Range(s \o t) = Range(s) \cup Range(t)
BY ConcatProperties, RangeConcatenation
-----------------------------------------------------------------------------
(* The invariant *)

\* Calls of sync are counted before the bound is reached.
RunningInBounds == \A n \in Nodes : status[n] = "running" => round[n] < MaxRounds

\* A round is decided once: the leader has left every decided round, and whoever
\* has completed a round has left it.
DecidedInPast ==
    /\ \A n \in Nodes, r \in RoundIds : outcome[n][r] # Undecided => r < round[n]
    /\ \A n \in Nodes, r \in RoundIds : IsRoot(n) /\ decided[r] # Undecided => r < round[n]

\* What is announced has been decided.
AnnouncedIsDecided ==
    \A m, n \in Nodes, msg \in Msg :
        InFlight(m, n, msg) /\ msg.type = "Announce" => msg.decision = decided[msg.round]

\* Somebody gave up in the round that a failure request names.
RequestsHaveCause ==
    \A m, n \in Nodes, msg \in Msg :
        InFlight(m, n, msg) /\ msg.type = "Suggest" /\ msg.decision = Failure
            => msg.round \in excuse

Locals(k) == storage[k].old_local \cup storage[k].new_local

\* k has begun round r and, while it is in it, has a local solution within p.
Began(k, r) == round[k] > r \/ (round[k] = r /\ status[k] # "idle")
Covers(k, r, p) ==
    /\ Began(k, r)
    /\ round[k] = r /\ status[k] = "running" => \E q \in Locals(k) : AssignsSubset(q, p)

\* A solution that travels, up or down, is covered by the connector below.
MessagesCovered ==
    \A m, n \in Nodes, msg \in Msg :
        InFlight(m, n, msg) /\ msg.type \in {"Suggest", "Announce"}
            /\ msg.decision.kind = "Success"
            => Covers(IF msg.type = "Suggest" THEN m ELSE n, msg.round, msg.decision.predicate)

\* So is one that the connector above has taken up.
ChildrenCovered ==
    \A n \in Nodes : status[n] = "running" =>
        \A c \in Children(n) : \A q \in storage[n].subtree_solutions[c] : Covers(c, round[n], q)

\* A local solution contains a solution of every subtree.
LocalsCovered ==
    \A n \in Nodes : \A p \in Locals(n) : \A i \in Subtrees(n) :
        \E q \in storage[n].subtree_solutions[i] : AssignsSubset(q, p)

IInv ==
    /\ TypeOK
    /\ RunningInBounds
    /\ DecidedInPast
    /\ AnnouncedIsDecided
    /\ RequestsHaveCause
    /\ FailureHasCause
    /\ MessagesCovered
    /\ ChildrenCovered
    /\ LocalsCovered
    /\ CommitHasBranch
    /\ PayloadKept

-----------------------------------------------------------------------------
(* Messages and streams *)

Streams == [Nodes -> [Nodes -> Seq(Msg)]]
Inboxes == [Nodes -> Seq(Nodes \X Msg)]

LEMMA DecisionTypes ==
    /\ Failure \in Decisions
    /\ \A p \in Predicate : Success(p) \in Decisions
    /\ Undecided \notin Decisions
    /\ \A d \in Decisions : d.kind = "Failure" => d = Failure
    /\ \A d \in Decisions : d.kind = "Success" => d.predicate \in Predicate
    /\ \A d \in Decisions : d.kind \in {"Failure", "Success"}
    /\ Failure.kind = "Failure" /\ Undecided.kind = "Undecided"
    /\ \A p : Success(p).kind = "Success" /\ Success(p).predicate = p
<1>1. Failure.kind = "Failure" /\ Undecided.kind = "Undecided"
  BY DEF Failure, Undecided
<1>2. \A p : Success(p).kind = "Success" /\ Success(p).predicate = p
  BY DEF Success
<1>3. \A d \in [kind : {"Success"}, predicate : Predicate] :
        d.kind = "Success" /\ d.predicate \in Predicate
  OBVIOUS
<1>4. \A p \in Predicate : Success(p) \in [kind : {"Success"}, predicate : Predicate]
  BY DEF Success
<1> QED
  BY <1>1, <1>2, <1>3, <1>4 DEF Decisions

LEMMA MessageTypes ==
    /\ \A r \in RoundIds, d \in Decisions :
        /\ Suggest(r, d) \in Msg /\ Announce(r, d) \in Msg
    /\ \A r \in RoundIds : Payload(r) \in Msg
    /\ \A r, d : /\ Suggest(r, d).type = "Suggest" /\ Suggest(r, d).round = r
                 /\ Suggest(r, d).decision = d
                 /\ Announce(r, d).type = "Announce" /\ Announce(r, d).round = r
                 /\ Announce(r, d).decision = d
    /\ \A r : Payload(r).type = "Payload" /\ Payload(r).round = r
    /\ \A msg \in Msg : msg.round \in RoundIds
    /\ \A msg \in Msg : msg.type \in {"Suggest", "Announce"} => msg.decision \in Decisions
    /\ \A msg \in Msg : msg.type = "Payload" => msg = Payload(msg.round)
<1>1. \A r \in RoundIds, d \in Decisions : Suggest(r, d) \in Msg /\ Announce(r, d) \in Msg
  BY DEF Suggest, Announce, Msg
<1>2. \A r \in RoundIds : Payload(r) \in Msg
  BY DEF Payload, Msg
<1>3. \A r, d : /\ Suggest(r, d).type = "Suggest" /\ Suggest(r, d).round = r
                /\ Suggest(r, d).decision = d
                /\ Announce(r, d).type = "Announce" /\ Announce(r, d).round = r
                /\ Announce(r, d).decision = d
  BY DEF Suggest, Announce
<1>4. \A r : Payload(r).type = "Payload" /\ Payload(r).round = r
  BY DEF Payload
<1>5. ASSUME NEW msg \in Msg
      PROVE  /\ msg.round \in RoundIds
             /\ msg.type \in {"Suggest", "Announce"} => msg.decision \in Decisions
             /\ msg.type = "Payload" => msg = Payload(msg.round)
  <2>1. CASE msg \in [type : {"Suggest", "Announce"}, round : RoundIds, decision : Decisions]
    BY <2>1
  <2>2. CASE msg \in [type : {"Payload"}, round : RoundIds]
    BY <2>2 DEF Payload
  <2> QED
    BY <2>1, <2>2 DEF Msg
<1> QED
  BY <1>1, <1>2, <1>3, <1>4, <1>5

LEMMA SendToEffect ==
    ASSUME NEW ch \in Streams, NEW n \in Nodes, NEW to, NEW msg \in Msg
    PROVE  /\ SendTo(ch, n, to, msg) \in Streams
           /\ \A a, b \in Nodes : \A x :
                x \in Range(SendTo(ch, n, to, msg)[a][b])
                    <=> x \in Range(ch[a][b]) \/ (a = n /\ b \in to /\ x = msg)
<1> DEFINE row == [m \in Nodes |-> IF m \in to THEN Append(ch[n][m], msg) ELSE ch[n][m]]
<1>1. \A m \in Nodes : ch[n][m] \in Seq(Msg)
  BY DEF Streams
<1>2. \A m \in Nodes : /\ Append(ch[n][m], msg) \in Seq(Msg)
                       /\ Range(Append(ch[n][m], msg)) = Range(ch[n][m]) \cup {msg}
  BY <1>1, RangeAppend
<1>3. row \in [Nodes -> Seq(Msg)]
  BY <1>1, <1>2
<1>4. /\ SendTo(ch, n, to, msg) \in Streams
      /\ SendTo(ch, n, to, msg)[n] = row
      /\ \A a \in Nodes : a # n => SendTo(ch, n, to, msg)[a] = ch[a]
  BY <1>3 DEF SendTo, Streams
<1>5. \A b \in Nodes : \A x :
        x \in Range(row[b]) <=> x \in Range(ch[n][b]) \/ (b \in to /\ x = msg)
  BY <1>2
<1> HIDE DEF row
<1> QED
  BY <1>4, <1>5

\* What Sending does: the others keep their place, nothing but msg is added to
\* the streams and nothing is lost, and n goes on as planned or is broken.
SendsAs(n, ch, to, msg, st, r) ==
    /\ chan' \in Streams
    /\ status' \in [Nodes -> {"idle", "running", "broken", "crashed"}]
    /\ round' \in [Nodes -> 0..MaxRounds]
    /\ \A k \in Nodes : k # n => status'[k] = status[k] /\ round'[k] = round[k]
    /\ \A a, b \in Nodes : \A x :
         x \in Range(chan'[a][b]) =>
             x \in Range(ch[a][b]) \/ (a = n /\ b \in to /\ x = msg)
    /\ \A a, b \in Nodes : Range(ch[a][b]) \subseteq Range(chan'[a][b])
    /\ \/ /\ status'[n] = st /\ round'[n] = r
          /\ \A b \in Nodes : b \in to => msg \in Range(chan'[n][b])
       \/ status'[n] = "broken" /\ round'[n] = round[n] + 1

LEMMA SendingEffect ==
    ASSUME TypeOK, NEW n \in Nodes, round[n] < MaxRounds, NEW ch \in Streams, NEW to,
           NEW msg \in Msg, NEW st \in {"idle", "running"}, NEW r \in 0..MaxRounds,
           Sending(n, ch, to, msg, st, r)
    PROVE  SendsAs(n, ch, to, msg, st, r)
<1>1. round[n] + 1 \in 0..MaxRounds
  BY MaxRoundsAssumption DEF TypeOK
<1>2. CASE /\ chan' = SendTo(ch, n, to, msg)
           /\ status' = [status EXCEPT ![n] = st]
           /\ round' = [round EXCEPT ![n] = r]
  <2>1. /\ status' \in [Nodes -> {"idle", "running", "broken", "crashed"}]
        /\ round' \in [Nodes -> 0..MaxRounds]
        /\ \A k \in Nodes : k # n => status'[k] = status[k] /\ round'[k] = round[k]
        /\ status'[n] = st /\ round'[n] = r
    BY <1>2 DEF TypeOK
  <2>2. /\ chan' \in Streams
        /\ \A a, b \in Nodes : \A x :
             x \in Range(chan'[a][b])
                 <=> x \in Range(ch[a][b]) \/ (a = n /\ b \in to /\ x = msg)
    BY <1>2, SendToEffect
  <2>3. \A a, b \in Nodes : Range(ch[a][b]) \subseteq Range(chan'[a][b])
    BY <2>2
  <2>4. \A b \in Nodes : b \in to => msg \in Range(chan'[n][b])
    BY <2>2
  <2> QED
    BY <2>1, <2>2, <2>3, <2>4 DEF SendsAs
<1>3. ASSUME NEW c \in to,
             chan' = SendTo(ch, n, {b \in to : b < c}, msg),
             status' = [status EXCEPT ![n] = "broken"],
             round' = [round EXCEPT ![n] = @ + 1]
      PROVE  SendsAs(n, ch, to, msg, st, r)
  <2>1. /\ status' \in [Nodes -> {"idle", "running", "broken", "crashed"}]
        /\ round' \in [Nodes -> 0..MaxRounds]
        /\ \A k \in Nodes : k # n => status'[k] = status[k] /\ round'[k] = round[k]
        /\ status'[n] = "broken" /\ round'[n] = round[n] + 1
    BY <1>1, <1>3 DEF TypeOK
  <2> DEFINE some == {b \in to : b < c}
  <2>2. some \subseteq to
    OBVIOUS
  <2> HIDE DEF some
  <2>3. /\ chan' \in Streams
        /\ \A a, b \in Nodes : \A x :
             x \in Range(chan'[a][b])
                 <=> x \in Range(ch[a][b]) \/ (a = n /\ b \in some /\ x = msg)
    BY <1>3, SendToEffect DEF some
  <2>4. \A a, b \in Nodes : Range(ch[a][b]) \subseteq Range(chan'[a][b])
    BY <2>3
  <2>5. \A a, b \in Nodes : \A x :
          x \in Range(chan'[a][b]) => x \in Range(ch[a][b]) \/ (a = n /\ b \in to /\ x = msg)
    BY <2>2, <2>3
  <2> QED
    BY <2>1, <2>3, <2>4, <2>5 DEF SendsAs
<1> QED
  BY <1>2, <1>3 DEF Sending

\* What try_recv_any_comms takes was in flight, and nothing else is lost.
LEMMA Receives ==
    ASSUME TypeOK, NEW n \in Nodes, NEW fm \in Incoming(n)
    PROVE  /\ fm[1] \in Nodes /\ fm[2] \in Msg
           /\ InFlight(fm[1], n, fm[2])
           /\ ChanAfter(n, fm[1]) \in Streams
           /\ UndelayedAfter(n) \in Inboxes
           /\ \A a, b \in Nodes : \A x :
                Flying(ChanAfter(n, fm[1]), delayed, UndelayedAfter(n), a, b, x)
                    => InFlight(a, b, x)
           /\ \A a, b \in Nodes : \A x :
                InFlight(a, b, x) =>
                    \/ Flying(ChanAfter(n, fm[1]), delayed, UndelayedAfter(n), a, b, x)
                    \/ a = fm[1] /\ b = n /\ x = fm[2]
<1>1. chan \in Streams /\ undelayed \in Inboxes /\ undelayed[n] \in Seq(Nodes \X Msg)
  BY DEF TypeOK, Streams, Inboxes
<1>2. CASE undelayed[n] # <<>>
  <2> DEFINE un == UndelayedAfter(n)
  <2>1. /\ fm = Last(undelayed[n])
        /\ ChanAfter(n, fm[1]) = chan
        /\ un = [undelayed EXCEPT ![n] = Front(@)]
    BY <1>2 DEF Incoming, ChanAfter, UndelayedAfter
  <2>2. /\ Front(undelayed[n]) \in Seq(Nodes \X Msg)
        /\ fm \in Nodes \X Msg
        /\ Range(undelayed[n]) = Range(Front(undelayed[n])) \cup {fm}
    BY <1>1, <1>2, <2>1, RangeFront
  <2>3. /\ un \in Inboxes /\ un[n] = Front(undelayed[n])
        /\ \A b \in Nodes : b # n => un[b] = undelayed[b]
    BY <1>1, <2>1, <2>2 DEF Inboxes
  <2>4. fm[1] \in Nodes /\ fm[2] \in Msg /\ fm = <<fm[1], fm[2]>>
    BY <2>2
  <2> HIDE DEF un
  <2>5. \A a, b \in Nodes : \A x :
          <<a, x>> \in Range(un[b]) => <<a, x>> \in Range(undelayed[b])
    BY <2>2, <2>3
  <2>6. \A a, b \in Nodes : \A x :
          <<a, x>> \in Range(undelayed[b]) =>
              <<a, x>> \in Range(un[b]) \/ (a = fm[1] /\ b = n /\ x = fm[2])
    BY <2>2, <2>3, <2>4
  <2>7. <<fm[1], fm[2]>> \in Range(undelayed[n])
    BY <2>2, <2>4
  <2> QED
    BY <1>1, <2>1, <2>3, <2>4, <2>5, <2>6, <2>7 DEF InFlight, Flying, un
<1>3. CASE undelayed[n] = <<>>
  <2>1. PICK m \in Nodes : chan[m][n] # <<>> /\ fm = <<m, Head(chan[m][n])>>
    BY <1>3 DEF Incoming
  <2> DEFINE ch == ChanAfter(n, m)
  <2>2. /\ fm[1] = m /\ fm[2] = Head(chan[m][n])
        /\ ch = [chan EXCEPT ![m][n] = Tail(@)]
        /\ UndelayedAfter(n) = undelayed
    BY <1>3, <2>1 DEF ChanAfter, UndelayedAfter
  <2>3. chan[m][n] \in Seq(Msg)
    BY <1>1 DEF Streams
  <2>4. /\ Tail(chan[m][n]) \in Seq(Msg) /\ fm[2] \in Msg
        /\ Range(chan[m][n]) = Range(Tail(chan[m][n])) \cup {fm[2]}
    BY <2>1, <2>2, <2>3, RangeTail
  <2>5. /\ ch \in Streams /\ ch[m][n] = Tail(chan[m][n])
        /\ \A a, b \in Nodes : a # m \/ b # n => ch[a][b] = chan[a][b]
    BY <1>1, <2>2, <2>4 DEF Streams
  <2> HIDE DEF ch
  <2>6. \A a, b \in Nodes : \A x : x \in Range(ch[a][b]) => x \in Range(chan[a][b])
    BY <2>4, <2>5
  <2>7. \A a, b \in Nodes : \A x :
          x \in Range(chan[a][b]) => x \in Range(ch[a][b]) \/ (a = m /\ b = n /\ x = fm[2])
    BY <2>4, <2>5
  <2>8. fm[2] \in Range(chan[m][n])
    BY <2>4
  <2>9. ch = ChanAfter(n, fm[1])
    BY <2>2 DEF ch
  <2> QED
    BY <1>1, <2>2, <2>4, <2>5, <2>6, <2>7, <2>8, <2>9 DEF InFlight, Flying
<1> QED
  BY <1>2, <1>3

-----------------------------------------------------------------------------
(* What a step of connector n keeps of the others *)

\* The state of the other connectors.
Others(n) ==
    \A k \in Nodes : k # n =>
        /\ status'[k] = status[k] /\ round'[k] = round[k]
        /\ storage'[k] = storage[k] /\ gotten'[k] = gotten[k]
        /\ outcome'[k] = outcome[k]

\* n does not return to an earlier point and, within a round, keeps its local
\* solutions.
Advances(n) ==
    /\ round'[n] >= round[n]
    /\ round'[n] = round[n] /\ status[n] # "idle" =>
        /\ status'[n] # "idle"
        /\ status'[n] = "running" => status[n] = "running" /\ Locals(n) \subseteq Locals(n)'

StepOf(n) == TypeOK' /\ UNCHANGED session /\ Others(n) /\ Advances(n)

LEMMA CoversStable ==
    ASSUME TypeOK, NEW n \in Nodes, StepOf(n),
           NEW k \in Nodes, NEW r \in RoundIds, NEW p, Covers(k, r, p)
    PROVE  Covers(k, r, p)'
<1>1. round[k] \in Nat /\ round'[k] \in Nat /\ r \in Nat
  BY DEF TypeOK, StepOf, RoundIds
<1>2. CASE k # n
  <2>1. status'[k] = status[k] /\ round'[k] = round[k] /\ storage'[k] = storage[k]
    BY <1>2 DEF StepOf, Others
  <2> QED
    BY <2>1 DEF Covers, Began, Locals
<1>3. CASE k = n
  <2>1. /\ round'[k] >= round[k]
        /\ round'[k] = round[k] /\ status[k] # "idle" =>
            /\ status'[k] # "idle"
            /\ status'[k] = "running" => status[k] = "running" /\ Locals(k) \subseteq Locals(k)'
    BY <1>3 DEF StepOf, Advances
  <2>2. Began(k, r)'
    BY <1>1, <2>1 DEF Covers, Began
  <2>3. ASSUME round'[k] = r, status'[k] = "running"
        PROVE  \E q \in Locals(k)' : AssignsSubset(q, p)
    <3>1. round[k] = r /\ status[k] # "idle"
      BY <1>1, <2>1, <2>3 DEF Covers, Began
    <3>2. status[k] = "running" /\ Locals(k) \subseteq Locals(k)'
      BY <2>1, <2>3, <3>1
    <3>3. PICK q \in Locals(k) : AssignsSubset(q, p)
      BY <3>1, <3>2 DEF Covers
    <3> QED
      BY <3>2, <3>3
  <2> QED
    BY <2>2, <2>3 DEF Covers
<1> QED
  BY <1>2, <1>3

\* The step sends at most msg, from n to some of `to`.
Emits(n, to, msg) ==
    \A a, b \in Nodes, x \in Msg :
        InFlight(a, b, x)' => InFlight(a, b, x) \/ (a = n /\ b \in to /\ x = msg)

\* A decision is never changed, an excuse never withdrawn.
HistoryGrows ==
    /\ \A r \in RoundIds : decided[r] # Undecided => decided'[r] = decided[r]
    /\ excuse \subseteq excuse'

\* msg may be sent from n to `to`.
MaySend(n, to, msg) ==
    \A b \in Nodes : b \in to =>
        /\ msg.type = "Announce" => msg.decision = decided'[msg.round]
        /\ msg.type = "Suggest" /\ msg.decision = Failure => msg.round \in excuse'
        /\ msg.type = "Suggest" /\ msg.decision.kind = "Success" =>
                Covers(n, msg.round, msg.decision.predicate)'
        /\ msg.type = "Announce" /\ msg.decision.kind = "Success" =>
                Covers(b, msg.round, msg.decision.predicate)'

LEMMA MessagesSound ==
    ASSUME IInv, NEW n \in Nodes, StepOf(n), NEW to, NEW msg,
           Emits(n, to, msg), MaySend(n, to, msg), HistoryGrows
    PROVE  AnnouncedIsDecided' /\ RequestsHaveCause' /\ MessagesCovered'
<1>1. ASSUME NEW a \in Nodes, NEW b \in Nodes, NEW x \in Msg, InFlight(a, b, x)'
      PROVE  /\ x.type = "Announce" => x.decision = decided'[x.round]
             /\ x.type = "Suggest" /\ x.decision = Failure => x.round \in excuse'
             /\ x.type \in {"Suggest", "Announce"} /\ x.decision.kind = "Success" =>
                  Covers(IF x.type = "Suggest" THEN a ELSE b, x.round, x.decision.predicate)'
  <2>1. CASE InFlight(a, b, x)
    <3>1. x.round \in RoundIds
      BY MessageTypes
    <3>2. ASSUME x.type = "Announce"
          PROVE  x.decision = decided'[x.round]
      <4>1. x.decision = decided[x.round] /\ x.decision \in Decisions
        BY <2>1, <3>2, MessageTypes DEF IInv, AnnouncedIsDecided
      <4>2. decided[x.round] # Undecided
        BY <4>1, DecisionTypes
      <4> QED
        BY <3>1, <4>1, <4>2 DEF HistoryGrows
    <3>3. x.type = "Suggest" /\ x.decision = Failure => x.round \in excuse'
      BY <2>1 DEF IInv, RequestsHaveCause, HistoryGrows
    <3>4. ASSUME x.type \in {"Suggest", "Announce"}, x.decision.kind = "Success"
          PROVE  Covers(IF x.type = "Suggest" THEN a ELSE b, x.round, x.decision.predicate)'
      <4> DEFINE k == IF x.type = "Suggest" THEN a ELSE b
      <4>1. Covers(k, x.round, x.decision.predicate)
        BY <2>1, <3>4 DEF IInv, MessagesCovered
      <4>2. k \in Nodes
        OBVIOUS
      <4> HIDE DEF k
      <4>3. Covers(k, x.round, x.decision.predicate)'
        BY <3>1, <4>1, <4>2, CoversStable DEF IInv
      <4> QED
        BY <4>3 DEF k
    <3> QED
      BY <3>2, <3>3, <3>4
  <2>2. CASE a = n /\ b \in to /\ x = msg
    BY <2>2 DEF MaySend
  <2> QED
    BY <1>1, <2>1, <2>2 DEF Emits
<1> QED
  BY <1>1 DEF AnnouncedIsDecided, RequestsHaveCause, MessagesCovered

LEMMA RoundOf ==
    ASSUME IInv, NEW n \in Nodes, status[n] = "running"
    PROVE  round[n] \in RoundIds
<1>1. round[n] \in 0..MaxRounds /\ round[n] < MaxRounds
  BY DEF IInv, TypeOK, RunningInBounds
<1> QED
  BY <1>1, MaxRoundsAssumption DEF RoundIds

\* The storages stay covered: those of the others because what covers them is
\* stable, that of n by the step.
LEMMA StorageSound ==
    ASSUME IInv, NEW n \in Nodes, StepOf(n),
           status'[n] = "running" =>
               \A c \in Children(n) : \A q \in storage'[n].subtree_solutions[c] :
                   \/ Covers(c, round[n], q)'
                   \/ /\ status[n] = "running" /\ round'[n] = round[n]
                      /\ q \in storage[n].subtree_solutions[c],
           \A p \in Locals(n)' : \A i \in Subtrees(n) :
               \E q \in storage'[n].subtree_solutions[i] : AssignsSubset(q, p)
    PROVE  ChildrenCovered' /\ LocalsCovered'
<1>1. \A k \in Nodes : Children(k)' = Children(k) /\ Subtrees(k)' = Subtrees(k)
  BY DEF StepOf, Children, Subtrees, Parent
<1>2. ASSUME NEW k \in Nodes, status'[k] = "running", NEW c \in Children(k),
             NEW q \in storage'[k].subtree_solutions[c]
      PROVE  Covers(c, round[k], q)'
  <2>1. c \in Nodes
    BY DEF Children
  <2>2. ASSUME status[k] = "running", round'[k] = round[k], q \in storage[k].subtree_solutions[c]
        PROVE  Covers(c, round[k], q)'
    <3>1. PICK r \in RoundIds : r = round[k]
      BY <2>2, RoundOf
    <3>2. Covers(c, r, q)
      BY <2>2, <3>1 DEF IInv, ChildrenCovered
    <3>3. Covers(c, r, q)'
      BY <2>1, <3>2, CoversStable DEF IInv
    <3> QED
      BY <2>2, <3>1, <3>3 DEF Covers, Began
  <2>3. CASE k = n
    BY <1>2, <2>2, <2>3
  <2>4. CASE k # n
    <3>1. status[k] = "running" /\ round'[k] = round[k] /\ storage'[k] = storage[k]
      BY <1>2, <2>4 DEF StepOf, Others
    <3> QED
      BY <1>2, <2>2, <3>1
  <2> QED
    BY <2>3, <2>4
<1>3. ASSUME NEW k \in Nodes, NEW p \in Locals(k)', NEW i \in Subtrees(k)
      PROVE  \E q \in storage'[k].subtree_solutions[i] : AssignsSubset(q, p)
  <2>1. CASE k = n
    BY <2>1
  <2>2. CASE k # n
    <3>1. storage'[k] = storage[k] /\ Locals(k)' = Locals(k)
      BY <2>2 DEF StepOf, Others, Locals
    <3> QED
      BY <3>1 DEF IInv, LocalsCovered
  <2> QED
    BY <2>1, <2>2
<1>4. ChildrenCovered'
  BY <1>1, <1>2 DEF ChildrenCovered
<1>5. LocalsCovered'
  BY <1>1, <1>3 DEF LocalsCovered
<1> QED
  BY <1>4, <1>5

\* Whether k, which is between rounds, has a branch to commit.
CommitOf(k) ==
    status[k] = "idle" /\ round[k] > 0 =>
        LET d == outcome[k][round[k] - 1]
        IN  d.kind = "Success" =>
              \E q \in storage[k].subtree_solutions[k] : AssignsSubset(q, d.predicate)

LEMMA CommitSound ==
    ASSUME IInv, NEW n \in Nodes, StepOf(n), CommitOf(n)'
    PROVE  CommitHasBranch'
<1>1. ASSUME NEW k \in Nodes
      PROVE  CommitOf(k)'
  <2>1. CASE k = n
    BY <2>1
  <2>2. CASE k # n
    <3>1. /\ status'[k] = status[k] /\ round'[k] = round[k] /\ storage'[k] = storage[k]
          /\ outcome'[k] = outcome[k]
      BY <2>2 DEF StepOf, Others
    <3>2. CommitOf(k)
      BY DEF IInv, CommitHasBranch, CommitOf
    <3> QED
      BY <3>1, <3>2 DEF CommitOf
  <2> QED
    BY <2>1, <2>2
<1> QED
  BY <1>1 DEF CommitHasBranch, CommitOf

\* a has put its payload of round r, b may still need it, and b has got it.
Sender(a, r) ==
    /\ status[a] \in {"idle", "running"} /\ a \notin session.exits
    /\ r < round[a] \/ (r = round[a] /\ status[a] = "running")
Receiver(b, r) == status[b] \in {"idle", "running"} /\ round[b] <= r
Got(b, a, r) == status[b] = "running" /\ r = round[b] /\ a \in gotten[b]

LEMMA PayloadKeptAs ==
    PayloadKept <=>
        \A a, b \in Nodes, r \in RoundIds :
            b \in PayloadTo[a] /\ Sender(a, r) /\ Receiver(b, r)
                => InFlight(a, b, Payload(r)) \/ Got(b, a, r)
<1>1. ASSUME NEW s, NEW x
      PROVE  (\E i \in DOMAIN s : s[i] = x) <=> x \in Range(s)
  BY DEF Range
<1>2. ASSUME NEW a \in Nodes, NEW b \in Nodes, NEW r \in RoundIds
      PROVE  InFlight(a, b, Payload(r)) <=>
                \/ \E i \in DOMAIN chan[a][b] : chan[a][b][i] = Payload(r)
                \/ \E i \in DOMAIN delayed[b] : delayed[b][i] = <<a, Payload(r)>>
                \/ \E i \in DOMAIN undelayed[b] : undelayed[b][i] = <<a, Payload(r)>>
  BY <1>1, Zenon DEF InFlight, Flying
<1> QED
  BY <1>2 DEF PayloadKept, Sender, Receiver, Got

LEMMA PayloadsSound ==
    ASSUME IInv, NEW n \in Nodes, StepOf(n),
           \A a, b \in Nodes, r \in RoundIds :
               InFlight(a, b, Payload(r)) =>
                   \/ InFlight(a, b, Payload(r))'
                   \/ b = n /\ (Receiver(n, r)' => Got(n, a, r)'),
           \A r \in RoundIds :
               Sender(n, r)' => \/ Sender(n, r)
                                \/ \A b \in PayloadTo[n] : InFlight(n, b, Payload(r))',
           \A r \in RoundIds : Receiver(n, r)' => Receiver(n, r),
           \A a \in Nodes, r \in RoundIds :
               Receiver(n, r)' /\ Got(n, a, r) => Got(n, a, r)'
    PROVE  PayloadKept'
<1>1. ASSUME NEW a \in Nodes, NEW b \in Nodes, NEW r \in RoundIds,
             b \in PayloadTo[a], Sender(a, r)', Receiver(b, r)'
      PROVE  InFlight(a, b, Payload(r))' \/ Got(b, a, r)'
  <2>1. \A k \in Nodes : k # n =>
          /\ Sender(k, r)' <=> Sender(k, r)
          /\ Receiver(k, r)' <=> Receiver(k, r)
          /\ Got(k, a, r)' <=> Got(k, a, r)
    BY DEF StepOf, Others, Sender, Receiver, Got
  <2>2. Receiver(b, r)
    BY <1>1, <2>1
  <2>3. CASE Sender(a, r)
    <3>1. InFlight(a, b, Payload(r)) \/ Got(b, a, r)
      BY <1>1, <2>2, <2>3, PayloadKeptAs DEF IInv
    <3>2. CASE InFlight(a, b, Payload(r))
      BY <1>1, <3>2
    <3>3. CASE Got(b, a, r)
      BY <1>1, <2>1, <3>3
    <3> QED
      BY <3>1, <3>2, <3>3
  <2>4. CASE ~Sender(a, r)
    <3>1. a = n
      BY <1>1, <2>1, <2>4
    <3> QED
      BY <1>1, <2>4, <3>1
  <2> QED
    BY <2>3, <2>4
<1>2. (\A a, b \in Nodes, r \in RoundIds :
            b \in PayloadTo[a] /\ Sender(a, r) /\ Receiver(b, r)
                => InFlight(a, b, Payload(r)) \/ Got(b, a, r))'
  BY <1>1
<1>3. (PayloadKept <=>
        \A a, b \in Nodes, r \in RoundIds :
            b \in PayloadTo[a] /\ Sender(a, r) /\ Receiver(b, r)
                => InFlight(a, b, Payload(r)) \/ Got(b, a, r))'
  BY PayloadKeptAs, PTL
<1> QED
  BY <1>2, <1>3

-----------------------------------------------------------------------------
(* The solution storage of a connector *)

\* A consistent union is a predicate and contains what it is the union of.
LEMMA LocalSolutionCovers ==
    ASSUME NEW ids, NEW sols \in [ids -> SUBSET Predicate],
           NEW p \in LocalSolutions(ids, sols)
    PROVE  /\ p \in Predicate
           /\ \A i \in ids : \E q \in sols[i] : AssignsSubset(q, p)
<1>1. PICK f \in Picks(ids, sols) : MutuallyConsistent(f, ids) /\ p = UnionOf(f, ids)
  BY DEF LocalSolutions
<1>2. \A i \in ids : f[i] \in sols[i] /\ f[i] \in Predicate
  BY DEF Picks
<1>3. ASSUME NEW v \in SpecVars
      PROVE  /\ p[v] \in SpecVals \cup {Unassigned}
             /\ \A i \in ids : f[i][v] # Unassigned => p[v] = f[i][v]
  <2> DEFINE assigning == {i \in ids : f[i][v] # Unassigned}
             w == CHOOSE i \in assigning : TRUE
  <2>1. p[v] = IF assigning = {} THEN Unassigned ELSE f[w][v]
    BY <1>1 DEF UnionOf
  <2>2. CASE assigning = {}
    BY <2>1, <2>2
  <2>3. CASE assigning # {}
    <3>1. w \in assigning
      BY <2>3
    <3>2. w \in ids /\ f[w][v] # Unassigned /\ p[v] = f[w][v]
      BY <2>1, <2>3, <3>1
    <3> HIDE DEF assigning, w
    <3>3. p[v] \in SpecVals \cup {Unassigned}
      BY <1>2, <3>2 DEF Predicate
    <3>4. \A i \in ids : f[i][v] # Unassigned => p[v] = f[i][v]
      BY <1>1, <3>2 DEF MutuallyConsistent, Consistent
    <3> QED
      BY <3>3, <3>4
  <2> QED
    BY <2>2, <2>3
<1>4. p = [v \in SpecVars |-> p[v]]
  BY <1>1 DEF UnionOf
<1>5. p \in Predicate
  BY <1>3, <1>4 DEF Predicate
<1>6. \A i \in ids : AssignsSubset(f[i], p)
  BY <1>3 DEF AssignsSubset
<1> QED
  BY <1>2, <1>5, <1>6

\* A submitted solution adds to the storage, and every local solution it makes
\* contains a solution of every subtree.
LEMMA DigestEffect ==
    ASSUME NEW ids, NEW st \in Storage(ids), NEW id \in ids, NEW pred \in Predicate
    PROVE  LET new == Digest(ids, st, id, pred)
           IN  /\ new \in Storage(ids)
               /\ \A i \in ids : \A q :
                    q \in new.subtree_solutions[i]
                        <=> q \in st.subtree_solutions[i] \/ (i = id /\ q = pred)
               /\ st.old_local \cup st.new_local \subseteq new.old_local \cup new.new_local
               /\ \A p \in new.old_local \cup new.new_local :
                    \/ p \in st.old_local \cup st.new_local
                    \/ \A i \in ids : \E q \in new.subtree_solutions[i] : AssignsSubset(q, p)
<1> DEFINE sols == st.subtree_solutions
           more == [sols EXCEPT ![id] = @ \cup {pred}]
           only == [sols EXCEPT ![id] = {pred}]
           el == Elaborated(ids, sols, id, pred)
           new == Digest(ids, st, id, pred)
<1>1. sols \in [ids -> SUBSET Predicate] /\ st.old_local \subseteq Predicate
        /\ st.new_local \subseteq Predicate
  BY DEF Storage
<1>2. CASE pred \in sols[id]
  <2>1. new = st
    BY <1>2 DEF Digest
  <2> HIDE DEF new
  <2> QED
    BY <1>2, <2>1 DEF new
<1>3. CASE pred \notin sols[id]
  <2>1. new = [subtree_solutions |-> more, old_local |-> st.old_local,
               new_local |-> st.new_local \cup (el \ st.old_local)]
    BY <1>3 DEF Digest
  <2>2. /\ more \in [ids -> SUBSET Predicate]
        /\ only \in [ids -> SUBSET Predicate]
        /\ \A i \in ids : only[i] \subseteq more[i]
        /\ \A i \in ids : \A q : q \in more[i] <=> q \in sols[i] \/ (i = id /\ q = pred)
    BY <1>1
  <2>3. el = LocalSolutions(ids, only)
    BY DEF Elaborated
  <2> HIDE DEF more, only, el
  <2>4. \A p \in el : p \in Predicate /\ \A i \in ids : \E q \in only[i] : AssignsSubset(q, p)
    BY <2>2, <2>3, LocalSolutionCovers
  <2>5. \A p \in el : \A i \in ids : \E q \in more[i] : AssignsSubset(q, p)
    BY <2>2, <2>4
  <2>6. /\ new.subtree_solutions = more /\ new.old_local = st.old_local
        /\ new.new_local = st.new_local \cup (el \ st.old_local)
    BY <2>1
  <2>7. new \in Storage(ids)
    BY <1>1, <2>1, <2>2, <2>4 DEF Storage
  <2> HIDE DEF new
  <2>8. st.old_local \cup st.new_local \subseteq new.old_local \cup new.new_local
    BY <2>6
  <2>9. \A p \in new.old_local \cup new.new_local :
          \/ p \in st.old_local \cup st.new_local
          \/ \A i \in ids : \E q \in new.subtree_solutions[i] : AssignsSubset(q, p)
    BY <2>5, <2>6
  <2>10. \A i \in ids : \A q :
          q \in new.subtree_solutions[i] <=> q \in st.subtree_solutions[i] \/ (i = id /\ q = pred)
    BY <2>2, <2>6
  <2> QED
    BY <2>7, <2>8, <2>9, <2>10 DEF new
<1> QED
  BY <1>2, <1>3

-----------------------------------------------------------------------------
(* The actions *)

\* What is taken from the streams before n sends: nothing appears, and no payload
\* is lost.
Takes(ch) ==
    /\ \A a, b \in Nodes, x \in Msg : Flying(ch, delayed', undelayed', a, b, x) => InFlight(a, b, x)
    /\ \A a, b \in Nodes, s \in RoundIds :
        InFlight(a, b, Payload(s)) => Flying(ch, delayed', undelayed', a, b, Payload(s))

LEMMA FlightsAfterSending ==
    ASSUME TypeOK, NEW n \in Nodes, round[n] < MaxRounds, NEW ch \in Streams, NEW to,
           NEW msg \in Msg, NEW st \in {"idle", "running"}, NEW r \in 0..MaxRounds,
           Sending(n, ch, to, msg, st, r), Takes(ch)
    PROVE  /\ Emits(n, to, msg)
           /\ \A a, b \in Nodes, s \in RoundIds :
                InFlight(a, b, Payload(s)) => InFlight(a, b, Payload(s))'
<1>0. SendsAs(n, ch, to, msg, st, r)
  BY SendingEffect
<1>1. \A a, b \in Nodes : \A x :
        x \in Range(chan'[a][b]) => x \in Range(ch[a][b]) \/ (a = n /\ b \in to /\ x = msg)
  BY <1>0 DEF SendsAs
<1>2. \A a, b \in Nodes : Range(ch[a][b]) \subseteq Range(chan'[a][b])
  BY <1>0 DEF SendsAs
<1>3. \A a, b \in Nodes, x \in Msg :
        InFlight(a, b, x)' => Flying(ch, delayed', undelayed', a, b, x) \/ (a = n /\ b \in to /\ x = msg)
  BY <1>1 DEF InFlight, Flying
<1>4. \A a, b \in Nodes, x \in Msg :
        Flying(ch, delayed', undelayed', a, b, x) => InFlight(a, b, x)'
  BY <1>2 DEF InFlight, Flying
<1>5. \A s \in RoundIds : Payload(s) \in Msg
  BY MessageTypes
<1> QED
  BY <1>3, <1>4, <1>5 DEF Takes, Emits

LEMMA SubsetTransitive ==
    ASSUME NEW p, NEW q, NEW u, AssignsSubset(p, q), AssignsSubset(q, u)
    PROVE  AssignsSubset(p, u)
BY DEF AssignsSubset

\* A decision that contains a local solution of n is covered by the children.
LEMMA DecisionCovered ==
    ASSUME IInv, NEW n \in Nodes, status[n] = "running", NEW r, r = round[n],
           NEW p, \E q \in Locals(n) : AssignsSubset(q, p)
    PROVE  /\ \A c \in Children(n) : Covers(c, r, p)
           /\ \E q \in storage[n].subtree_solutions[n] : AssignsSubset(q, p)
<1>1. PICK q \in Locals(n) : AssignsSubset(q, p)
  OBVIOUS
<1>2. \A i \in Subtrees(n) : \E u \in storage[n].subtree_solutions[i] : AssignsSubset(u, q)
  BY DEF IInv, LocalsCovered
<1>3. \E u \in storage[n].subtree_solutions[n] : AssignsSubset(u, p)
  BY <1>1, <1>2, SubsetTransitive DEF Subtrees
<1>4. ASSUME NEW c \in Children(n)
      PROVE  Covers(c, r, p)
  <2>1. PICK u \in storage[n].subtree_solutions[c] : AssignsSubset(u, p)
    BY <1>1, <1>2, SubsetTransitive DEF Subtrees
  <2>2. Covers(c, r, u)
    BY <2>1 DEF IInv, ChildrenCovered
  <2>3. \A w : AssignsSubset(w, u) => AssignsSubset(w, p)
    BY <2>1, SubsetTransitive
  <2> QED
    BY <2>2, <2>3 DEF Covers
<1> QED
  BY <1>3, <1>4

LEMMA EndRoundIInv ==
    ASSUME IInv, NEW n \in Nodes, status[n] = "running", NEW r \in RoundIds, r = round[n],
           NEW ch \in Streams, NEW d \in Decisions, EndRound(n, ch, d), Takes(ch),
           UNCHANGED <<session, gotten>>,
           delayed' \in Inboxes, undelayed' \in Inboxes,
           requested' \in [Nodes -> BOOLEAN], deadline' \in [Nodes -> BOOLEAN],
           DOMAIN storage' = Nodes, storage'[n] \in Storage(Subtrees(n)),
           \A k \in Nodes : k # n => storage'[k] = storage[k],
           storage'[n].subtree_solutions = storage[n].subtree_solutions,
           Locals(n)' \subseteq Locals(n),
           \/ IsRoot(n) /\ decided' = [decided EXCEPT ![r] = d]
           \/ decided' = decided /\ decided[r] = d,
           d.kind = "Success" => \E q \in Locals(n) : AssignsSubset(q, d.predicate),
           d = Failure => r \in excuse',
           excuse \subseteq excuse', excuse' \subseteq RoundIds
    PROVE  IInv'
<1> DEFINE msg == Announce(r, d)
<1>1. /\ TypeOK /\ r < MaxRounds /\ r \in Nat /\ r + 1 \in 0..MaxRounds /\ msg \in Msg
      /\ \A k \in Nodes : round[k] \in 0..MaxRounds
  <2>1. r < MaxRounds /\ r \in Nat /\ r + 1 \in 0..MaxRounds
    BY MaxRoundsAssumption DEF RoundIds
  <2>2. TypeOK /\ \A k \in Nodes : round[k] \in 0..MaxRounds
    BY DEF IInv, TypeOK
  <2> QED
    BY <2>1, <2>2, MessageTypes
<1>2. PICK to : to = Children(n)
  OBVIOUS
<1>3. Sending(n, ch, to, msg, "idle", r + 1)
  BY <1>2 DEF EndRound
<1>4. /\ chan' \in Streams
      /\ status' \in [Nodes -> {"idle", "running", "broken", "crashed"}]
      /\ round' \in [Nodes -> 0..MaxRounds]
      /\ \A k \in Nodes : k # n => status'[k] = status[k] /\ round'[k] = round[k]
      /\ status'[n] \in {"idle", "broken"} /\ round'[n] = r + 1
  <2>1. SendsAs(n, ch, to, msg, "idle", r + 1)
    BY <1>1, <1>3, SendingEffect
  <2> QED
    BY <1>1, <2>1 DEF SendsAs
<1>5. /\ Emits(n, to, msg)
      /\ \A a, b \in Nodes, s \in RoundIds :
            InFlight(a, b, Payload(s)) => InFlight(a, b, Payload(s))'
  BY <1>1, <1>3, FlightsAfterSending
<1>6. /\ outcome' \in [Nodes -> [RoundIds -> Decisions \cup {Undecided}]]
      /\ \A k \in Nodes : k # n => outcome'[k] = outcome[k]
      /\ \A s \in RoundIds : s # r => outcome'[n][s] = outcome[n][s]
      /\ status'[n] = "idle" => outcome'[n][r] = d
  <2>1. outcome \in [Nodes -> [RoundIds -> Decisions \cup {Undecided}]]
    BY <1>1 DEF TypeOK
  <2>2. CASE status'[n] = "idle"
    <3>1. outcome' = [outcome EXCEPT ![n][r] = d]
      BY <2>2 DEF EndRound
    <3> QED
      BY <2>1, <3>1
  <2>3. CASE status'[n] # "idle"
    <3>1. outcome' = outcome
      BY <2>3 DEF EndRound
    <3> QED
      BY <2>1, <2>3, <3>1
  <2> QED
    BY <2>2, <2>3
<1>7. /\ decided' \in [RoundIds -> Decisions \cup {Undecided}]
      /\ \A s \in RoundIds : s # r => decided'[s] = decided[s]
      /\ decided'[r] = d
      /\ \A s \in RoundIds : decided[s] # Undecided => decided'[s] = decided[s]
  <2>1. decided \in [RoundIds -> Decisions \cup {Undecided}]
    BY <1>1 DEF TypeOK
  <2>2. IsRoot(n) => decided[r] = Undecided
    BY <1>1 DEF IInv, DecidedInPast
  <2> QED
    BY <2>1, <2>2
<1>8. TypeOK'
  <2>1. \A k \in Nodes : Subtrees(k)' = Subtrees(k)
    BY DEF Subtrees, Children, Parent
  <2>2. \A k \in Nodes : storage'[k] \in Storage(Subtrees(k))
    BY <1>1 DEF TypeOK
  <2>3. \A k \in Nodes : (storage[k] \in Storage(Subtrees(k)))'
    BY <2>1, <2>2
  <2> QED
    BY <1>1, <1>4, <1>6, <1>7, <2>3 DEF TypeOK, Inboxes, Streams
<1>9. StepOf(n)
  BY <1>1, <1>4, <1>6, <1>8 DEF StepOf, Others, Advances
<1>10. AnnouncedIsDecided' /\ RequestsHaveCause' /\ MessagesCovered'
  <2>1. HistoryGrows
    BY <1>7 DEF HistoryGrows
  <2>2. ASSUME NEW b \in Nodes, b \in to, d.kind = "Success"
        PROVE  Covers(b, r, d.predicate)'
    <3>1. Covers(b, r, d.predicate)
      BY <1>2, <2>2, DecisionCovered
    <3> QED
      BY <1>1, <1>9, <3>1, CoversStable
  <2>3. msg.type = "Announce" /\ msg.round = r /\ msg.decision = d
    BY MessageTypes
  <2>4. MaySend(n, to, msg)
    BY <1>7, <2>2, <2>3 DEF MaySend
  <2> HIDE DEF msg
  <2> QED
    BY <1>5, <1>9, <2>1, <2>4, MessagesSound
<1>11. ChildrenCovered' /\ LocalsCovered'
  <2>1. \A p \in Locals(n)' : \A i \in Subtrees(n) :
          \E q \in storage'[n].subtree_solutions[i] : AssignsSubset(q, p)
    BY DEF IInv, LocalsCovered
  <2> QED
    BY <1>4, <1>9, <2>1, StorageSound
<1>12. CommitHasBranch'
  <2>1. d.kind = "Success" =>
          \E q \in storage'[n].subtree_solutions[n] : AssignsSubset(q, d.predicate)
    BY DecisionCovered
  <2>2. status'[n] = "idle" => round'[n] - 1 = r /\ outcome'[n][r] = d
    BY <1>1, <1>4, <1>6
  <2>3. CommitOf(n)'
    BY <2>1, <2>2 DEF CommitOf
  <2> QED
    BY <1>9, <2>3, CommitSound
<1>13. PayloadKept'
  <2>1. \A s \in RoundIds : Sender(n, s)' => Sender(n, s)
    BY <1>1, <1>4 DEF Sender, RoundIds
  <2>2. \A s \in RoundIds : Receiver(n, s)' => Receiver(n, s)
    BY <1>1, <1>4 DEF Receiver, RoundIds
  <2>3. \A a \in Nodes, s \in RoundIds : Receiver(n, s)' /\ Got(n, a, s) => Got(n, a, s)'
    BY <1>1, <1>4 DEF Receiver, Got, RoundIds
  <2> QED
    BY <1>5, <1>9, <2>1, <2>2, <2>3, PayloadsSound
<1>14. RunningInBounds'
  BY <1>4 DEF IInv, RunningInBounds
<1>15. DecidedInPast'
  <2>1. ASSUME NEW k \in Nodes, NEW s \in RoundIds, outcome'[k][s] # Undecided
        PROVE  s < round'[k]
    <3>1. s \in Nat
      BY DEF RoundIds
    <3>2. CASE k # n
      BY <1>4, <1>6, <2>1, <3>2 DEF IInv, DecidedInPast
    <3>3. CASE k = n /\ s # r
      BY <1>1, <1>4, <1>6, <2>1, <3>1, <3>3 DEF IInv, DecidedInPast
    <3>4. CASE k = n /\ s = r
      BY <1>1, <1>4, <3>4
    <3> QED
      BY <3>2, <3>3, <3>4
  <2>2. ASSUME NEW k \in Nodes, NEW s \in RoundIds, IsRoot(k)', decided'[s] # Undecided
        PROVE  s < round'[k]
    <3>1. s \in Nat /\ IsRoot(k)
      BY <2>2 DEF RoundIds, IsRoot, Parent
    <3>2. CASE decided[s] # Undecided
      <4>1. s < round[k]
        BY <3>1, <3>2 DEF IInv, DecidedInPast
      <4> QED
        BY <1>1, <1>4, <3>1, <4>1
    <3>3. CASE decided[s] = Undecided
      <4>1. s = r /\ IsRoot(n)
        BY <1>7, <2>2, <3>3, DecisionTypes
      <4>2. k = n
        BY <1>1, <3>1, <4>1, SessionsAssumption DEF TypeOK, IsRoot, Parent
      <4> QED
        BY <1>1, <1>4, <4>1, <4>2
    <3> QED
      BY <3>2, <3>3
  <2> QED
    BY <2>1, <2>2 DEF DecidedInPast
<1>16. FailureHasCause'
  BY <1>7 DEF IInv, FailureHasCause
<1> QED
  BY <1>8, <1>10, <1>11, <1>12, <1>13, <1>14, <1>15, <1>16 DEF IInv

\* How a step that completes no round leaves n: still in its round, in which it
\* has only learnt more; broken or crashed; at the beginning of a round; or out of
\* a round that it never began.
StaysInRound(n) ==
    /\ status[n] = "running" /\ status'[n] = "running" /\ round'[n] = round[n]
    /\ Locals(n) \subseteq Locals(n)' /\ gotten[n] \subseteq gotten'[n]
    /\ \A c \in Children(n) : \A q \in storage'[n].subtree_solutions[c] :
        q \in storage[n].subtree_solutions[c] \/ Covers(c, round[n], q)
BreaksDown(n) == status'[n] \in {"broken", "crashed"} /\ round'[n] >= round[n]
BeginsRound(n) ==
    /\ status[n] = "idle" /\ status'[n] = "running"
    /\ round'[n] = round[n] /\ round[n] < MaxRounds
    /\ \A c \in Children(n) : storage'[n].subtree_solutions[c] = {}
    /\ \A s \in RoundIds : s = round[n] =>
        \A b \in PayloadTo[n] : InFlight(n, b, Payload(s))'
SkipsRound(n) ==
    /\ status[n] = "idle" /\ status'[n] = "idle" /\ n \in session.exits
    /\ round'[n] = round[n] + 1 /\ round[n] < MaxRounds
Proceeds(n) == StaysInRound(n) \/ BreaksDown(n) \/ BeginsRound(n) \/ SkipsRound(n)

LEMMA ProceedsIInv ==
    ASSUME IInv, NEW n \in Nodes, TypeOK', UNCHANGED <<session, decided, outcome>>,
           \A k \in Nodes : k # n => /\ status'[k] = status[k] /\ round'[k] = round[k]
                                     /\ storage'[k] = storage[k] /\ gotten'[k] = gotten[k],
           Proceeds(n), excuse \subseteq excuse',
           NEW to, NEW msg, Emits(n, to, msg), MaySend(n, to, msg),
           \A p \in Locals(n)' : \A i \in Subtrees(n) :
               \E q \in storage'[n].subtree_solutions[i] : AssignsSubset(q, p),
           \A a, b \in Nodes, s \in RoundIds :
               InFlight(a, b, Payload(s)) =>
                   \/ InFlight(a, b, Payload(s))'
                   \/ b = n /\ (Receiver(n, s)' => Got(n, a, s)')
    PROVE  IInv'
<1>1. /\ TypeOK /\ \A k \in Nodes : round[k] \in Nat /\ round'[k] \in Nat
      /\ RoundIds \subseteq Nat
  <2>1. \A k \in Nodes : round[k] \in 0..MaxRounds /\ round'[k] \in 0..MaxRounds
    BY DEF IInv, TypeOK
  <2> QED
    BY <2>1 DEF IInv, RoundIds
<1>2. Advances(n)
  BY <1>1 DEF Advances, Proceeds, StaysInRound, BreaksDown, BeginsRound, SkipsRound
<1>3. StepOf(n)
  BY <1>2 DEF StepOf, Others
<1>4. AnnouncedIsDecided' /\ RequestsHaveCause' /\ MessagesCovered'
  <2>1. HistoryGrows
    BY DEF HistoryGrows
  <2> QED
    BY <1>3, <2>1, MessagesSound
<1>5. ChildrenCovered' /\ LocalsCovered'
  <2>1. ASSUME status'[n] = "running", NEW c \in Children(n),
               NEW q \in storage'[n].subtree_solutions[c]
        PROVE  \/ Covers(c, round[n], q)'
               \/ /\ status[n] = "running" /\ round'[n] = round[n]
                  /\ q \in storage[n].subtree_solutions[c]
    <3>1. StaysInRound(n)
      BY <2>1 DEF Proceeds, BreaksDown, BeginsRound, SkipsRound
    <3>2. status[n] = "running" /\ round'[n] = round[n]
      BY <3>1 DEF StaysInRound
    <3>3. CASE q \in storage[n].subtree_solutions[c]
      BY <3>2, <3>3
    <3>4. CASE Covers(c, round[n], q)
      <4>1. PICK r \in RoundIds : r = round[n]
        BY <3>2, RoundOf
      <4>2. Covers(c, r, q) /\ c \in Nodes
        BY <3>4, <4>1 DEF Children
      <4>3. Covers(c, r, q)'
        BY <1>1, <1>3, <4>2, CoversStable
      <4> QED
        BY <3>2, <4>1, <4>3 DEF Covers, Began
    <3> QED
      BY <2>1, <3>1, <3>3, <3>4 DEF StaysInRound
  <2> QED
    BY <1>3, <2>1, StorageSound
<1>6. CommitHasBranch'
  <2>1. ASSUME status'[n] = "idle"
        PROVE  outcome'[n][round'[n] - 1].kind # "Success"
    <3>1. SkipsRound(n)
      BY <2>1 DEF Proceeds, StaysInRound, BreaksDown, BeginsRound
    <3>2. round'[n] - 1 = round[n] /\ round[n] \in RoundIds
      BY <1>1, <3>1, MaxRoundsAssumption DEF SkipsRound, RoundIds
    <3>3. outcome[n][round[n]] = Undecided
      BY <1>1, <3>2 DEF IInv, DecidedInPast
    <3> QED
      BY <3>2, <3>3, DecisionTypes
  <2>2. CommitOf(n)'
    BY <2>1 DEF CommitOf
  <2> QED
    BY <1>3, <2>2, CommitSound
<1>7. PayloadKept'
  <2>1. ASSUME NEW s \in RoundIds, Sender(n, s)'
        PROVE  Sender(n, s) \/ \A b \in PayloadTo[n] : InFlight(n, b, Payload(s))'
    <3>1. CASE StaysInRound(n)
      BY <2>1, <3>1 DEF StaysInRound, Sender
    <3>2. CASE BreaksDown(n)
      BY <2>1, <3>2 DEF BreaksDown, Sender
    <3>3. CASE BeginsRound(n)
      <4>1. s < round[n] \/ s = round[n]
        BY <2>1, <3>3 DEF BeginsRound, Sender
      <4>2. CASE s < round[n]
        BY <2>1, <3>3, <4>2 DEF BeginsRound, Sender
      <4>3. CASE s = round[n]
        BY <3>3, <4>3 DEF BeginsRound
      <4> QED
        BY <4>1, <4>2, <4>3
    <3>4. CASE SkipsRound(n)
      BY <2>1, <3>4 DEF SkipsRound, Sender
    <3> QED
      BY <3>1, <3>2, <3>3, <3>4 DEF Proceeds
  <2>2. \A s \in RoundIds : Receiver(n, s)' => Receiver(n, s)
    BY <1>1 DEF Receiver, Proceeds, StaysInRound, BreaksDown, BeginsRound, SkipsRound
  <2>3. \A a \in Nodes, s \in RoundIds : Receiver(n, s)' /\ Got(n, a, s) => Got(n, a, s)'
    BY <1>1 DEF Receiver, Got, Proceeds, StaysInRound, BreaksDown, BeginsRound, SkipsRound
  <2> QED
    BY <1>3, <2>1, <2>2, <2>3, PayloadsSound
<1>8. RunningInBounds'
  <2>1. status'[n] = "running" => round'[n] < MaxRounds
    BY DEF IInv, RunningInBounds, Proceeds, StaysInRound, BreaksDown, BeginsRound, SkipsRound
  <2> QED
    BY <2>1 DEF IInv, RunningInBounds
<1>9. DecidedInPast'
  <2>1. \A k \in Nodes : round'[k] >= round[k]
    BY <1>1, <1>2 DEF Advances
  <2>2. \A k \in Nodes : IsRoot(k)' <=> IsRoot(k)
    BY DEF IsRoot, Parent
  <2>3. \A k \in Nodes, s \in RoundIds : s < round[k] => s < round'[k]
    BY <1>1, <2>1
  <2> QED
    BY <2>2, <2>3 DEF IInv, DecidedInPast
<1>10. FailureHasCause'
  BY DEF IInv, FailureHasCause
<1> QED
  BY <1>4, <1>5, <1>6, <1>7, <1>8, <1>9, <1>10 DEF IInv

\* Nobody below has to cover a request for failure, nor a payload.
LEMMA MaySendRequest ==
    ASSUME NEW n, NEW to, NEW r \in excuse'
    PROVE  MaySend(n, to, Suggest(r, Failure))
BY MessageTypes, DecisionTypes DEF MaySend

LEMMA MaySendPayload ==
    ASSUME NEW n, NEW to, NEW r
    PROVE  MaySend(n, to, Payload(r))
BY MessageTypes DEF MaySend

\* A step that sends nothing: nobody in `to`.
LEMMA MaySendNothing ==
    ASSUME NEW n, NEW msg
    PROVE  MaySend(n, {}, msg)
BY DEF MaySend

LEMMA GiveUpIInv ==
    ASSUME IInv, NEW n \in Nodes, status[n] = "running", NEW r \in RoundIds, r = round[n],
           NEW ch \in Streams, GiveUp(n, ch), Takes(ch),
           UNCHANGED <<session, gotten, storage>>,
           delayed' \in Inboxes, undelayed' \in Inboxes, deadline' \in [Nodes -> BOOLEAN],
           r \in excuse', excuse \subseteq excuse', excuse' \subseteq RoundIds
    PROVE  IInv'
<1>1. TypeOK
  BY DEF IInv
<1>2. CASE IsRoot(n)
  <2>1. EndRound(n, ch, Failure) /\ decided' = [decided EXCEPT ![r] = Failure]
    BY <1>2 DEF GiveUp, RootDecides
  <2>2. requested' \in [Nodes -> BOOLEAN]
    BY <1>1, <1>2 DEF GiveUp, TypeOK
  <2>3. PICK d \in Decisions : d = Failure
    BY DecisionTypes
  <2>4. DOMAIN storage' = Nodes /\ storage'[n] \in Storage(Subtrees(n))
    BY <1>1 DEF TypeOK
  <2>5. Locals(n)' = Locals(n)
    BY DEF Locals
  <2>6. d.kind # "Success"
    BY <2>3, DecisionTypes
  <2>7. \A k \in Nodes : k # n => storage'[k] = storage[k]
    OBVIOUS
  <2>8. storage'[n].subtree_solutions = storage[n].subtree_solutions
    OBVIOUS
  <2>9. EndRound(n, ch, d) /\ IsRoot(n) /\ decided' = [decided EXCEPT ![r] = d]
    BY <1>2, <2>1, <2>3
  <2> QED
    BY <2>2, <2>4, <2>5, <2>6, <2>7, <2>8, <2>9, EndRoundIInv
<1>3. CASE ~IsRoot(n)
  <2>1. /\ requested' = [requested EXCEPT ![n] = TRUE]
        /\ UNCHANGED <<decided, outcome>>
        /\ \/ requested[n] /\ chan' = ch /\ UNCHANGED <<status, round>>
           \/ SendUp(n, ch, Suggest(round[n], Failure))
    BY <1>3 DEF GiveUp
  <2>2. r < MaxRounds /\ r \in Nat /\ r \in 0..MaxRounds
    BY MaxRoundsAssumption DEF RoundIds
  <2>3. PICK msg \in Msg : msg = Suggest(r, Failure)
    BY MessageTypes, DecisionTypes
  <2>4. PICK to : to = {Parent(n)}
    OBVIOUS
  <2>5. /\ chan' \in Streams
        /\ status' \in [Nodes -> {"idle", "running", "broken", "crashed"}]
        /\ round' \in [Nodes -> 0..MaxRounds]
        /\ \A k \in Nodes : k # n => status'[k] = status[k] /\ round'[k] = round[k]
        /\ \/ status'[n] = "running" /\ round'[n] = round[n]
           \/ status'[n] = "broken" /\ round'[n] = round[n] + 1
        /\ Emits(n, to, msg)
        /\ \A a, b \in Nodes, s \in RoundIds :
             InFlight(a, b, Payload(s)) => InFlight(a, b, Payload(s))'
    <3>1. CASE chan' = ch /\ UNCHANGED <<status, round>>
      <4>1. \A a, b \in Nodes, x \in Msg :
              InFlight(a, b, x)' <=> Flying(ch, delayed', undelayed', a, b, x)
        BY <3>1 DEF InFlight
      <4>2. \A s \in RoundIds : Payload(s) \in Msg
        BY MessageTypes
      <4>3. Emits(n, to, msg)
        BY <4>1 DEF Takes, Emits
      <4>4. \A a, b \in Nodes, s \in RoundIds :
              InFlight(a, b, Payload(s)) => InFlight(a, b, Payload(s))'
        BY <4>1, <4>2 DEF Takes
      <4> QED
        BY <1>1, <3>1, <4>3, <4>4 DEF TypeOK
    <3>2. CASE SendUp(n, ch, Suggest(round[n], Failure))
      <4>1. Sending(n, ch, to, msg, "running", r)
        BY <2>3, <2>4, <3>2 DEF SendUp
      <4>2. SendsAs(n, ch, to, msg, "running", r)
        BY <1>1, <2>2, <4>1, SendingEffect
      <4>3. Emits(n, to, msg) /\ \A a, b \in Nodes, s \in RoundIds :
              InFlight(a, b, Payload(s)) => InFlight(a, b, Payload(s))'
        BY <1>1, <2>2, <4>1, FlightsAfterSending
      <4> QED
        BY <4>2, <4>3 DEF SendsAs
    <3> QED
      BY <2>1, <3>1, <3>2
  <2>6. TypeOK'
    <3>1. \A k \in Nodes : Subtrees(k)' = Subtrees(k)
      BY DEF Subtrees, Children, Parent
    <3>2. requested' \in [Nodes -> BOOLEAN]
      BY <1>1, <2>1 DEF TypeOK
    <3> QED
      BY <1>1, <2>1, <2>5, <3>1, <3>2 DEF TypeOK, Inboxes, Streams
  <2>7. Locals(n)' = Locals(n)
    BY DEF Locals
  <2>8. Proceeds(n)
    <3>1. round[n] + 1 >= round[n]
      BY <2>2
    <3> QED
      BY <2>5, <2>7, <3>1 DEF Proceeds, StaysInRound, BreaksDown
  <2>9. MaySend(n, to, msg)
    BY <2>3, MaySendRequest
  <2>10. \A p \in Locals(n)' : \A i \in Subtrees(n) :
           \E q \in storage'[n].subtree_solutions[i] : AssignsSubset(q, p)
    BY <2>7 DEF IInv, LocalsCovered
  <2>11. \A k \in Nodes : k # n => /\ status'[k] = status[k] /\ round'[k] = round[k]
                                   /\ storage'[k] = storage[k] /\ gotten'[k] = gotten[k]
    BY <2>5
  <2> QED
    BY <2>1, <2>5, <2>6, <2>8, <2>9, <2>10, <2>11, ProceedsIInv
<1> QED
  BY <1>2, <1>3

\* The streams and inboxes as they are lose nothing.
LEMMA NothingTaken ==
    ASSUME NEW ch, ch = chan, UNCHANGED inbox
    PROVE  Takes(ch)
BY DEF Takes, InFlight, inbox

LEMMA NothingSent ==
    ASSUME NEW n, UNCHANGED <<chan, inbox>>
    PROVE  /\ Emits(n, {}, Undecided) /\ MaySend(n, {}, Undecided)
           /\ \A a, b \in Nodes, s \in RoundIds :
                InFlight(a, b, Payload(s)) => InFlight(a, b, Payload(s))'
<1>1. \A a, b, x : InFlight(a, b, x)' <=> InFlight(a, b, x)
  BY DEF InFlight, Flying, inbox
<1> QED
  BY <1>1, MaySendNothing DEF Emits

LEMMA SubtreesFixed ==
    ASSUME UNCHANGED session
    PROVE  \A k \in Nodes : Subtrees(k)' = Subtrees(k)
BY DEF Subtrees, Children, Parent

LEMMA StartSyncIInv ==
    ASSUME IInv, NEW n \in Nodes, StartSync(n), UNCHANGED session
    PROVE  IInv'
<1>1. TypeOK
  BY DEF IInv
<1>2. PICK r \in RoundIds : r = round[n]
  <2>1. round[n] \in 0..MaxRounds /\ round[n] < MaxRounds
    BY <1>1 DEF TypeOK, StartSync
  <2> QED
    BY <2>1, MaxRoundsAssumption DEF RoundIds
<1>3. r < MaxRounds /\ r \in Nat /\ r \in 0..MaxRounds
  BY MaxRoundsAssumption DEF RoundIds
<1>4. PICK ch \in Streams : ch = chan
  BY <1>1 DEF TypeOK, Streams
<1>5. PICK msg \in Msg : msg = Payload(r)
  BY MessageTypes
<1> DEFINE to == PayloadTo[n]
<1>6. Sending(n, ch, to, msg, "running", r)
  BY <1>2, <1>4, <1>5 DEF StartSync
<1>7. /\ delayed' \in Inboxes /\ undelayed' \in Inboxes
      /\ \A b \in Nodes : Range(delayed'[b]) \cup Range(undelayed'[b])
                            = Range(delayed[b]) \cup Range(undelayed[b])
  <2>1. /\ delayed \in Inboxes /\ undelayed \in Inboxes
        /\ \A b \in Nodes : delayed[b] \in Seq(Nodes \X Msg) /\ undelayed[b] \in Seq(Nodes \X Msg)
    BY <1>1 DEF TypeOK, Inboxes
  <2>2. /\ undelayed[n] \o delayed[n] \in Seq(Nodes \X Msg)
        /\ Range(undelayed[n] \o delayed[n]) = Range(undelayed[n]) \cup Range(delayed[n])
    BY <2>1, RangeConcat
  <2>3. <<>> \in Seq(Nodes \X Msg)
    BY EmptySeq
  <2>4. /\ delayed' \in Inboxes /\ undelayed' \in Inboxes
        /\ delayed'[n] = <<>> /\ undelayed'[n] = undelayed[n] \o delayed[n]
        /\ \A b \in Nodes : b # n => delayed'[b] = delayed[b] /\ undelayed'[b] = undelayed[b]
    BY <2>1, <2>2, <2>3 DEF StartSync, Inboxes
  <2>5. Range(delayed'[n]) \cup Range(undelayed'[n]) = Range(delayed[n]) \cup Range(undelayed[n])
    BY <2>2, <2>4, RangeEmpty
  <2> QED
    BY <2>4, <2>5
<1>8. Takes(ch)
  BY <1>4, <1>7, MessageTypes DEF Takes, InFlight, Flying
<1>9. SendsAs(n, ch, to, msg, "running", r)
  BY <1>1, <1>2, <1>3, <1>6, SendingEffect
<1>10. Emits(n, to, msg) /\ \A a, b \in Nodes, s \in RoundIds :
         InFlight(a, b, Payload(s)) => InFlight(a, b, Payload(s))'
  BY <1>1, <1>2, <1>3, <1>6, <1>8, FlightsAfterSending
<1>11. /\ storage'[n] = EmptyStorage(Subtrees(n)) /\ DOMAIN storage' = Nodes
       /\ \A k \in Nodes : k # n => storage'[k] = storage[k] /\ gotten'[k] = gotten[k]
       /\ gotten' \in [Nodes -> SUBSET Nodes] /\ requested' \in [Nodes -> BOOLEAN]
       /\ deadline' \in [Nodes -> BOOLEAN]
       /\ UNCHANGED <<decided, outcome, excuse>>
  BY <1>1 DEF StartSync, TypeOK, history
<1>12. /\ storage'[n] \in Storage(Subtrees(n)) /\ Locals(n)' = {}
       /\ \A c \in Children(n) : storage'[n].subtree_solutions[c] = {}
  BY <1>11 DEF EmptyStorage, Storage, Locals, Subtrees
<1>13. TypeOK'
  <2>1. \A k \in Nodes : storage'[k] \in Storage(Subtrees(k))
    BY <1>1, <1>11, <1>12 DEF TypeOK
  <2>2. \A k \in Nodes : (storage[k] \in Storage(Subtrees(k)))'
    BY <2>1, SubtreesFixed
  <2> QED
    BY <1>1, <1>7, <1>9, <1>11, <2>2 DEF TypeOK, SendsAs, Inboxes, Streams
<1>14. Proceeds(n)
  <2>1. CASE /\ status'[n] = "running" /\ round'[n] = r
             /\ \A b \in Nodes : b \in to => msg \in Range(chan'[n][b])
    <3>1. \A b \in PayloadTo[n] : b \in Nodes
      BY PayloadToAssumption
    <3>2. \A b \in PayloadTo[n] : InFlight(n, b, Payload(r))'
      BY <1>5, <2>1, <3>1 DEF InFlight, Flying
    <3>3. BeginsRound(n)
      BY <1>2, <1>12, <2>1, <3>2 DEF BeginsRound, StartSync
    <3> QED
      BY <3>3 DEF Proceeds
  <2>2. CASE status'[n] = "broken" /\ round'[n] = round[n] + 1
    BY <1>2, <1>3, <2>2 DEF Proceeds, BreaksDown
  <2> QED
    BY <1>9, <2>1, <2>2 DEF SendsAs
<1>15. MaySend(n, to, msg)
  BY <1>5, MaySendPayload
<1>16. \A k \in Nodes : k # n => status'[k] = status[k] /\ round'[k] = round[k]
  BY <1>9 DEF SendsAs
<1> HIDE DEF to
<1> QED
  BY <1>10, <1>11, <1>12, <1>13, <1>14, <1>15, <1>16, ProceedsIInv

LEMMA ExitInconsistentIInv ==
    ASSUME IInv, NEW n \in Nodes, ExitInconsistent(n), UNCHANGED session
    PROVE  IInv'
<1>1. TypeOK
  BY DEF IInv
<1>2. /\ UNCHANGED <<storage, gotten, requested, deadline, decided, outcome, excuse>>
      /\ UNCHANGED <<status, chan, inbox>>
      /\ round' = [round EXCEPT ![n] = @ + 1] /\ round[n] < MaxRounds
      /\ status[n] = "idle" /\ n \in session.exits
  BY DEF ExitInconsistent, history
<1>3. round' \in [Nodes -> 0..MaxRounds] /\ round'[n] = round[n] + 1
        /\ \A k \in Nodes : k # n => round'[k] = round[k]
  BY <1>1, <1>2, MaxRoundsAssumption DEF TypeOK
<1>4. TypeOK'
  BY <1>1, <1>2, <1>3, SubtreesFixed DEF TypeOK, inbox
<1>5. Proceeds(n)
  BY <1>2, <1>3 DEF Proceeds, SkipsRound
<1>6. \A p \in Locals(n)' : \A i \in Subtrees(n) :
        \E q \in storage'[n].subtree_solutions[i] : AssignsSubset(q, p)
  BY <1>2 DEF IInv, LocalsCovered, Locals
<1>7. /\ Emits(n, {}, Undecided) /\ MaySend(n, {}, Undecided)
      /\ \A a, b \in Nodes, s \in RoundIds :
           InFlight(a, b, Payload(s)) => InFlight(a, b, Payload(s))'
  BY <1>2, NothingSent
<1> QED
  BY <1>2, <1>3, <1>4, <1>5, <1>6, <1>7, ProceedsIInv

\* Crash and ReadBroken
LEMMA BreakDownIInv ==
    ASSUME IInv, NEW n \in Nodes, Crash(n) \/ ReadBroken(n), UNCHANGED session
    PROVE  IInv'
<1>1. TypeOK
  BY DEF IInv
<1>2. /\ UNCHANGED <<storage, gotten, requested, deadline, decided, outcome, excuse>>
      /\ UNCHANGED <<chan, inbox>>
  BY DEF Crash, ReadBroken, history
<1>3. /\ status' \in [Nodes -> {"idle", "running", "broken", "crashed"}]
      /\ round' \in [Nodes -> 0..MaxRounds]
      /\ \A k \in Nodes : k # n => status'[k] = status[k] /\ round'[k] = round[k]
      /\ BreaksDown(n)
  <2>1. round[n] \in 0..MaxRounds
    BY <1>1 DEF TypeOK
  <2>2. CASE Crash(n)
    BY <1>1, <2>1, <2>2 DEF Crash, TypeOK, BreaksDown
  <2>3. CASE ReadBroken(n)
    <3>1. round[n] < MaxRounds
      BY <2>3 DEF ReadBroken, IInv, RunningInBounds
    <3>2. round[n] + 1 \in 0..MaxRounds /\ round[n] + 1 >= round[n]
      BY <2>1, <3>1, MaxRoundsAssumption
    <3> QED
      BY <1>1, <2>3, <3>2 DEF ReadBroken, TypeOK, BreaksDown
  <2> QED
    BY <2>2, <2>3
<1>4. TypeOK'
  BY <1>1, <1>2, <1>3, SubtreesFixed DEF TypeOK, inbox
<1>5. Proceeds(n)
  BY <1>3 DEF Proceeds
<1>6. \A p \in Locals(n)' : \A i \in Subtrees(n) :
        \E q \in storage'[n].subtree_solutions[i] : AssignsSubset(q, p)
  BY <1>2 DEF IInv, LocalsCovered, Locals
<1>7. /\ Emits(n, {}, Undecided) /\ MaySend(n, {}, Undecided)
      /\ \A a, b \in Nodes, s \in RoundIds :
           InFlight(a, b, Payload(s)) => InFlight(a, b, Payload(s))'
  BY <1>2, NothingSent
<1> QED
  BY <1>2, <1>3, <1>4, <1>5, <1>6, <1>7, ProceedsIInv

\* A step that takes in a solution: the local solutions only grow, and what is
\* taken in from a child is covered by it.
LEMMA DigestIInv ==
    ASSUME IInv, NEW n \in Nodes, status[n] = "running",
           NEW id \in Subtrees(n), NEW pred \in Predicate,
           id # n => Covers(id, round[n], pred),
           storage' = [storage EXCEPT ![n] = Digest(Subtrees(n), @, id, pred)],
           UNCHANGED <<session, status, round, gotten, requested, deadline, history>>,
           chan' \in Streams, delayed' \in Inboxes, undelayed' \in Inboxes,
           Emits(n, {}, Undecided),
           \A a, b \in Nodes, s \in RoundIds :
                InFlight(a, b, Payload(s)) => InFlight(a, b, Payload(s))'
    PROVE  IInv'
<1>1. TypeOK /\ storage[n] \in Storage(Subtrees(n)) /\ DOMAIN storage = Nodes
  BY DEF IInv, TypeOK
<1>2. PICK ids : ids = Subtrees(n)
  OBVIOUS
<1>3. /\ storage'[n] = Digest(ids, storage[n], id, pred) /\ DOMAIN storage' = Nodes
      /\ \A k \in Nodes : k # n => storage'[k] = storage[k]
  BY <1>1, <1>2
<1>4. PICK st \in Storage(ids) : st = storage[n]
  BY <1>1, <1>2
<1>5. PICK new : new = Digest(ids, st, id, pred)
  OBVIOUS
<1>6. /\ new \in Storage(ids)
      /\ \A i \in ids : \A q :
           q \in new.subtree_solutions[i] <=> q \in st.subtree_solutions[i] \/ (i = id /\ q = pred)
      /\ st.old_local \cup st.new_local \subseteq new.old_local \cup new.new_local
      /\ \A p \in new.old_local \cup new.new_local :
           \/ p \in st.old_local \cup st.new_local
           \/ \A i \in ids : \E q \in new.subtree_solutions[i] : AssignsSubset(q, p)
  BY <1>2, <1>5, DigestEffect
<1>7. storage'[n] = new /\ Locals(n) = st.old_local \cup st.new_local
        /\ Locals(n)' = new.old_local \cup new.new_local
  BY <1>3, <1>4, <1>5 DEF Locals
<1>8. TypeOK'
  <2>1. \A k \in Nodes : storage'[k] \in Storage(Subtrees(k))
    BY <1>1, <1>2, <1>3, <1>6, <1>7 DEF TypeOK
  <2>2. \A k \in Nodes : (storage[k] \in Storage(Subtrees(k)))'
    BY <2>1, SubtreesFixed
  <2> QED
    BY <1>1, <1>3, <2>2 DEF TypeOK, Inboxes, Streams, history
<1>9. \A p \in Locals(n)' : \A i \in Subtrees(n) :
        \E q \in storage'[n].subtree_solutions[i] : AssignsSubset(q, p)
  <2>1. \A p \in Locals(n) : \A i \in ids :
          \E q \in st.subtree_solutions[i] : AssignsSubset(q, p)
    BY <1>2, <1>4 DEF IInv, LocalsCovered
  <2>2. \A i \in ids : st.subtree_solutions[i] \subseteq new.subtree_solutions[i]
    BY <1>6
  <2>3. \A p \in Locals(n) : \A i \in ids :
          \E q \in new.subtree_solutions[i] : AssignsSubset(q, p)
    BY <2>1, <2>2
  <2> QED
    BY <1>2, <1>6, <1>7, <2>3
<1>10. Proceeds(n)
  <2>1. ASSUME NEW c \in Children(n), NEW q \in storage'[n].subtree_solutions[c]
        PROVE  q \in storage[n].subtree_solutions[c] \/ Covers(c, round[n], q)
    <3>1. c \in ids /\ c # n
      BY <1>1, <1>2, SessionsAssumption DEF Subtrees, Children, Parent, TypeOK
    <3> QED
      BY <1>4, <1>6, <1>7, <3>1
  <2>2. Locals(n) \subseteq Locals(n)'
    BY <1>6, <1>7
  <2>3. StaysInRound(n)
    BY <2>1, <2>2 DEF StaysInRound
  <2> QED
    BY <2>3 DEF Proceeds
<1>11. MaySend(n, {}, Undecided)
  BY MaySendNothing
<1>12. UNCHANGED <<decided, outcome, excuse>>
  BY DEF history
<1> QED
  BY <1>3, <1>8, <1>9, <1>10, <1>11, <1>12, ProceedsIInv

LEMMA LocalSolutionIInv ==
    ASSUME IInv, NEW n \in Nodes, NEW cand \in Candidates[n], LocalSolution(n, cand),
           UNCHANGED session
    PROVE  IInv'
<1>1. /\ status[n] = "running"
      /\ storage' = [storage EXCEPT ![n] = Digest(Subtrees(n), @, n, cand.pred)]
      /\ UNCHANGED <<status, round, gotten, requested, deadline, history>>
      /\ UNCHANGED <<chan, inbox>>
  BY DEF LocalSolution
<1>2. cand.pred \in Predicate
  BY RoundCandidatesAssumption
<1>3. chan' \in Streams /\ delayed' \in Inboxes /\ undelayed' \in Inboxes
  BY <1>1 DEF IInv, TypeOK, Streams, Inboxes, inbox
<1>4. /\ Emits(n, {}, Undecided)
      /\ \A a, b \in Nodes, s \in RoundIds :
           InFlight(a, b, Payload(s)) => InFlight(a, b, Payload(s))'
  BY <1>1, NothingSent
<1>5. n \in Subtrees(n)
  BY DEF Subtrees
<1>6. PICK pred \in Predicate : pred = cand.pred
  BY <1>2
<1>7. storage' = [storage EXCEPT ![n] = Digest(Subtrees(n), @, n, pred)]
  BY <1>1, <1>6
<1> QED
  BY <1>1, <1>3, <1>4, <1>5, <1>7, DigestIInv

LEMMA UnsatisfiableIInv ==
    ASSUME IInv, NEW n \in Nodes, Unsatisfiable(n) \/ Timeout(n), UNCHANGED session
    PROVE  IInv'
<1>1. /\ status[n] = "running" /\ GiveUp(n, chan) /\ excuse' = excuse \cup {round[n]}
      /\ UNCHANGED <<storage, gotten, inbox>>
  BY DEF Unsatisfiable, Timeout
<1>2. PICK r \in RoundIds : r = round[n]
  BY <1>1, RoundOf
<1>3. PICK ch \in Streams : ch = chan
  BY DEF IInv, TypeOK, Streams
<1>4. Takes(ch)
  BY <1>1, <1>3, NothingTaken
<1>5. delayed' \in Inboxes /\ undelayed' \in Inboxes /\ deadline' \in [Nodes -> BOOLEAN]
  BY <1>1 DEF IInv, TypeOK, Inboxes, inbox, Unsatisfiable, Timeout
<1>6. r \in excuse' /\ excuse \subseteq excuse' /\ excuse' \subseteq RoundIds
  BY <1>1, <1>2 DEF IInv, TypeOK
<1>7. GiveUp(n, ch)
  BY <1>1, <1>3
<1> QED
  BY <1>1, <1>2, <1>4, <1>5, <1>6, <1>7, GiveUpIInv

LEMMA HandUpIInv ==
    ASSUME IInv, NEW n \in Nodes, HandUp(n), UNCHANGED session
    PROVE  IInv'
<1>1. TypeOK /\ storage[n] \in Storage(Subtrees(n)) /\ DOMAIN storage = Nodes
  BY DEF IInv, TypeOK
<1>2. PICK p \in storage[n].new_local :
        /\ storage' = [storage EXCEPT ![n].new_local = @ \ {p}, ![n].old_local = @ \cup {p}]
        /\ SendUp(n, chan, Suggest(round[n], Success(p)))
  BY DEF HandUp
<1>3. /\ status[n] = "running"
      /\ UNCHANGED <<gotten, requested, deadline, inbox, decided, outcome, excuse>>
  BY DEF HandUp, history
<1>4. PICK r \in RoundIds : r = round[n]
  BY <1>3, RoundOf
<1>5. r < MaxRounds /\ r \in Nat /\ r \in 0..MaxRounds
  BY MaxRoundsAssumption DEF RoundIds
<1>6. /\ storage'[n] \in Storage(Subtrees(n)) /\ DOMAIN storage' = Nodes
      /\ \A k \in Nodes : k # n => storage'[k] = storage[k]
      /\ storage'[n].subtree_solutions = storage[n].subtree_solutions
      /\ Locals(n)' = Locals(n) /\ p \in Locals(n) /\ p \in Predicate
  BY <1>1, <1>2 DEF Storage, Locals
<1>7. PICK ch \in Streams : ch = chan
  BY <1>1 DEF TypeOK, Streams
<1>8. PICK to : to = {Parent(n)}
  OBVIOUS
<1>9. PICK msg \in Msg : msg = Suggest(r, Success(p))
  BY <1>6, MessageTypes, DecisionTypes
<1>10. Sending(n, ch, to, msg, "running", r)
  BY <1>2, <1>4, <1>7, <1>8, <1>9 DEF SendUp
<1>11. SendsAs(n, ch, to, msg, "running", r)
  BY <1>1, <1>4, <1>5, <1>10, SendingEffect
<1>12. Takes(ch)
  BY <1>3, <1>7, NothingTaken
<1>13. Emits(n, to, msg) /\ \A a, b \in Nodes, s \in RoundIds :
         InFlight(a, b, Payload(s)) => InFlight(a, b, Payload(s))'
  BY <1>1, <1>4, <1>5, <1>10, <1>12, FlightsAfterSending
<1>14. TypeOK'
  <2>1. \A k \in Nodes : storage'[k] \in Storage(Subtrees(k))
    BY <1>1, <1>6 DEF TypeOK
  <2>2. \A k \in Nodes : (storage[k] \in Storage(Subtrees(k)))'
    BY <2>1, SubtreesFixed
  <2> QED
    BY <1>1, <1>3, <1>6, <1>11, <2>2 DEF TypeOK, SendsAs, Inboxes, Streams, inbox
<1>15. \/ status'[n] = "running" /\ round'[n] = round[n]
       \/ status'[n] = "broken" /\ round'[n] = round[n] + 1
  BY <1>4, <1>11 DEF SendsAs
<1>16. Proceeds(n)
  BY <1>3, <1>4, <1>5, <1>6, <1>15 DEF Proceeds, StaysInRound, BreaksDown
<1>17. MaySend(n, to, msg)
  <2>1. AssignsSubset(p, p)
    BY DEF AssignsSubset
  <2>2. Covers(n, r, p)'
    BY <1>4, <1>5, <1>6, <1>15, <2>1 DEF Covers, Began
  <2> QED
    BY <1>9, <2>2, MessageTypes, DecisionTypes DEF MaySend
<1>18. \A u \in Locals(n)' : \A i \in Subtrees(n) :
         \E q \in storage'[n].subtree_solutions[i] : AssignsSubset(q, u)
  BY <1>6 DEF IInv, LocalsCovered
<1>19. \A k \in Nodes : k # n => /\ status'[k] = status[k] /\ round'[k] = round[k]
                                 /\ storage'[k] = storage[k] /\ gotten'[k] = gotten[k]
  BY <1>3, <1>6, <1>11 DEF SendsAs
<1> QED
  BY <1>3, <1>13, <1>14, <1>16, <1>17, <1>18, <1>19, ProceedsIInv

LEMMA DecideSuccessIInv ==
    ASSUME IInv, NEW n \in Nodes, DecideSuccess(n), UNCHANGED session
    PROVE  IInv'
<1>1. TypeOK /\ storage[n] \in Storage(Subtrees(n)) /\ DOMAIN storage = Nodes
  BY DEF IInv, TypeOK
<1>2. PICK p \in storage[n].new_local :
        /\ storage' = [storage EXCEPT ![n].new_local = {}, ![n].old_local = @ \cup {p}]
        /\ RootDecides(n, chan, Success(p))
  BY DEF DecideSuccess
<1>3. /\ status[n] = "running" /\ IsRoot(n)
      /\ UNCHANGED <<gotten, requested, deadline, inbox, excuse>>
  BY DEF DecideSuccess
<1>4. PICK r \in RoundIds : r = round[n]
  BY <1>3, RoundOf
<1>5. /\ storage'[n] \in Storage(Subtrees(n)) /\ DOMAIN storage' = Nodes
      /\ \A k \in Nodes : k # n => storage'[k] = storage[k]
      /\ storage'[n].subtree_solutions = storage[n].subtree_solutions
      /\ Locals(n)' \subseteq Locals(n) /\ p \in Locals(n) /\ p \in Predicate
  BY <1>1, <1>2 DEF Storage, Locals
<1>6. PICK ch \in Streams : ch = chan
  BY <1>1 DEF TypeOK, Streams
<1>7. PICK d \in Decisions : d = Success(p)
  BY <1>5, DecisionTypes
<1>8. Takes(ch)
  BY <1>3, <1>6, NothingTaken
<1>9. EndRound(n, ch, d) /\ decided' = [decided EXCEPT ![r] = d]
  BY <1>2, <1>4, <1>6, <1>7 DEF RootDecides
<1>10. /\ delayed' \in Inboxes /\ undelayed' \in Inboxes
       /\ requested' \in [Nodes -> BOOLEAN] /\ deadline' \in [Nodes -> BOOLEAN]
       /\ excuse' \subseteq RoundIds
  BY <1>1, <1>3 DEF TypeOK, Inboxes, inbox
<1>11. d.kind = "Success" /\ d.predicate = p /\ d # Failure /\ AssignsSubset(p, p)
  BY <1>7, DecisionTypes DEF AssignsSubset
<1>12. \E q \in Locals(n) : AssignsSubset(q, d.predicate)
  BY <1>5, <1>11
<1> QED
  BY <1>3, <1>4, <1>5, <1>8, <1>9, <1>10, <1>11, <1>12, EndRoundIInv

\* A step that takes one message and at most notes whose payload has come.
LEMMA TakenIInv ==
    ASSUME IInv, NEW n \in Nodes, status[n] = "running",
           UNCHANGED <<session, status, round, storage, requested, deadline, history>>,
           gotten' \in [Nodes -> SUBSET Nodes], gotten[n] \subseteq gotten'[n],
           \A k \in Nodes : k # n => gotten'[k] = gotten[k],
           chan' \in Streams, delayed' \in Inboxes, undelayed' \in Inboxes,
           Emits(n, {}, Undecided),
           \A a, b \in Nodes, s \in RoundIds :
                InFlight(a, b, Payload(s)) =>
                    \/ InFlight(a, b, Payload(s))'
                    \/ b = n /\ (Receiver(n, s)' => Got(n, a, s)')
    PROVE  IInv'
<1>1. TypeOK /\ UNCHANGED <<decided, outcome, excuse>>
  BY DEF IInv, history
<1>2. TypeOK'
  BY <1>1, SubtreesFixed DEF TypeOK, Inboxes, Streams
<1>3. Locals(n)' = Locals(n)
  BY DEF Locals
<1>4. Proceeds(n)
  BY <1>3 DEF Proceeds, StaysInRound
<1>5. \A p \in Locals(n)' : \A i \in Subtrees(n) :
         \E q \in storage'[n].subtree_solutions[i] : AssignsSubset(q, p)
  BY <1>3 DEF IInv, LocalsCovered
<1>6. MaySend(n, {}, Undecided)
  BY MaySendNothing
<1> QED
  BY <1>1, <1>2, <1>4, <1>5, <1>6, ProceedsIInv

\* The state when try_recv_any_comms has taken msg of m and left `ch`.
Taken(n, m, msg, ch) ==
    /\ status[n] = "running"
    /\ ch = ChanAfter(n, m)
    /\ undelayed' = UndelayedAfter(n)
    /\ undelayed' \in Inboxes
    /\ InFlight(m, n, msg)
    /\ \A a, b \in Nodes : \A x :
          Flying(ch, delayed, undelayed', a, b, x) => InFlight(a, b, x)
    /\ \A a, b \in Nodes : \A x :
          InFlight(a, b, x) =>
              Flying(ch, delayed, undelayed', a, b, x) \/ (a = m /\ b = n /\ x = msg)

LEMMA DropPastIInv ==
    ASSUME IInv, NEW n \in Nodes, NEW m \in Nodes, NEW msg \in Msg, NEW ch \in Streams,
           Taken(n, m, msg, ch), DropPast(n, m, msg), UNCHANGED session
    PROVE  IInv'
<1>1. /\ chan' = ch /\ msg.round < round[n] /\ status[n] = "running"
      /\ UNCHANGED <<status, round, storage, gotten, requested, deadline, history, delayed>>
  BY DEF DropPast, Taken, local
<1>2. \A a, b, x : InFlight(a, b, x)' <=> Flying(ch, delayed, undelayed', a, b, x)
  BY <1>1 DEF InFlight, Flying
<1>3. Emits(n, {}, Undecided)
  BY <1>2 DEF Taken, Emits
<1>4. ASSUME NEW a \in Nodes, NEW b \in Nodes, NEW s \in RoundIds, InFlight(a, b, Payload(s)),
             ~InFlight(a, b, Payload(s))'
      PROVE  b = n /\ ~Receiver(n, s)'
  <2>1. b = n /\ msg = Payload(s)
    BY <1>2, <1>4 DEF Taken
  <2>2. s < round[n]
    BY <1>1, <2>1, MessageTypes
  <2>3. round[n] \in 0..MaxRounds /\ s \in Nat
    BY DEF IInv, TypeOK, RoundIds
  <2> QED
    BY <1>1, <2>1, <2>2, <2>3 DEF Receiver
<1>5. /\ gotten' \in [Nodes -> SUBSET Nodes] /\ delayed' \in Inboxes
      /\ undelayed' \in Inboxes /\ chan' \in Streams
  BY <1>1 DEF IInv, TypeOK, Inboxes, Taken
<1> QED
  BY <1>1, <1>3, <1>4, <1>5, TakenIInv

LEMMA DelayFutureIInv ==
    ASSUME IInv, NEW n \in Nodes, NEW m \in Nodes, NEW msg \in Msg, NEW ch \in Streams,
           Taken(n, m, msg, ch), DelayFuture(n, m, msg), UNCHANGED session
    PROVE  IInv'
<1>1. /\ chan' = ch /\ delayed' = [delayed EXCEPT ![n] = Append(@, <<m, msg>>)]
      /\ status[n] = "running"
      /\ UNCHANGED <<status, round, storage, gotten, requested, deadline, history>>
  BY DEF DelayFuture, Taken, local
<1>2. delayed \in Inboxes /\ delayed[n] \in Seq(Nodes \X Msg) /\ <<m, msg>> \in Nodes \X Msg
  BY DEF IInv, TypeOK, Inboxes
<1>3. /\ Append(delayed[n], <<m, msg>>) \in Seq(Nodes \X Msg)
      /\ Range(Append(delayed[n], <<m, msg>>)) = Range(delayed[n]) \cup {<<m, msg>>}
  BY <1>2, RangeAppend
<1>4. /\ delayed' \in Inboxes /\ delayed'[n] = Append(delayed[n], <<m, msg>>)
      /\ \A b \in Nodes : b # n => delayed'[b] = delayed[b]
  BY <1>1, <1>2, <1>3 DEF Inboxes
<1>5. \A a, b \in Nodes : \A x :
        <<a, x>> \in Range(delayed'[b]) <=>
            <<a, x>> \in Range(delayed[b]) \/ (a = m /\ b = n /\ x = msg)
  <2>1. \A a, x : <<a, x>> = <<m, msg>> <=> a = m /\ x = msg
    OBVIOUS
  <2>2. \A a, x : <<a, x>> \in Range(delayed'[n]) <=>
          <<a, x>> \in Range(delayed[n]) \/ <<a, x>> = <<m, msg>>
    BY <1>3, <1>4
  <2> QED
    BY <1>4, <2>1, <2>2
<1>6. \A a, b \in Nodes : \A x :
        InFlight(a, b, x)' <=>
            Flying(ch, delayed, undelayed', a, b, x) \/ (a = m /\ b = n /\ x = msg)
  BY <1>1, <1>5 DEF InFlight, Flying
<1>7. \A a, b \in Nodes : \A x : InFlight(a, b, x)' <=> InFlight(a, b, x)
  BY <1>6 DEF Taken
<1>8. Emits(n, {}, Undecided)
  BY <1>7 DEF Emits
<1>9. /\ gotten' \in [Nodes -> SUBSET Nodes] /\ undelayed' \in Inboxes /\ chan' \in Streams
  BY <1>1 DEF IInv, TypeOK, Inboxes, Taken
<1> QED
  BY <1>1, <1>4, <1>7, <1>8, <1>9, TakenIInv

LEMMA GetPayloadIInv ==
    ASSUME IInv, NEW n \in Nodes, NEW m \in Nodes, NEW msg \in Msg, NEW ch \in Streams,
           Taken(n, m, msg, ch), GetPayload(n, m, msg), UNCHANGED session
    PROVE  IInv'
<1>1. /\ chan' = ch /\ msg.round = round[n] /\ status[n] = "running"
      /\ gotten' = [gotten EXCEPT ![n] = @ \cup {m}]
      /\ UNCHANGED <<status, round, storage, requested, deadline, history, delayed>>
  BY DEF GetPayload, Taken
<1>2. \A a, b, x : InFlight(a, b, x)' <=> Flying(ch, delayed, undelayed', a, b, x)
  BY <1>1 DEF InFlight, Flying
<1>3. Emits(n, {}, Undecided)
  BY <1>2 DEF Taken, Emits
<1>4. /\ gotten' \in [Nodes -> SUBSET Nodes] /\ delayed' \in Inboxes
      /\ undelayed' \in Inboxes /\ chan' \in Streams
      /\ gotten'[n] = gotten[n] \cup {m}
      /\ \A k \in Nodes : k # n => gotten'[k] = gotten[k]
  <2>1. gotten \in [Nodes -> SUBSET Nodes] /\ delayed \in Inboxes
    BY DEF IInv, TypeOK, Inboxes
  <2>2. undelayed' \in Inboxes /\ chan' \in Streams /\ delayed' \in Inboxes
    BY <1>1, <2>1 DEF Taken
  <2>3. /\ gotten' \in [Nodes -> SUBSET Nodes]
        /\ gotten'[n] = gotten[n] \cup {m}
        /\ \A k \in Nodes : k # n => gotten'[k] = gotten[k]
    BY <1>1, <2>1
  <2> QED
    BY <2>2, <2>3
<1>5. ASSUME NEW a \in Nodes, NEW b \in Nodes, NEW s \in RoundIds, InFlight(a, b, Payload(s)),
             ~InFlight(a, b, Payload(s))'
      PROVE  b = n /\ Got(n, a, s)'
  <2>1. a = m /\ b = n /\ msg = Payload(s)
    BY <1>2, <1>5 DEF Taken
  <2>2. s = round[n]
    BY <1>1, <2>1, MessageTypes
  <2> QED
    BY <1>1, <1>4, <2>1, <2>2 DEF Got
<1> QED
  BY <1>1, <1>3, <1>4, <1>5, TakenIInv

LEMMA ChildSolutionIInv ==
    ASSUME IInv, NEW n \in Nodes, NEW m \in Nodes, NEW msg \in Msg, NEW ch \in Streams,
           Taken(n, m, msg, ch), ChildSolution(n, m, msg), UNCHANGED session
    PROVE  IInv'
<1>1. /\ chan' = ch /\ msg.round = round[n] /\ status[n] = "running" /\ m \in Children(n)
      /\ msg.type = "Suggest" /\ msg.decision.kind = "Success"
      /\ storage' = [storage EXCEPT ![n] = Digest(Subtrees(n), @, m, msg.decision.predicate)]
      /\ UNCHANGED <<status, round, gotten, requested, deadline, history, delayed>>
  BY DEF ChildSolution, Taken
<1>2. \A a, b, x : InFlight(a, b, x)' <=> Flying(ch, delayed, undelayed', a, b, x)
  BY <1>1 DEF InFlight, Flying
<1>3. Emits(n, {}, Undecided)
  BY <1>2 DEF Taken, Emits
<1>4. \A a, b \in Nodes, s \in RoundIds :
        InFlight(a, b, Payload(s)) => InFlight(a, b, Payload(s))'
  BY <1>1, <1>2, MessageTypes DEF Taken
<1>5. PICK pred \in Predicate : pred = msg.decision.predicate
  BY <1>1, MessageTypes, DecisionTypes
<1>6. Covers(m, round[n], pred) /\ m \in Subtrees(n)
  BY <1>1, <1>5 DEF IInv, MessagesCovered, Taken, Subtrees
<1>7. delayed' \in Inboxes /\ undelayed' \in Inboxes /\ chan' \in Streams
  BY <1>1 DEF IInv, TypeOK, Inboxes, Taken
<1>8. storage' = [storage EXCEPT ![n] = Digest(Subtrees(n), @, m, pred)]
  BY <1>1, <1>5
<1> QED
  BY <1>1, <1>3, <1>4, <1>6, <1>7, <1>8, DigestIInv

LEMMA TakesMessage ==
    ASSUME NEW n \in Nodes, NEW m \in Nodes, NEW msg \in Msg, NEW ch \in Streams,
           Taken(n, m, msg, ch), msg.type # "Payload", delayed' = delayed
    PROVE  Takes(ch)
BY MessageTypes DEF Taken, Takes

LEMMA ChildFailureIInv ==
    ASSUME IInv, NEW n \in Nodes, NEW m \in Nodes, NEW msg \in Msg, NEW ch \in Streams,
           Taken(n, m, msg, ch), ChildFailure(n, m, msg), UNCHANGED session
    PROVE  IInv'
<1>1. /\ msg.round = round[n] /\ status[n] = "running"
      /\ msg.type = "Suggest" /\ msg.decision.kind = "Failure"
      /\ GiveUp(n, ch)
      /\ UNCHANGED <<storage, gotten, deadline, delayed, excuse>>
  BY DEF ChildFailure, Taken
<1>2. PICK r \in RoundIds : r = round[n]
  BY <1>1, RoundOf
<1>3. msg.decision = Failure
  BY <1>1, MessageTypes, DecisionTypes
<1>4. r \in excuse' /\ excuse \subseteq excuse' /\ excuse' \subseteq RoundIds
  BY <1>1, <1>2, <1>3 DEF IInv, RequestsHaveCause, Taken, TypeOK
<1>5. Takes(ch)
  BY <1>1, TakesMessage
<1>6. delayed' \in Inboxes /\ undelayed' \in Inboxes /\ deadline' \in [Nodes -> BOOLEAN]
  BY <1>1 DEF IInv, TypeOK, Inboxes, Taken
<1> QED
  BY <1>1, <1>2, <1>4, <1>5, <1>6, GiveUpIInv

LEMMA AnnouncedIInv ==
    ASSUME IInv, NEW n \in Nodes, NEW m \in Nodes, NEW msg \in Msg, NEW ch \in Streams,
           Taken(n, m, msg, ch), Announced(n, m, msg), UNCHANGED session
    PROVE  IInv'
<1>1. /\ msg.round = round[n] /\ status[n] = "running" /\ msg.type = "Announce"
      /\ EndRound(n, ch, msg.decision)
      /\ UNCHANGED <<storage, gotten, requested, deadline, delayed, decided, excuse>>
  BY DEF Announced, Taken
<1>2. PICK r \in RoundIds : r = round[n]
  BY <1>1, RoundOf
<1>3. PICK d \in Decisions : d = msg.decision
  BY <1>1, MessageTypes
<1>4. EndRound(n, ch, d)
  BY <1>1, <1>3
<1>5. decided[r] = d
  BY <1>1, <1>2, <1>3 DEF IInv, AnnouncedIsDecided, Taken
<1>6. d = Failure => r \in excuse'
  BY <1>1, <1>5 DEF IInv, FailureHasCause
<1>7. d.kind = "Success" => \E q \in Locals(n) : AssignsSubset(q, d.predicate)
  <2>1. SUFFICES ASSUME d.kind = "Success"
                 PROVE  \E q \in Locals(n) : AssignsSubset(q, d.predicate)
    OBVIOUS
  <2>2. Covers(n, r, d.predicate)
    BY <1>1, <1>2, <1>3, <2>1 DEF IInv, MessagesCovered, Taken
  <2> QED
    BY <1>1, <1>2, <2>2 DEF Covers
<1>8. Takes(ch)
  BY <1>1, TakesMessage
<1>9. /\ delayed' \in Inboxes /\ undelayed' \in Inboxes
      /\ requested' \in [Nodes -> BOOLEAN] /\ deadline' \in [Nodes -> BOOLEAN]
      /\ excuse' \subseteq RoundIds /\ DOMAIN storage' = Nodes
      /\ storage'[n] \in Storage(Subtrees(n))
  BY <1>1 DEF IInv, TypeOK, Inboxes, Taken
<1>10. Locals(n)' = Locals(n)
  BY <1>1 DEF Locals
<1> QED
  BY <1>1, <1>2, <1>4, <1>5, <1>6, <1>7, <1>8, <1>9, <1>10, EndRoundIInv

LEMMA RecvIInv ==
    ASSUME IInv, NEW n \in Nodes, Recv(n), UNCHANGED session
    PROVE  IInv'
<1>1. PICK fm \in Incoming(n) :
        \/ DropPast(n, fm[1], fm[2])
        \/ DelayFuture(n, fm[1], fm[2])
        \/ GetPayload(n, fm[1], fm[2])
        \/ ChildSolution(n, fm[1], fm[2])
        \/ ChildFailure(n, fm[1], fm[2])
        \/ Announced(n, fm[1], fm[2])
  BY DEF Recv
<1>2. status[n] = "running" /\ undelayed' = UndelayedAfter(n)
  BY DEF Recv
<1>3. PICK m \in Nodes, msg \in Msg, ch \in Streams :
        m = fm[1] /\ msg = fm[2] /\ ch = ChanAfter(n, m)
  BY Receives DEF IInv
<1>4. Taken(n, m, msg, ch)
  BY <1>2, <1>3, Receives DEF IInv, Taken
<1> QED
  BY <1>1, <1>3, <1>4, DropPastIInv, DelayFutureIInv, GetPayloadIInv, ChildSolutionIInv,
     ChildFailureIInv, AnnouncedIInv

-----------------------------------------------------------------------------
(* The theorems *)

LEMMA InitIInv == Init => IInv
<1> SUFFICES ASSUME Init PROVE IInv
  OBVIOUS
<1>1. \A k \in Nodes : storage[k] = EmptyStorage(Subtrees(k)) /\ Locals(k) = {}
  BY DEF Init, EmptyStorage, Locals
<1>2. \A a, b \in Nodes, x \in Msg : ~InFlight(a, b, x)
  BY RangeEmpty DEF Init, InFlight, Flying
<1>3. TypeOK
  <2>1. \A ids : EmptyStorage(ids) \in Storage(ids)
    BY DEF EmptyStorage, Storage
  <2>2. <<>> \in Seq(Nodes \X Msg) /\ <<>> \in Seq(Msg)
    BY EmptySeq
  <2>3. /\ delayed \in [Nodes -> Seq(Nodes \X Msg)] /\ undelayed \in [Nodes -> Seq(Nodes \X Msg)]
        /\ chan \in [Nodes -> [Nodes -> Seq(Msg)]]
    BY <2>2 DEF Init
  <2>4. /\ decided \in [RoundIds -> Decisions \cup {Undecided}]
        /\ outcome \in [Nodes -> [RoundIds -> Decisions \cup {Undecided}]]
    BY DEF Init
  <2>5. round \in [Nodes -> 0..MaxRounds]
    BY MaxRoundsAssumption DEF Init
  <2> QED
    BY <1>1, <2>1, <2>3, <2>4, <2>5 DEF Init, TypeOK
<1>4. RunningInBounds /\ ChildrenCovered
  BY DEF Init, RunningInBounds, ChildrenCovered
<1>5. DecidedInPast /\ FailureHasCause
  BY DecisionTypes DEF Init, DecidedInPast, FailureHasCause
<1>6. AnnouncedIsDecided /\ RequestsHaveCause /\ MessagesCovered
  BY <1>2 DEF AnnouncedIsDecided, RequestsHaveCause, MessagesCovered
<1>7. LocalsCovered
  BY <1>1 DEF LocalsCovered
<1>8. CommitHasBranch
  BY DEF Init, CommitHasBranch
<1>9. PayloadKept
  <2>1. \A k \in Nodes, r \in RoundIds : ~Sender(k, r)
    BY DEF Init, Sender, RoundIds
  <2> QED
    BY <2>1, PayloadKeptAs
<1> QED
  BY <1>3, <1>4, <1>5, <1>6, <1>7, <1>8, <1>9 DEF IInv

LEMMA StutterIInv == IInv /\ UNCHANGED vars => IInv'
<1> SUFFICES ASSUME IInv, UNCHANGED vars PROVE IInv'
  OBVIOUS
<1> USE DEF vars, local, inbox, history
<1>1. TypeOK'
  BY SubtreesFixed DEF IInv, TypeOK
<1>2. RunningInBounds' /\ DecidedInPast' /\ FailureHasCause'
  BY DEF IInv, RunningInBounds, DecidedInPast, FailureHasCause, IsRoot, Parent
<1>3. \A a, b, x : InFlight(a, b, x)' <=> InFlight(a, b, x)
  BY DEF InFlight, Flying
<1>4. \A k, r, p : Covers(k, r, p)' <=> Covers(k, r, p)
  BY DEF Covers, Began, Locals
<1>5. AnnouncedIsDecided' /\ RequestsHaveCause' /\ MessagesCovered'
  BY <1>3, <1>4 DEF IInv, AnnouncedIsDecided, RequestsHaveCause, MessagesCovered
<1>6. ChildrenCovered'
  BY DEF IInv, ChildrenCovered, Covers, Began, Locals, Children, Parent
<1>7. LocalsCovered'
  BY SubtreesFixed DEF IInv, LocalsCovered, Locals
<1>8. CommitHasBranch'
  BY DEF IInv, CommitHasBranch
<1>9. PayloadKept'
  <2>1. \A a, b \in Nodes, r \in RoundIds :
          b \in PayloadTo[a] /\ Sender(a, r) /\ Receiver(b, r)
              => InFlight(a, b, Payload(r)) \/ Got(b, a, r)
    BY PayloadKeptAs DEF IInv
  <2>2. \A a, b, r : /\ Sender(a, r)' <=> Sender(a, r)
                     /\ Receiver(b, r)' <=> Receiver(b, r)
                     /\ Got(b, a, r)' <=> Got(b, a, r)
    BY DEF Sender, Receiver, Got
  <2>3. (\A a, b \in Nodes, r \in RoundIds :
          b \in PayloadTo[a] /\ Sender(a, r) /\ Receiver(b, r)
              => InFlight(a, b, Payload(r)) \/ Got(b, a, r))'
    BY <1>3, <2>1, <2>2
  <2>4. (PayloadKept <=>
          \A a, b \in Nodes, r \in RoundIds :
              b \in PayloadTo[a] /\ Sender(a, r) /\ Receiver(b, r)
                  => InFlight(a, b, Payload(r)) \/ Got(b, a, r))'
    BY PayloadKeptAs, PTL
  <2> QED
    BY <2>3, <2>4
<1> QED
  BY <1>1, <1>2, <1>5, <1>6, <1>7, <1>8, <1>9 DEF IInv

LEMMA NextIInv == IInv /\ [Next]_vars => IInv'
<1> SUFFICES ASSUME IInv, [Next]_vars PROVE IInv'
  OBVIOUS
<1>1. ASSUME NEW n \in Nodes, Step(n), UNCHANGED session
      PROVE  IInv'
  BY <1>1, StartSyncIInv, ExitInconsistentIInv, LocalSolutionIInv, UnsatisfiableIInv,
     HandUpIInv, DecideSuccessIInv, RecvIInv, BreakDownIInv DEF Step
<1> QED
  BY <1>1, StutterIInv DEF Next

\* The state of a session keeps its shape.
THEOREM RoundsTypeCorrect == Spec => []TypeOK
<1>1. IInv => TypeOK
  BY DEF IInv
<1> QED
  BY InitIInv, NextIInv, <1>1, PTL DEF Spec

\* In every session, whatever the tree, the rounds and the faults: a connector
\* that commits a decision has a branch of its own for it (collapse_with finds
\* one), and a round fails only because somebody gave up in that round.
THEOREM DecisionsAreJustified == Spec => []DecisionsJustified
<1>1. IInv => DecisionsJustified
  BY DEF IInv, DecisionsJustified
<1> QED
  BY InitIInv, NextIInv, <1>1, PTL DEF Spec

\* A payload stays available to its receiver until the receiver has left the
\* round of the payload, however the two drift apart (handle_msg).
THEOREM PayloadsAreKept == Spec => []PayloadKept
<1>1. IInv => PayloadKept
  BY DEF IInv
<1> QED
  BY InitIInv, NextIInv, <1>1, PTL DEF Spec

-----------------------------------------------------------------------------
(* The refinement *)

LEMMA RootDecidesAgrees ==
    ASSUME IInv, NEW n \in Nodes, status[n] = "running", IsRoot(n),
           NEW ch, NEW d \in Decisions, RootDecides(n, ch, d)
    PROVE  Agreement!Next
<1>1. PICK r \in RoundIds : r = round[n]
  BY RoundOf
<1>2. r \in Nat
  BY DEF RoundIds
<1>3. decided[r] = Undecided
  BY <1>1, <1>2 DEF IInv, DecidedInPast
<1>4. decided' = [decided EXCEPT ![r] = d]
  BY <1>1 DEF RootDecides
<1>5. outcome' = outcome \/ outcome' = [outcome EXCEPT ![n][r] = d]
  BY <1>1 DEF RootDecides, EndRound
<1>6. Agreement!Decide(n, r, d)
  BY <1>3, <1>4, <1>5 DEF Agreement!Decide
<1> QED
  BY <1>6 DEF Agreement!Next

LEMMA AnnouncedAgrees ==
    ASSUME IInv, NEW n \in Nodes, status[n] = "running",
           NEW m \in Nodes, NEW msg \in Msg, InFlight(m, n, msg), Announced(n, m, msg)
    PROVE  Agreement!Next \/ UNCHANGED Agreement!vars
<1>1. PICK r \in RoundIds : r = round[n]
  BY RoundOf
<1>2. /\ msg.round = r /\ msg.type = "Announce" /\ decided' = decided
      /\ outcome' = outcome \/ outcome' = [outcome EXCEPT ![n][r] = msg.decision]
  BY <1>1 DEF Announced, EndRound
<1>3. msg.decision = decided[r] /\ msg.decision \in Decisions
  BY <1>2, MessageTypes DEF IInv, AnnouncedIsDecided
<1>4. decided[r] # Undecided
  BY <1>3, DecisionTypes
<1>5. outcome[n][r] = Undecided
  <2>1. r \in Nat
    BY DEF RoundIds
  <2> QED
    BY <1>1, <2>1 DEF IInv, DecidedInPast
<1>6. CASE outcome' = outcome
  BY <1>2, <1>6 DEF Agreement!vars
<1>7. CASE outcome' = [outcome EXCEPT ![n][r] = msg.decision]
  <2>1. Agreement!Learn(n, r)
    BY <1>2, <1>3, <1>4, <1>5, <1>7 DEF Agreement!Learn
  <2> QED
    BY <2>1 DEF Agreement!Next
<1> QED
  BY <1>2, <1>6, <1>7

LEMMA GiveUpAgrees ==
    ASSUME IInv, NEW n \in Nodes, status[n] = "running", NEW ch, GiveUp(n, ch)
    PROVE  Agreement!Next \/ UNCHANGED Agreement!vars
<1>1. CASE IsRoot(n)
  BY <1>1, RootDecidesAgrees, DecisionTypes DEF GiveUp
<1>2. CASE ~IsRoot(n)
  BY <1>2 DEF GiveUp, Agreement!vars
<1> QED
  BY <1>1, <1>2

LEMMA StepAgrees ==
    ASSUME IInv, NEW n \in Nodes, Step(n)
    PROVE  Agreement!Next \/ UNCHANGED Agreement!vars
<1>1. CASE \/ StartSync(n) \/ ExitInconsistent(n) \/ HandUp(n) \/ Crash(n) \/ ReadBroken(n)
           \/ \E cand \in Candidates[n] : LocalSolution(n, cand)
  BY <1>1 DEF StartSync, ExitInconsistent, HandUp, Crash, ReadBroken, LocalSolution,
     history, Agreement!vars
<1>2. CASE Unsatisfiable(n) \/ Timeout(n)
  BY <1>2, GiveUpAgrees DEF Unsatisfiable, Timeout
<1>3. CASE DecideSuccess(n)
  <2>1. PICK p \in storage[n].new_local : RootDecides(n, chan, Success(p))
    BY <1>3 DEF DecideSuccess
  <2>2. storage[n] \in Storage(Subtrees(n))
    BY DEF IInv, TypeOK
  <2>3. Success(p) \in Decisions
    BY <2>2, DecisionTypes DEF Storage
  <2> QED
    BY <1>3, <2>1, <2>3, RootDecidesAgrees DEF DecideSuccess
<1>4. CASE Recv(n)
  <2>1. PICK fm \in Incoming(n) :
          \/ DropPast(n, fm[1], fm[2])
          \/ DelayFuture(n, fm[1], fm[2])
          \/ GetPayload(n, fm[1], fm[2])
          \/ ChildSolution(n, fm[1], fm[2])
          \/ ChildFailure(n, fm[1], fm[2])
          \/ Announced(n, fm[1], fm[2])
    BY <1>4 DEF Recv
  <2>2. fm[1] \in Nodes /\ fm[2] \in Msg /\ InFlight(fm[1], n, fm[2]) /\ status[n] = "running"
    BY <1>4, Receives DEF IInv, Recv
  <2>3. CASE Announced(n, fm[1], fm[2])
    BY <2>2, <2>3, AnnouncedAgrees
  <2>4. CASE ChildFailure(n, fm[1], fm[2])
    BY <2>2, <2>4, GiveUpAgrees DEF ChildFailure
  <2>5. CASE \/ DropPast(n, fm[1], fm[2]) \/ DelayFuture(n, fm[1], fm[2])
             \/ GetPayload(n, fm[1], fm[2]) \/ ChildSolution(n, fm[1], fm[2])
    BY <2>5 DEF DropPast, DelayFuture, GetPayload, ChildSolution, history, Agreement!vars
  <2> QED
    BY <2>1, <2>3, <2>4, <2>5
<1> QED
  BY <1>1, <1>2, <1>3, <1>4 DEF Step

\* Every session implements RoundAgreement: a round has one decision, whoever
\* completes the round completes it with that decision, and neither is revised.
THEOREM RoundsAgree == Spec => ImplementsAgreement
<1>1. Init => Agreement!Init
  BY DEF Init, Agreement!Init
<1>2. IInv /\ [Next]_vars => [Agreement!Next]_(Agreement!vars)
  <2> SUFFICES ASSUME IInv, [Next]_vars PROVE [Agreement!Next]_(Agreement!vars)
    OBVIOUS
  <2>1. CASE Next
    BY <2>1, StepAgrees DEF Next
  <2>2. CASE UNCHANGED vars
    BY <2>2 DEF vars, history, Agreement!vars
  <2> QED
    BY <2>1, <2>2
<1> QED
  BY InitIInv, NextIInv, <1>1, <1>2, PTL DEF Spec, ImplementsAgreement, Agreement!Spec

=============================================================================
