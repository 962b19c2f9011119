-------------------------- MODULE UdpRounds_proofs --------------------------
(***************************************************************************)
(* What the UDP mediators of a connector send is what its rounds decided,    *)
(* for any number of endpoints, predicates, rounds and datagrams.            *)
(***************************************************************************)
EXTENDS UdpRounds, FiniteSetTheorems, TLAPS

\* A payload waits under a predicate under which the channel's port fires.
OutboxFires ==
    \A i \in Endpoints : \A o \in ee[i].outgoing_payloads :
        o.predicate[OutVar[i]] = FIRING

\* No put of the round in progress has left the outbox.
PutsKept ==
    phase = "running" =>
        \A i \in Endpoints : \A p \in puts[i] :
            \E o \in ee[i].outgoing_payloads : o.predicate = p

\* Datagrams left at the end of rounds that are over.
WireInPast == \A d \in wire : d.round < round

\* Between rounds, too, a connector whose last round succeeded is not deaf.
IdleNotDeaf ==
    phase = "idle" /\ ~failed => \A i \in Endpoints : ~ee[i].received_this_round

IInv ==
    /\ TypeOK
    /\ phase = "running" => round < MaxRounds
    /\ OutboxFires
    /\ PutsKept
    /\ WireInPast
    /\ DatagramsExact
    /\ NotDeafAfterSuccess
    /\ IdleNotDeaf

-----------------------------------------------------------------------------
(* The end of a round *)

\* A payload that is consistent with the decision is there to be sent exactly
\* if the decision lets the channel's port fire.
LEMMA SendableIffFires ==
    ASSUME TypeOK, OutboxFires, PutsKept, phase = "running",
           NEW s \in SolutionPredicates, Possible(s), NEW i \in Endpoints
    PROVE  Sendable(ee[i], s) # {} <=> s[OutVar[i]] = FIRING
<1>1. OutVar[i] \in SpecVars /\ FIRING # Unassigned
  BY VarsAssumption, UnassignedAssumption
<1>2. ASSUME NEW o \in ee[i].outgoing_payloads, AssignsSubset(o.predicate, s)
      PROVE  s[OutVar[i]] = FIRING
  BY <1>1, <1>2 DEF OutboxFires, AssignsSubset
<1>3. ASSUME s[OutVar[i]] = FIRING
      PROVE  Sendable(ee[i], s) # {}
  <2>1. PICK p \in puts[i] : AssignsSubset(p, s)
    BY <1>3 DEF Possible
  <2>2. PICK o \in ee[i].outgoing_payloads : o.predicate = p
    BY <2>1 DEF PutsKept
  <2> QED
    BY <2>1, <2>2 DEF Sendable
<1> QED
  BY <1>2, <1>3 DEF Sendable

\* The datagrams among D that endpoint i sent.
SentBy(D, i) == {d \in D : d.index = i}

\* What a decision sends is well formed, of its round, consistent with it, and
\* one datagram for every endpoint that has something to send.
LEMMA SentExact ==
    ASSUME TypeOK, phase = "running", round < MaxRounds,
           NEW s, NEW is \in SUBSET Endpoints, NEW pick \in Picks(s)
    PROVE  /\ \A d \in Sent(is, s, pick) :
                /\ d \in Datagram
                /\ d.round = round
                /\ d.index \in is
                /\ AssignsSubset(d.predicate, s)
           /\ \A i \in is :
                Cardinality(SentBy(Sent(is, s, pick), i))
                    = IF Sendable(ee[i], s) = {} THEN 0 ELSE 1
<1> DEFINE D(i) == [round |-> round, index |-> i, predicate |-> pick[i].predicate,
                    payload |-> pick[i].payload]
           Sends == {j \in is : Sendable(ee[j], s) # {}}
<1>1. Sent(is, s, pick) = {D(i) : i \in Sends}
  BY DEF Sent
<1>2. ASSUME NEW i \in Sends
      PROVE  D(i) \in Datagram /\ AssignsSubset(D(i).predicate, s)
  <2>1. pick[i] \in Sendable(ee[i], s)
    BY DEF Picks
  <2>2. ee[i].outgoing_payloads \subseteq [predicate : Predicate, payload : Rounds]
    BY DEF TypeOK, UdpEndpointExt
  <2>3. pick[i] \in [predicate : Predicate, payload : Rounds]
    BY <2>1, <2>2 DEF Sendable
  <2>4. round \in Rounds
    BY BoundsAssumption DEF TypeOK, Rounds
  <2> QED
    BY <2>1, <2>3, <2>4 DEF Datagram, Sendable
<1>3. ASSUME NEW i \in is
      PROVE  Cardinality(SentBy(Sent(is, s, pick), i))
                = IF Sendable(ee[i], s) = {} THEN 0 ELSE 1
  <2>1. CASE Sendable(ee[i], s) = {}
    <3>1. SentBy(Sent(is, s, pick), i) = {}
      BY <1>1, <2>1 DEF SentBy
    <3> QED
      BY <2>1, <3>1, FS_EmptySet
  <2>2. CASE Sendable(ee[i], s) # {}
    <3>1. SentBy(Sent(is, s, pick), i) = {D(i)}
      BY <1>1, <2>2 DEF SentBy
    <3> QED
      BY <2>2, <3>1, FS_Singleton
  <2> QED
    BY <2>1, <2>2
<1>4. ASSUME NEW d \in Sent(is, s, pick)
      PROVE  d \in Datagram /\ d.round = round /\ d.index \in is /\ AssignsSubset(d.predicate, s)
  <2>1. PICK i \in Sends : d = D(i)
    BY <1>1
  <2>2. D(i).round = round /\ D(i).index = i
    OBVIOUS
  <2> QED
    BY <1>2, <2>1, <2>2
<1> QED
  BY <1>3, <1>4

\* The datagrams of earlier rounds are not touched by what round r sends.
LEMMA SentInRound ==
    ASSUME TypeOK, WireInPast, NEW sent,
           \A d \in sent : d.round = round,
           wire' = wire \cup sent, NEW r \in Rounds, NEW i \in Endpoints
    PROVE  /\ r < round => {d \in wire' : d.round = r /\ d.index = i}
                              = {d \in wire : d.round = r /\ d.index = i}
           /\ r = round => {d \in wire' : d.round = r /\ d.index = i}
                              = SentBy(sent, i)
<1>1. \A d \in wire : d.round < round /\ d.round \in Nat
  BY DEF TypeOK, WireInPast, Datagram, Rounds
<1>2. round \in Nat /\ r \in Nat
  BY DEF TypeOK, Rounds
<1> QED
  BY <1>1, <1>2 DEF SentBy

-----------------------------------------------------------------------------
(* The invariant is inductive *)

LEMMA InitIInv == Init => IInv
<1> SUFFICES ASSUME Init PROVE IInv
  OBVIOUS
<1> USE BoundsAssumption DEF Init
<1>1. NewEndpoint \in UdpEndpointExt(Rounds, MaxArrived)
  BY DEF NewEndpoint, UdpEndpointExt
<1>2. TypeOK
  <2>1. ee \in [Endpoints -> UdpEndpointExt(Rounds, MaxArrived)]
    BY <1>1
  <2>2. puts \in [Endpoints -> SUBSET Predicate] /\ DOMAIN decided = Rounds
    OBVIOUS
  <2>3. round \in 0..MaxRounds
    OBVIOUS
  <2> QED
    BY <2>1, <2>2, <2>3 DEF TypeOK
<1>3. DatagramsExact
  BY DEF DatagramsExact, NoSpeculationEscapes, OneDatagramPerPut, Rounds
<1>4. /\ phase = "idle" /\ wire = {}
      /\ \A i \in Endpoints : /\ ee[i].outgoing_payloads = {}
                              /\ ~ee[i].received_this_round
  BY DEF NewEndpoint
<1>5. OutboxFires /\ PutsKept /\ WireInPast
  BY <1>4 DEF OutboxFires, PutsKept, WireInPast
<1>6. NotDeafAfterSuccess /\ IdleNotDeaf
  BY <1>4 DEF NotDeafAfterSuccess, IdleNotDeaf
<1> QED
  BY <1>2, <1>3, <1>4, <1>5, <1>6 DEF IInv

\* What the steps inside a round, and the network, leave as it is: the
\* datagrams sent and the decisions.
LEMMA DatagramsKept ==
    ASSUME DatagramsExact, WireInPast, phase # "broken",
           UNCHANGED <<round, wire, decided>>
    PROVE  DatagramsExact' /\ WireInPast'
BY DEF DatagramsExact, NoSpeculationEscapes, OneDatagramPerPut, WireInPast

LEMMA StartRoundIInv == IInv /\ StartRound => IInv'
<1> SUFFICES ASSUME IInv, StartRound PROVE IInv'
  OBVIOUS
<1> USE DEF IInv, StartRound
<1>1. TypeOK'
  BY DEF TypeOK
<1>2. DatagramsExact' /\ WireInPast'
  BY DatagramsKept
<1>3. (phase = "running" => round < MaxRounds)'
  OBVIOUS
<1>4. OutboxFires' /\ PutsKept'
  BY DEF OutboxFires, PutsKept
<1>5. NotDeafAfterSuccess' /\ IdleNotDeaf'
  BY DEF NotDeafAfterSuccess, IdleNotDeaf
<1> QED
  BY <1>1, <1>2, <1>3, <1>4, <1>5

LEMMA RouteToUdpIInv ==
    ASSUME IInv, NEW i \in Endpoints, NEW p \in PutPredicates[i], RouteToUdp(i, p)
    PROVE  IInv'
<1> USE DEF IInv, RouteToUdp
<1>1. p \in Predicate /\ p[OutVar[i]] = FIRING
  BY PutPredicatesAssumption
<1>2. round \in Rounds
  BY BoundsAssumption DEF TypeOK, Rounds
<1>3. ee[i] \in UdpEndpointExt(Rounds, MaxArrived)
  BY DEF TypeOK
<1> DEFINE new == Outgoing(ee[i], p, round)
<1>4. /\ new \in UdpEndpointExt(Rounds, MaxArrived)
      /\ new.outgoing_payloads = {o \in ee[i].outgoing_payloads : o.predicate # p}
                                    \cup {[predicate |-> p, payload |-> round]}
      /\ new.received_this_round = ee[i].received_this_round
  BY <1>1, <1>2, <1>3 DEF Outgoing, UdpEndpointExt
<1>5. /\ ee' \in [Endpoints -> UdpEndpointExt(Rounds, MaxArrived)]
      /\ ee'[i] = new
      /\ \A j \in Endpoints : j # i => ee'[j] = ee[j]
  BY <1>4 DEF TypeOK
<1> HIDE DEF new
<1>6. TypeOK'
  BY <1>1, <1>5 DEF TypeOK
<1>7. DatagramsExact' /\ WireInPast'
  BY DatagramsKept
<1>8. OutboxFires'
  BY <1>1, <1>4, <1>5 DEF OutboxFires
<1>9. PutsKept'
  <2>1. /\ puts'[i] = puts[i] \cup {p}
        /\ \A j \in Endpoints : j # i => puts'[j] = puts[j]
    BY DEF TypeOK
  <2>2. ASSUME NEW q \in puts'[i]
        PROVE  \E o \in new.outgoing_payloads : o.predicate = q
    <3>1. CASE q = p
      <4>1. [predicate |-> p, payload |-> round] \in new.outgoing_payloads
        BY <1>4
      <4> QED
        BY <3>1, <4>1
    <3>2. CASE q # p
      <4>1. PICK o \in ee[i].outgoing_payloads : o.predicate = q
        BY <2>1, <3>2 DEF PutsKept
      <4> QED
        BY <1>4, <3>2, <4>1
    <3> QED
      BY <3>1, <3>2
  <2> QED
    BY <1>5, <2>1, <2>2 DEF PutsKept
<1>10. NotDeafAfterSuccess' /\ IdleNotDeaf'
  BY <1>4, <1>5 DEF NotDeafAfterSuccess, IdleNotDeaf
<1> QED
  BY <1>6, <1>7, <1>8, <1>9, <1>10

LEMMA ArriveIInv ==
    ASSUME IInv, NEW i \in Endpoints, Arrive(i)
    PROVE  IInv'
<1> USE DEF IInv, Arrive
<1>1. ee[i] \in UdpEndpointExt(Rounds, MaxArrived)
  BY DEF TypeOK
<1>2. /\ Arrived(ee[i]) \in UdpEndpointExt(Rounds, MaxArrived)
      /\ Arrived(ee[i]).outgoing_payloads = ee[i].outgoing_payloads
      /\ Arrived(ee[i]).received_this_round = ee[i].received_this_round
  BY <1>1, BoundsAssumption DEF Arrived, UdpEndpointExt
<1>3. /\ ee' \in [Endpoints -> UdpEndpointExt(Rounds, MaxArrived)]
      /\ \A j \in Endpoints : /\ ee'[j].outgoing_payloads = ee[j].outgoing_payloads
                              /\ ee'[j].received_this_round = ee[j].received_this_round
  BY <1>2 DEF TypeOK
<1>4. TypeOK'
  BY <1>3 DEF TypeOK
<1>5. DatagramsExact' /\ WireInPast'
  BY DEF DatagramsExact, NoSpeculationEscapes, OneDatagramPerPut, WireInPast
<1>6. OutboxFires' /\ PutsKept'
  BY <1>3 DEF OutboxFires, PutsKept
<1>7. NotDeafAfterSuccess' /\ IdleNotDeaf'
  BY <1>3 DEF NotDeafAfterSuccess, IdleNotDeaf
<1> QED
  BY <1>4, <1>5, <1>6, <1>7

LEMMA DrainUdpIInv ==
    ASSUME IInv, NEW i \in Endpoints, DrainUdp(i)
    PROVE  IInv'
<1> USE DEF IInv, DrainUdp
<1>1. ee[i] \in UdpEndpointExt(Rounds, MaxArrived)
  BY DEF TypeOK
<1>2. /\ Drained(ee[i]) \in UdpEndpointExt(Rounds, MaxArrived)
      /\ Drained(ee[i]).outgoing_payloads = ee[i].outgoing_payloads
      /\ Drained(ee[i]).received_this_round
  <2>1. (ee[i].received_this_round \/ ee[i].arrived > 0) = TRUE
    BY <1>1 DEF UdpEndpointExt
  <2>2. Drained(ee[i]) = [ee[i] EXCEPT !.arrived = 0, !.received_this_round = TRUE]
    BY <1>1, <2>1 DEF Drained, UdpEndpointExt
  <2>3. 0 \in 0..MaxArrived
    BY BoundsAssumption
  <2> HIDE DEF IInv, DrainUdp
  <2> QED
    BY <1>1, <2>2, <2>3 DEF UdpEndpointExt
<1>3. /\ ee' \in [Endpoints -> UdpEndpointExt(Rounds, MaxArrived)]
      /\ \A j \in Endpoints : ee'[j].outgoing_payloads = ee[j].outgoing_payloads
      /\ \A j \in Endpoints : j # i => ee'[j] = ee[j]
      /\ ee'[i].received_this_round
  BY <1>2 DEF TypeOK
<1>4. TypeOK'
  BY <1>3 DEF TypeOK
<1>5. DatagramsExact' /\ WireInPast'
  BY DatagramsKept
<1>6. OutboxFires' /\ PutsKept'
  BY <1>3 DEF OutboxFires, PutsKept
<1>7. NotDeafAfterSuccess'
  <2>1. ASSUME ~failed, NEW j \in Endpoints, j \notin handed'
        PROVE  ~ee'[j].received_this_round
    <3>1. j \notin handed /\ ~ee[j].received_this_round
      BY <2>1 DEF NotDeafAfterSuccess
    <3>2. j # i
      BY <2>1, <3>1 DEF HandsOver
    <3> QED
      BY <1>3, <3>1, <3>2
  <2> QED
    BY <2>1 DEF NotDeafAfterSuccess
<1>8. IdleNotDeaf'
  BY DEF IdleNotDeaf
<1> QED
  BY <1>4, <1>5, <1>6, <1>7, <1>8

LEMMA EndFailureIInv == IInv /\ EndFailure => IInv'
<1> SUFFICES ASSUME IInv, EndFailure PROVE IInv'
  OBVIOUS
<1> USE DEF IInv, EndFailure
<1>1. round \in Rounds /\ round + 1 \in 0..MaxRounds
  BY BoundsAssumption DEF TypeOK, Rounds
<1>2. /\ decided'[round].kind = "Failure"
      /\ \A r \in Rounds : r # round => decided'[r] = decided[r]
      /\ DOMAIN decided' = Rounds
  BY <1>1 DEF TypeOK, Failure
<1>3. TypeOK'
  BY <1>1, <1>2 DEF TypeOK
<1>4. \A d \in wire : d.round \in Rounds /\ d.round < round
  BY DEF TypeOK, Datagram, WireInPast
<1>5. WireInPast'
  BY <1>1, <1>4 DEF WireInPast, Rounds
<1>6. NoSpeculationEscapes'
  BY <1>2, <1>4 DEF DatagramsExact, NoSpeculationEscapes, Rounds
<1>7. ASSUME NEW r \in Rounds, NEW i \in Endpoints, r < round'
      PROVE  Cardinality({d \in wire : d.round = r /\ d.index = i})
                = IF decided'[r].kind = "Success" /\ decided'[r].predicate[OutVar[i]] = FIRING
                  THEN 1 ELSE 0
  <2>1. CASE r < round
    BY <1>1, <1>2, <2>1 DEF DatagramsExact, OneDatagramPerPut, Rounds
  <2>2. CASE r = round
    <3>1. {d \in wire : d.round = r /\ d.index = i} = {}
      BY <1>1, <1>4, <2>2 DEF Rounds
    <3> QED
      BY <1>2, <2>2, <3>1, FS_EmptySet
  <2> QED
    BY <1>1, <1>7, <2>1, <2>2 DEF Rounds
<1>8. DatagramsExact'
  BY <1>6, <1>7 DEF DatagramsExact, OneDatagramPerPut
<1>9. OutboxFires' /\ PutsKept'
  BY DEF OutboxFires, PutsKept
<1>10. NotDeafAfterSuccess' /\ IdleNotDeaf'
  BY DEF NotDeafAfterSuccess, IdleNotDeaf
<1> QED
  BY <1>3, <1>5, <1>8, <1>9, <1>10

LEMMA EndSuccessIInv ==
    ASSUME IInv, NEW s \in SolutionPredicates, EndSuccess(s)
    PROVE  IInv'
<1> USE DEF IInv, EndSuccess
<1>1. round \in Rounds /\ round + 1 \in 0..MaxRounds
  BY BoundsAssumption DEF TypeOK, Rounds
<1>2. /\ decided'[round] = Success(s)
      /\ \A r \in Rounds : r # round => decided'[r] = decided[r]
      /\ DOMAIN decided' = Rounds
  BY <1>1 DEF TypeOK
<1>3. PICK pick \in Picks(s) : wire' = wire \cup Sent(Endpoints, s, pick)
  OBVIOUS
<1> DEFINE sent == Sent(Endpoints, s, pick)
<1>4. /\ \A d \in sent : d \in Datagram /\ d.round = round /\ AssignsSubset(d.predicate, s)
      /\ \A i \in Endpoints : Cardinality(SentBy(sent, i))
                                = IF Sendable(ee[i], s) = {} THEN 0 ELSE 1
  <2>1. Endpoints \in SUBSET Endpoints
    OBVIOUS
  <2>2. TypeOK /\ phase = "running" /\ round < MaxRounds
    OBVIOUS
  <2> HIDE DEF IInv, EndSuccess
  <2> QED
    BY <2>1, <2>2, SentExact
<1>5. /\ ee' \in [Endpoints -> UdpEndpointExt(Rounds, MaxArrived)]
      /\ \A i \in Endpoints : /\ ee'[i].outgoing_payloads = {}
                              /\ ~ee'[i].received_this_round
  <2>1. ASSUME NEW i \in Endpoints
        PROVE  /\ Committed(ee[i]) \in UdpEndpointExt(Rounds, MaxArrived)
               /\ Committed(ee[i]).outgoing_payloads = {}
               /\ ~Committed(ee[i]).received_this_round
    <3>1. ee[i] \in UdpEndpointExt(Rounds, MaxArrived)
      BY DEF TypeOK
    <3> QED
      BY <3>1 DEF Committed, UdpEndpointExt
  <2> QED
    BY <2>1
<1> HIDE DEF sent
<1>6. TypeOK'
  BY <1>1, <1>2, <1>3, <1>4, <1>5 DEF TypeOK, sent
<1>7. \A d \in wire : d.round \in Rounds /\ d.round < round
  BY DEF TypeOK, Datagram, WireInPast
<1>8. WireInPast'
  BY <1>1, <1>3, <1>4, <1>7 DEF WireInPast, Rounds, sent
<1>9. NoSpeculationEscapes'
  <2>1. Success(s).kind = "Success" /\ Success(s).predicate = s
    BY DEF Success
  <2> QED
    BY <1>2, <1>3, <1>4, <1>7, <2>1 DEF DatagramsExact, NoSpeculationEscapes, Rounds, sent
<1>10. ASSUME NEW r \in Rounds, NEW i \in Endpoints, r < round'
       PROVE  Cardinality({d \in wire' : d.round = r /\ d.index = i})
                = IF decided'[r].kind = "Success" /\ decided'[r].predicate[OutVar[i]] = FIRING
                  THEN 1 ELSE 0
  <2>1. CASE r < round
    <3>1. {d \in wire' : d.round = r /\ d.index = i} = {d \in wire : d.round = r /\ d.index = i}
      BY <1>3, <1>4, <2>1, SentInRound DEF sent
    <3> QED
      BY <1>1, <1>2, <2>1, <3>1 DEF DatagramsExact, OneDatagramPerPut, Rounds
  <2>2. CASE r = round
    <3>1. {d \in wire' : d.round = r /\ d.index = i} = SentBy(sent, i)
      BY <1>3, <1>4, <2>2, SentInRound DEF sent
    <3>2. Sendable(ee[i], s) # {} <=> s[OutVar[i]] = FIRING
      BY SendableIffFires
    <3> QED
      BY <1>2, <1>4, <2>2, <3>1, <3>2 DEF Success
  <2> QED
    BY <1>1, <1>10, <2>1, <2>2 DEF Rounds
<1>11. DatagramsExact'
  BY <1>9, <1>10 DEF DatagramsExact, OneDatagramPerPut
<1>12. OutboxFires' /\ PutsKept'
  BY <1>5 DEF OutboxFires, PutsKept
<1>13. NotDeafAfterSuccess' /\ IdleNotDeaf'
  BY <1>5 DEF NotDeafAfterSuccess, IdleNotDeaf
<1> QED
  BY <1>6, <1>8, <1>11, <1>12, <1>13

LEMMA EndBrokenIInv ==
    ASSUME IInv, NEW s \in SolutionPredicates, NEW b \in Endpoints, EndBroken(s, b)
    PROVE  IInv'
<1> USE DEF IInv, EndBroken
<1> DEFINE is == {i \in Endpoints : i < b}
<1>1. round \in Rounds /\ round + 1 \in 0..MaxRounds
  BY BoundsAssumption DEF TypeOK, Rounds
<1>2. /\ decided'[round] = Success(s)
      /\ \A r \in Rounds : r # round => decided'[r] = decided[r]
      /\ DOMAIN decided' = Rounds
  BY <1>1 DEF TypeOK
<1>3. PICK pick \in Picks(s) : wire' = wire \cup Sent(is, s, pick)
  OBVIOUS
<1> DEFINE sent == Sent(is, s, pick)
<1>4. \A d \in sent : d \in Datagram /\ d.round = round /\ AssignsSubset(d.predicate, s)
  <2>1. is \in SUBSET Endpoints
    OBVIOUS
  <2> QED
    BY <2>1, SentExact
<1>5. /\ ee' \in [Endpoints -> UdpEndpointExt(Rounds, MaxArrived)]
      /\ \A i \in Endpoints : ee'[i].outgoing_payloads \subseteq ee[i].outgoing_payloads
  <2>1. ASSUME NEW i \in Endpoints
        PROVE  /\ Committed(ee[i]) \in UdpEndpointExt(Rounds, MaxArrived)
               /\ Committed(ee[i]).outgoing_payloads = {}
               /\ CommitFailed(ee[i]) \in UdpEndpointExt(Rounds, MaxArrived)
               /\ CommitFailed(ee[i]).outgoing_payloads = {}
               /\ ee[i] \in UdpEndpointExt(Rounds, MaxArrived)
    <3>1. ee[i] \in UdpEndpointExt(Rounds, MaxArrived)
      BY DEF TypeOK
    <3> QED
      BY <3>1 DEF Committed, CommitFailed, UdpEndpointExt
  <2> QED
    BY <2>1
<1> HIDE DEF sent, is
<1>6. TypeOK'
  BY <1>1, <1>2, <1>3, <1>4, <1>5 DEF TypeOK, sent
<1>7. \A d \in wire : d.round \in Rounds /\ d.round < round
  BY DEF TypeOK, Datagram, WireInPast
<1>8. WireInPast'
  BY <1>1, <1>3, <1>4, <1>7 DEF WireInPast, Rounds, sent
<1>9. NoSpeculationEscapes'
  <2>1. Success(s).kind = "Success" /\ Success(s).predicate = s
    BY DEF Success
  <2> QED
    BY <1>2, <1>3, <1>4, <1>7, <2>1 DEF DatagramsExact, NoSpeculationEscapes, Rounds, sent
<1>10. ASSUME NEW r \in Rounds, NEW i \in Endpoints, r < round
       PROVE  Cardinality({d \in wire' : d.round = r /\ d.index = i})
                = IF decided'[r].kind = "Success" /\ decided'[r].predicate[OutVar[i]] = FIRING
                  THEN 1 ELSE 0
  <2>1. {d \in wire' : d.round = r /\ d.index = i} = {d \in wire : d.round = r /\ d.index = i}
    BY <1>3, <1>4, <1>10, SentInRound DEF sent
  <2>2. decided'[r] = decided[r]
    BY <1>1, <1>2, <1>10 DEF Rounds
  <2>3. r < round /\ phase # "broken"
    BY <1>10
  <2> QED
    BY <2>1, <2>2, <2>3 DEF DatagramsExact, OneDatagramPerPut
<1>11. DatagramsExact'
  <2>1. \A r \in Rounds : r < round' /\ ~(phase' = "broken" /\ r = round' - 1) => r < round
    BY <1>1 DEF Rounds
  <2> QED
    BY <1>9, <1>10, <2>1 DEF DatagramsExact, OneDatagramPerPut
<1>12. OutboxFires' /\ PutsKept'
  BY <1>5 DEF OutboxFires, PutsKept
<1>13. NotDeafAfterSuccess' /\ IdleNotDeaf'
  BY DEF NotDeafAfterSuccess, IdleNotDeaf
<1> QED
  BY <1>6, <1>8, <1>11, <1>12, <1>13

LEMMA NextIInv == IInv /\ [Next]_vars => IInv'
<1> SUFFICES ASSUME IInv, [Next]_vars PROVE IInv'
  OBVIOUS
<1>1. CASE StartRound
  BY <1>1, StartRoundIInv
<1>2. ASSUME NEW i \in Endpoints, NEW p \in PutPredicates[i], RouteToUdp(i, p) PROVE IInv'
  BY <1>2, RouteToUdpIInv
<1>3. ASSUME NEW i \in Endpoints, Arrive(i) PROVE IInv'
  BY <1>3, ArriveIInv
<1>4. ASSUME NEW i \in Endpoints, DrainUdp(i) PROVE IInv'
  BY <1>4, DrainUdpIInv
<1>5. CASE EndFailure
  BY <1>5, EndFailureIInv
<1>6. ASSUME NEW s \in SolutionPredicates, EndSuccess(s) PROVE IInv'
  BY <1>6, EndSuccessIInv
<1>7. ASSUME NEW s \in SolutionPredicates, NEW b \in Endpoints, EndBroken(s, b) PROVE IInv'
  BY <1>7, EndBrokenIInv
<1>8. CASE UNCHANGED vars
  BY <1>8
  DEF vars, IInv, TypeOK, OutboxFires, PutsKept, WireInPast, DatagramsExact,
      NoSpeculationEscapes, OneDatagramPerPut, NotDeafAfterSuccess, IdleNotDeaf
<1> QED
  BY <1>1, <1>2, <1>3, <1>4, <1>5, <1>6, <1>7, <1>8 DEF Next

-----------------------------------------------------------------------------
\* The state of the mediators is well formed.
THEOREM UdpTypeCorrect == Spec => []TypeOK
<1>1. IInv => TypeOK
  BY DEF IInv
<1> QED
  BY InitIInv, NextIInv, <1>1, PTL DEF Spec

\* No speculation escapes through UDP, whatever failed rounds have left in the
\* outbox, and a committed put is sent exactly once (udp_endpoints_round_end).
THEOREM OnlyDecisionsLeave == Spec => []DatagramsExact
<1>1. IInv => DatagramsExact
  BY DEF IInv
<1> QED
  BY InitIInv, NextIInv, <1>1, PTL DEF Spec

\* After a round that succeeded, the first datagram of the next round is handed
\* to the port (received_this_round in try_recv_any_comms).
THEOREM HearsAfterSuccess == Spec => []NotDeafAfterSuccess
<1>1. IInv => NotDeafAfterSuccess
  BY DEF IInv
<1> QED
  BY InitIInv, NextIInv, <1>1, PTL DEF Spec
=============================================================================
