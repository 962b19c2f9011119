-------------------------- MODULE Connector_proofs --------------------------
(***************************************************************************)
(* The port information of a connector stays consistent for every sequence    *)
(* of calls, any number of ports, components and batches, and a sync call is  *)
(* all or nothing.                                                           *)
(***************************************************************************)
EXTENDS Connector, FiniteSetTheorems, TLAPS

\* Identifiers handed out are below the counters of the id manager.
FreshPorts(i, n) == \A k \in Nat : k >= n => <<Me, k>> \notin DOMAIN i.map
FreshComps(i, n) == \A k \in Nat : k >= n => <<Me, k>> \notin DOMAIN i.owned

Sound(i) == IsIps(i) /\ InvariantPreserved(i)
Good(i) == Sound(i) /\ FreshPorts(i, i.nextPort) /\ FreshComps(i, i.nextComp)

\* The components of this connector with suffixes from a to b - 1.
CompIds(a, b) == {<<Me, k>> : k \in {n \in Nat : a <= n /\ n < b}}

-----------------------------------------------------------------------------
(* The operations on port information *)

\* Inserting new ports of existing owners keeps map and owned in agreement.
LEMMA InsertSound ==
    ASSUME NEW i, Sound(i), NEW n \in Nat, FreshComps(i, n), NEW new,
           DOMAIN new \subseteq Ids,
           \A p \in DOMAIN new : new[p] \in PortInfo,
           \A p \in DOMAIN new : p \notin DOMAIN i.map,
           \A p \in DOMAIN new : new[p].owner \in CompIds(0, n) \cup {<<Other, 0>>}
    PROVE  /\ Sound(Insert(i, new))
           /\ FreshComps(Insert(i, new), n)
           /\ DOMAIN Insert(i, new).map = DOMAIN i.map \cup DOMAIN new
           /\ \A p \in DOMAIN i.map : Insert(i, new).map[p] = i.map[p]
           /\ Insert(i, new).nextPort = i.nextPort
           /\ Insert(i, new).nextComp = i.nextComp
           /\ \A c : (\A p \in DOMAIN new : new[p].owner # c)
                        => OwnedBy(Insert(i, new), c) = OwnedBy(i, c)
<1> DEFINE j == Insert(i, new)
           map == [p \in DOMAIN i.map \cup DOMAIN new |->
                     IF p \in DOMAIN new THEN new[p] ELSE i.map[p]]
           owners == DOMAIN i.owned \cup {new[p].owner : p \in DOMAIN new}
           owned == [c \in owners |-> (IF c \in DOMAIN i.owned THEN i.owned[c] ELSE {})
                                        \cup {p \in DOMAIN new : new[p].owner = c}]
<1>1. /\ DOMAIN j = {"map", "owned", "nextPort", "nextComp"}
      /\ j.map = map /\ j.owned = owned
      /\ j.nextPort = i.nextPort /\ j.nextComp = i.nextComp
  BY DEF Insert, Sound, IsIps
<1> HIDE DEF j
<1>2. IsIps(j)
  <2>1. \A p \in DOMAIN new : new[p].owner \in Ids
    BY DEF PortInfo
  <2> QED
    BY <1>1, <2>1 DEF IsIps, Sound
<1>3. InvariantPreserved(j)
  <2>1. ASSUME NEW p \in DOMAIN map
        PROVE  map[p].owner \in DOMAIN owned /\ p \in owned[map[p].owner]
    <3>1. CASE p \in DOMAIN new
      BY <3>1
    <3>2. CASE p \notin DOMAIN new
      BY <3>2 DEF Sound, InvariantPreserved
    <3> QED
      BY <3>1, <3>2
  <2>2. ASSUME NEW c \in DOMAIN owned, NEW p \in owned[c]
        PROVE  p \in DOMAIN map /\ map[p].owner = c
    <3>1. CASE p \in DOMAIN new /\ new[p].owner = c
      BY <3>1
    <3>2. CASE c \in DOMAIN i.owned /\ p \in i.owned[c]
      BY <3>2 DEF Sound, InvariantPreserved
    <3> QED
      BY <3>1, <3>2
  <2> HIDE DEF map, owned
  <2> QED
    BY <1>1, <2>1, <2>2 DEF InvariantPreserved
<1>4. FreshComps(j, n)
  <2> SUFFICES ASSUME NEW k \in Nat, k >= n
               PROVE  <<Me, k>> \notin owners
    BY <1>1 DEF FreshComps
  <2>1. <<Me, k>> \notin DOMAIN i.owned
    BY DEF FreshComps
  <2>2. <<Me, k>> \notin CompIds(0, n) \cup {<<Other, 0>>}
    BY IdsAssumption DEF CompIds
  <2> QED
    BY <2>1, <2>2
<1>5. ASSUME NEW c, \A p \in DOMAIN new : new[p].owner # c
      PROVE  OwnedBy(j, c) = OwnedBy(i, c)
  <2>1. {p \in DOMAIN new : new[p].owner = c} = {}
    BY <1>5
  <2>2. c \in DOMAIN owned <=> c \in DOMAIN i.owned
    BY <1>5
  <2>3. c \in DOMAIN i.owned => owned[c] = i.owned[c]
    BY <2>1
  <2> HIDE DEF owned
  <2> QED
    BY <1>1, <2>2, <2>3 DEF OwnedBy
<1>6. \A p \in DOMAIN i.map : j.map[p] = i.map[p]
  BY <1>1
<1> QED
  BY <1>1, <1>2, <1>3, <1>4, <1>5, <1>6 DEF Sound, j

\* Taking identifiers moves a counter and nothing else.
LEMMA TakePortsSound ==
    ASSUME NEW i, Sound(i), NEW n \in Nat
    PROVE  /\ Sound(TakePorts(i, n))
           /\ TakePorts(i, n).map = i.map
           /\ TakePorts(i, n).owned = i.owned
           /\ TakePorts(i, n).nextPort = i.nextPort + n
           /\ TakePorts(i, n).nextComp = i.nextComp
<1>1. /\ DOMAIN TakePorts(i, n) = {"map", "owned", "nextPort", "nextComp"}
      /\ TakePorts(i, n).map = i.map
      /\ TakePorts(i, n).owned = i.owned
      /\ TakePorts(i, n).nextPort = i.nextPort + n
      /\ TakePorts(i, n).nextComp = i.nextComp
  BY DEF TakePorts, Sound, IsIps
<1>2. IsIps(TakePorts(i, n))
  BY <1>1 DEF IsIps, Sound
<1> QED
  BY <1>1, <1>2 DEF Sound, InvariantPreserved

LEMMA TakeCompSound ==
    ASSUME NEW i, Sound(i)
    PROVE  /\ Sound(TakeComp(i))
           /\ TakeComp(i).map = i.map
           /\ TakeComp(i).owned = i.owned
           /\ TakeComp(i).nextPort = i.nextPort
           /\ TakeComp(i).nextComp = i.nextComp + 1
<1>1. /\ DOMAIN TakeComp(i) = {"map", "owned", "nextPort", "nextComp"}
      /\ TakeComp(i).map = i.map
      /\ TakeComp(i).owned = i.owned
      /\ TakeComp(i).nextPort = i.nextPort
      /\ TakeComp(i).nextComp = i.nextComp + 1
  BY DEF TakeComp, Sound, IsIps
<1>2. IsIps(TakeComp(i))
  BY <1>1 DEF IsIps, Sound
<1> QED
  BY <1>1, <1>2 DEF Sound, InvariantPreserved

\* Moving ports of one owner to a fresh component keeps the agreement.
LEMMA WithMovedGood ==
    ASSUME NEW i, Good(i), NEW from \in CompIds(0, i.nextComp), NEW ports,
           ports \subseteq DOMAIN i.map,
           \A p \in ports : i.map[p].owner = from
    PROVE  /\ Good(WithMoved(i, from, ports))
           /\ WithMoved(i, from, ports).nextComp = i.nextComp + 1
           /\ DOMAIN WithMoved(i, from, ports).map = DOMAIN i.map
           /\ \A p \in DOMAIN i.map \ ports : WithMoved(i, from, ports).map[p] = i.map[p]
           /\ \A c : c # from /\ c # NewComp(i)
                        => OwnedBy(WithMoved(i, from, ports), c) = OwnedBy(i, c)
<1> DEFINE cid == NewComp(i)
           j == WithMoved(i, from, ports)
           map == [p \in DOMAIN i.map |->
                     IF p \in ports THEN [i.map[p] EXCEPT !.owner = cid] ELSE i.map[p]]
           owned == [c \in DOMAIN i.owned \cup {cid} |->
                       IF c = cid THEN ports
                       ELSE IF c = from THEN i.owned[c] \ ports ELSE i.owned[c]]
<1>1. /\ DOMAIN j = {"map", "owned", "nextPort", "nextComp"}
      /\ j.map = map /\ j.owned = owned
      /\ j.nextPort = i.nextPort /\ j.nextComp = i.nextComp + 1
  BY DEF WithMoved, TakeComp, Good, Sound, IsIps
<1> HIDE DEF j
<1>2. i.nextComp \in Nat /\ cid \in Ids /\ cid \notin DOMAIN i.owned /\ cid # from
  BY DEF NewComp, Ids, CompIds, Good, Sound, IsIps, FreshComps
<1>3. \A p \in ports : map[p] \in PortInfo /\ map[p].owner = cid
  <2> SUFFICES ASSUME NEW p \in ports
               PROVE  map[p] \in PortInfo /\ map[p].owner = cid
    OBVIOUS
  <2>1. i.map[p] \in PortInfo
    BY DEF Good, Sound, IsIps
  <2>2. map[p] = [i.map[p] EXCEPT !.owner = cid]
    OBVIOUS
  <2> QED
    BY <1>2, <2>1, <2>2 DEF PortInfo
<1>4. \A p \in DOMAIN i.map \ ports : map[p] = i.map[p]
  OBVIOUS
<1>5. DOMAIN map = DOMAIN i.map
  OBVIOUS
<1> HIDE DEF map, cid
<1>6. IsIps(j)
  <2>1. \A p \in DOMAIN map : map[p] \in PortInfo
    BY <1>3, <1>4, <1>5 DEF Good, Sound, IsIps
  <2>2. \A c \in DOMAIN owned : owned[c] \subseteq Ids
    BY DEF Good, Sound, IsIps
  <2> QED
    BY <1>1, <1>2, <1>5, <2>1, <2>2 DEF IsIps, Good, Sound
<1>7. InvariantPreserved(j)
  <2>1. ASSUME NEW p \in DOMAIN map
        PROVE  map[p].owner \in DOMAIN owned /\ p \in owned[map[p].owner]
    <3>1. CASE p \in ports
      BY <1>3, <3>1
    <3>2. CASE p \notin ports
      BY <1>2, <1>4, <1>5, <3>2 DEF Good, Sound, InvariantPreserved
    <3> QED
      BY <3>1, <3>2
  <2>2. ASSUME NEW c \in DOMAIN owned, NEW p \in owned[c]
        PROVE  p \in DOMAIN map /\ map[p].owner = c
    <3>1. CASE c = cid
      BY <1>3, <1>5, <3>1
    <3>2. CASE c # cid
      <4>1. p \in i.owned[c] /\ c \in DOMAIN i.owned /\ (c = from => p \notin ports)
        BY <3>2
      <4>2. p \in DOMAIN i.map /\ i.map[p].owner = c
        BY <4>1 DEF Good, Sound, InvariantPreserved
      <4> QED
        BY <1>4, <1>5, <4>1, <4>2
    <3> QED
      BY <3>1, <3>2
  <2> QED
    BY <1>1, <2>1, <2>2 DEF InvariantPreserved
<1>8. FreshComps(j, j.nextComp)
  BY <1>1, <1>2 DEF Good, Sound, FreshComps, cid, NewComp
<1>9. FreshPorts(j, j.nextPort)
  BY <1>1, <1>5 DEF Good, FreshPorts
<1>10. ASSUME NEW c, c # from, c # NewComp(i)
       PROVE  OwnedBy(j, c) = OwnedBy(i, c)
  BY <1>1, <1>10 DEF OwnedBy, cid
<1> QED
  BY <1>1, <1>4, <1>5, <1>6, <1>7, <1>8, <1>9, <1>10 DEF Good, Sound, j

\* A channel between two fresh ports of one owner.
LEMMA WithPortPairGood ==
    ASSUME NEW i, Good(i), NEW owner \in CompIds(0, i.nextComp)
    PROVE  /\ Good(WithPortPair(i, owner))
           /\ WithPortPair(i, owner).nextComp = i.nextComp
           /\ DOMAIN WithPortPair(i, owner).map = DOMAIN i.map \cup {Port(i, 0), Port(i, 1)}
           /\ \A p \in DOMAIN i.map : WithPortPair(i, owner).map[p] = i.map[p]
           /\ \A c : c # owner => OwnedBy(WithPortPair(i, owner), c) = OwnedBy(i, c)
<1> DEFINE o == Port(i, 0)
           g == Port(i, 1)
           new == [p \in {o, g} |-> IF p = o THEN Info(owner, g, "Putter", "Local")
                                             ELSE Info(owner, o, "Getter", "Local")]
           j == Insert(i, new)
<1>1. i.nextPort \in Nat /\ i.nextComp \in Nat
  BY DEF Good, Sound, IsIps
<1>2. o \in Ids /\ g \in Ids /\ owner \in Ids /\ o \notin DOMAIN i.map /\ g \notin DOMAIN i.map
  BY <1>1 DEF Port, Ids, CompIds, Good, FreshPorts
<1>3. /\ DOMAIN new = {o, g}
      /\ \A p \in DOMAIN new : new[p] \in PortInfo /\ new[p].owner = owner
  BY <1>2 DEF Info, PortInfo
<1> HIDE DEF new
<1>4. /\ Sound(j) /\ FreshComps(j, i.nextComp)
      /\ DOMAIN j.map = DOMAIN i.map \cup {o, g}
      /\ \A p \in DOMAIN i.map : j.map[p] = i.map[p]
      /\ j.nextPort = i.nextPort /\ j.nextComp = i.nextComp
      /\ \A c : c # owner => OwnedBy(j, c) = OwnedBy(i, c)
  <2>1. /\ Sound(i) /\ FreshComps(i, i.nextComp)
        /\ DOMAIN new \subseteq Ids
        /\ \A p \in DOMAIN new : p \notin DOMAIN i.map
        /\ \A p \in DOMAIN new : new[p].owner \in CompIds(0, i.nextComp) \cup {<<Other, 0>>}
    BY <1>2, <1>3 DEF Good
  <2>2. \A c : c # owner => \A p \in DOMAIN new : new[p].owner # c
    BY <1>3
  <2> QED
    BY <1>1, <1>3, <2>1, <2>2, InsertSound
<1>5. FreshPorts(j, i.nextPort + 2)
  BY <1>1, <1>4 DEF FreshPorts, Good, Port
<1> DEFINE t == TakePorts(j, 2)
<1>6. /\ Sound(t) /\ t.map = j.map /\ t.owned = j.owned
      /\ t.nextPort = j.nextPort + 2 /\ t.nextComp = j.nextComp
  BY <1>4, TakePortsSound
<1>7. t = WithPortPair(i, owner)
  BY DEF WithPortPair, new
<1> HIDE DEF t, j
<1>8. Good(t)
  BY <1>4, <1>5, <1>6 DEF Good, FreshPorts, FreshComps
<1>9. \A c : OwnedBy(t, c) = OwnedBy(j, c)
  BY <1>6 DEF OwnedBy
<1> QED
  BY <1>4, <1>6, <1>7, <1>8, <1>9
-----------------------------------------------------------------------------
(* The inductive invariant *)

\* The components the connector stores were created by it, after the native.
CompsKnown ==
    /\ 1 <= ips.nextComp
    /\ comps \subseteq CompIds(1, ips.nextComp)
    /\ IsFiniteSet(comps) /\ IsFiniteSet(synced)

\* While a sync call works on its copy, no component owns a port of the native.
CopyKeepsNative ==
    phase \in {"nonsync", "round"} =>
        /\ 1 <= work.nextComp
        /\ unrun \in Seq(CompIds(1, work.nextComp))
        /\ synced \subseteq CompIds(1, work.nextComp)
        /\ OwnedBy(work, Native) = OwnedBy(ips, Native)

\* Only connect brings in ports of other connectors.
NoForeignPorts == phase = "setup" => \A k \in Nat : <<Other, k>> \notin DOMAIN ips.map

IInv ==
    /\ TypeOK
    /\ Good(ips) /\ Good(work)
    /\ BatchesNative
    /\ CompsKnown
    /\ CopyKeepsNative
    /\ NoForeignPorts
    /\ phase = "round" => batches = <<EmptyBatch>>
    /\ phase # "round" => branches = <<>>

\* What the native owned before the step it owns afterwards.
NativePortsKept ==
    \A p \in DOMAIN ips.map : p \in DOMAIN ips'.map /\ ips'.map[p] = ips.map[p]

LEMMA BatchesStayNative ==
    ASSUME BatchesNative, NativePortsKept, UNCHANGED <<batches, branches>>
    PROVE  BatchesNative'
BY DEF BatchesNative, NativePortsKept, NativeOwns

LEMMA CompIdsGrow ==
    ASSUME NEW a \in Nat, NEW b \in Nat, NEW c \in Nat, b <= c
    PROVE  /\ CompIds(a, b) \subseteq CompIds(a, c)
           /\ CompIds(1, b) \subseteq CompIds(0, b)
BY DEF CompIds

LEMMA NoIpsGood == Good(NoIps)
BY DEF Good, Sound, NoIps, IsIps, InvariantPreserved, FreshPorts, FreshComps, Ids

LEMMA InitIInv == Init => IInv
<1> SUFFICES ASSUME Init PROVE IInv
  OBVIOUS
<1>1. Good(ips)
  BY DEF Init, Good, Sound, IsIps, InvariantPreserved, FreshPorts, FreshComps, Ids
<1>2. Good(work)
  BY NoIpsGood DEF Init
<1>3. TypeOK
  <2>1. IsIps(ips) /\ IsIps(work)
    BY <1>1, <1>2 DEF Good, Sound
  <2> QED
    BY <2>1 DEF Init, TypeOK
<1>4. CompsKnown
  BY FS_EmptySet DEF Init, CompsKnown
<1> QED
  BY <1>1, <1>2, <1>3, <1>4
  DEF Init, IInv, BatchesNative, CopyKeepsNative, NoForeignPorts

\* A call outside sync that leaves the batches alone and keeps what is known of
\* the ports keeps the invariant.
LEMMA CallKeepsIInv ==
    ASSUME IInv, phase \in {"setup", "comm"},
           Good(ips'), NativePortsKept, ips.nextComp <= ips'.nextComp,
           comps' = comps, netPorts' \subseteq Ids,
           phase = "setup" => \A k \in Nat : <<Other, k>> \notin DOMAIN ips'.map,
           UNCHANGED <<phase, batches, result, syncVars>>
    PROVE  IInv'
<1>1. IsIps(ips') /\ DOMAIN ips'.map \subseteq Ids
  BY DEF Good, Sound, IsIps
<1>2. TypeOK'
  BY <1>1 DEF IInv, TypeOK, syncVars
<1>3. BatchesNative'
  BY BatchesStayNative DEF IInv, syncVars
<1>4. CompsKnown'
  <2>1. ips.nextComp \in Nat /\ ips'.nextComp \in Nat
    BY <1>1 DEF IInv, TypeOK, IsIps
  <2>2. CompIds(1, ips.nextComp) \subseteq CompIds(1, ips'.nextComp)
    BY <2>1, CompIdsGrow
  <2> QED
    BY <2>1, <2>2 DEF IInv, CompsKnown, syncVars
<1>5. Good(work)'
  BY DEF IInv, syncVars
<1> QED
  BY <1>2, <1>3, <1>4, <1>5 DEF IInv, CopyKeepsNative, NoForeignPorts, syncVars

LEMMA NativeKnown ==
    ASSUME IInv
    PROVE  /\ ips.nextPort \in Nat /\ ips.nextComp \in Nat
           /\ Native \in CompIds(0, ips.nextComp)
BY DEF IInv, CompsKnown, Good, Sound, IsIps, CompIds, Native

LEMMA NewPortPairStep == IInv /\ NewPortPair => IInv'
<1> SUFFICES ASSUME IInv, NewPortPair PROVE IInv'
  OBVIOUS
<1>1. /\ Good(ips') /\ ips'.nextComp = ips.nextComp
      /\ DOMAIN ips'.map = DOMAIN ips.map \cup {Port(ips, 0), Port(ips, 1)}
      /\ \A p \in DOMAIN ips.map : ips'.map[p] = ips.map[p]
  BY NativeKnown, WithPortPairGood DEF NewPortPair, IInv
<1>2. NativePortsKept
  BY <1>1 DEF NativePortsKept
<1>3. phase = "setup" => \A k \in Nat : <<Other, k>> \notin DOMAIN ips'.map
  BY <1>1, NativeKnown, IdsAssumption DEF IInv, NoForeignPorts, Port
<1>4. netPorts' \subseteq Ids
  BY DEF IInv, TypeOK, NewPortPair
<1> QED
  BY <1>1, <1>2, <1>3, <1>4, NativeKnown, CallKeepsIInv DEF NewPortPair

LEMMA NewNetPortStep ==
    ASSUME IInv, NEW polarity \in {"Putter", "Getter"}, NewNetPort(polarity)
    PROVE  IInv'
<1> DEFINE p == Port(ips, 0)
           new == [q \in {p} |-> Info(Native, NoPort, polarity, "Local")]
           j == Insert(ips, new)
           t == TakePorts(j, 1)
<1>1. p \in Ids /\ p \notin DOMAIN ips.map /\ Native \in Ids
  BY NativeKnown DEF Port, Ids, IInv, Good, FreshPorts, Native
<1>2. /\ DOMAIN new = {p}
      /\ \A q \in DOMAIN new : new[q] \in PortInfo /\ new[q].owner = Native
  BY <1>1 DEF Info, PortInfo
<1> HIDE DEF new
<1>3. /\ Sound(j) /\ FreshComps(j, ips.nextComp)
      /\ DOMAIN j.map = DOMAIN ips.map \cup {p}
      /\ \A q \in DOMAIN ips.map : j.map[q] = ips.map[q]
      /\ j.nextPort = ips.nextPort /\ j.nextComp = ips.nextComp
  <2>1. /\ Sound(ips) /\ FreshComps(ips, ips.nextComp) /\ ips.nextComp \in Nat
        /\ DOMAIN new \subseteq Ids
        /\ \A q \in DOMAIN new : q \notin DOMAIN ips.map
        /\ \A q \in DOMAIN new : new[q].owner \in CompIds(0, ips.nextComp) \cup {<<Other, 0>>}
    BY <1>1, <1>2, NativeKnown DEF Good, IInv
  <2> QED
    BY <1>2, <2>1, InsertSound
<1>4. FreshPorts(j, ips.nextPort + 1)
  BY <1>3, NativeKnown DEF FreshPorts, Good, Port, IInv
<1>5. /\ Sound(t) /\ t.map = j.map /\ t.owned = j.owned
      /\ t.nextPort = j.nextPort + 1 /\ t.nextComp = j.nextComp
  BY <1>3, TakePortsSound
<1>6. ips' = t /\ netPorts' = netPorts \cup {p}
  BY DEF NewNetPort, new
<1> HIDE DEF t, j
<1>7. Good(ips')
  BY <1>3, <1>4, <1>5, <1>6 DEF Good, FreshPorts, FreshComps
<1>8. NativePortsKept
  BY <1>3, <1>5, <1>6 DEF NativePortsKept
<1>9. phase = "setup" => \A k \in Nat : <<Other, k>> \notin DOMAIN ips'.map
  BY <1>3, <1>5, <1>6, NativeKnown, IdsAssumption DEF IInv, NoForeignPorts, Port
<1>10. netPorts' \subseteq Ids
  BY <1>1, <1>6 DEF IInv, TypeOK
<1> QED
  BY <1>3, <1>5, <1>6, <1>7, <1>8, <1>9, <1>10, NativeKnown, CallKeepsIInv DEF NewNetPort

LEMMA NewUdpMediatorStep == IInv /\ NewUdpMediator => IInv'
<1> SUFFICES ASSUME IInv, NewUdpMediator PROVE IInv'
  OBVIOUS
<1> DEFINE nin == Port(ips, 0)  nout == Port(ips, 1)
           uin == Port(ips, 2)  uout == Port(ips, 3)
           udp == NewComp(ips)
           new == [p \in {nin, nout, uin, uout} |->
                    CASE p = nout -> Info(Native, uin, "Putter", "Local")
                      [] p = uin  -> Info(udp, uin, "Getter", "Udp")
                      [] p = uout -> Info(udp, uin, "Putter", "Udp")
                      [] OTHER    -> Info(Native, uout, "Getter", "Local")]
           j == Insert(ips, new)
           t == TakePorts(j, 4)
           u == TakeComp(t)
<1>1. /\ {nin, nout, uin, uout} \subseteq Ids
      /\ \A p \in {nin, nout, uin, uout} : p \notin DOMAIN ips.map
      /\ Native \in Ids /\ udp \in Ids
      /\ Native \in CompIds(0, ips.nextComp + 1) /\ udp \in CompIds(0, ips.nextComp + 1)
  BY NativeKnown DEF Port, NewComp, Ids, CompIds, IInv, Good, FreshPorts, Native
<1>2. /\ DOMAIN new = {nin, nout, uin, uout}
      /\ \A p \in DOMAIN new : new[p] \in PortInfo /\ new[p].owner \in {Native, udp}
  BY <1>1 DEF Info, PortInfo
<1>3. u = ips'
  BY DEF NewUdpMediator
<1> HIDE DEF new
<1>4. /\ Sound(j) /\ FreshComps(j, ips.nextComp + 1)
      /\ DOMAIN j.map = DOMAIN ips.map \cup {nin, nout, uin, uout}
      /\ \A q \in DOMAIN ips.map : j.map[q] = ips.map[q]
      /\ j.nextPort = ips.nextPort /\ j.nextComp = ips.nextComp
  <2>1. /\ Sound(ips) /\ FreshComps(ips, ips.nextComp + 1) /\ ips.nextComp + 1 \in Nat
        /\ DOMAIN new \subseteq Ids
        /\ \A q \in DOMAIN new : q \notin DOMAIN ips.map
    BY <1>1, <1>2, NativeKnown DEF Good, IInv, FreshComps
  <2>2. \A q \in DOMAIN new : new[q].owner \in CompIds(0, ips.nextComp + 1) \cup {<<Other, 0>>}
    BY <1>1, <1>2
  <2> QED
    BY <1>2, <2>1, <2>2, InsertSound
<1>5. FreshPorts(j, ips.nextPort + 4)
  BY <1>4, NativeKnown DEF FreshPorts, Good, Port, IInv
<1>6. /\ Sound(t) /\ t.map = j.map /\ t.owned = j.owned
      /\ t.nextPort = j.nextPort + 4 /\ t.nextComp = j.nextComp
  BY <1>4, TakePortsSound
<1> HIDE DEF t, j
<1>7. /\ Sound(u) /\ u.map = j.map /\ u.owned = j.owned
      /\ u.nextPort = ips.nextPort + 4 /\ u.nextComp = ips.nextComp + 1
  BY <1>4, <1>6, TakeCompSound
<1> HIDE DEF u
<1>8. Good(ips')
  BY <1>3, <1>4, <1>5, <1>7 DEF Good, FreshPorts, FreshComps
<1>9. NativePortsKept
  BY <1>3, <1>4, <1>7 DEF NativePortsKept
<1>10. phase = "setup" => \A k \in Nat : <<Other, k>> \notin DOMAIN ips'.map
  BY <1>3, <1>4, <1>7, NativeKnown, IdsAssumption DEF IInv, NoForeignPorts, Port
<1>11. netPorts' \subseteq Ids
  BY DEF IInv, TypeOK, NewUdpMediator
<1>12. ips.nextComp <= ips'.nextComp
  BY <1>3, <1>7, NativeKnown
<1> QED
  BY <1>8, <1>9, <1>10, <1>11, <1>12, CallKeepsIInv DEF NewUdpMediator

LEMMA AddComponentStep == IInv /\ AddComponent => IInv'
<1> SUFFICES ASSUME IInv, AddComponent PROVE IInv'
  OBVIOUS
<1>1. PICK ports \in SUBSET {p \in DOMAIN ips.map : NativeOwns(p)} :
        /\ ips' = WithMoved(ips, Native, ports)
        /\ batches' = [i \in DOMAIN batches |-> WithoutPorts(batches[i], ports)]
  BY DEF AddComponent
<1>2. /\ Good(ips') /\ ips'.nextComp = ips.nextComp + 1
      /\ DOMAIN ips'.map = DOMAIN ips.map
      /\ \A p \in DOMAIN ips.map \ ports : ips'.map[p] = ips.map[p]
  <2>1. /\ Good(ips) /\ ports \subseteq DOMAIN ips.map
        /\ \A p \in ports : ips.map[p].owner = Native
    BY <1>1 DEF IInv, NativeOwns
  <2>2. Native \in CompIds(0, ips.nextComp)
    BY NativeKnown
  <2> DEFINE w == WithMoved(ips, Native, ports)
  <2>3. /\ Good(w) /\ w.nextComp = ips.nextComp + 1
        /\ DOMAIN w.map = DOMAIN ips.map
        /\ \A p \in DOMAIN ips.map \ ports : w.map[p] = ips.map[p]
    BY <2>1, <2>2, WithMovedGood
  <2> HIDE DEF w
  <2>4. ips' = w
    BY <1>1 DEF w
  <2> QED
    BY <2>3, <2>4
<1>3. batches' \in Seq(Batch) /\ DOMAIN batches' = DOMAIN batches
  <2>1. \A i \in DOMAIN batches : WithoutPorts(batches[i], ports) \in Batch
    <3> SUFFICES ASSUME NEW i \in DOMAIN batches
                 PROVE  WithoutPorts(batches[i], ports) \in Batch
      OBVIOUS
    <3>1. batches[i] \in Batch
      BY DEF IInv, TypeOK
    <3> QED
      BY <3>1 DEF Batch, WithoutPorts
  <2>2. DOMAIN batches = 1..Len(batches) /\ Len(batches) \in Nat
    BY DEF IInv, TypeOK
  <2> QED
    BY <1>1, <2>1, <2>2
<1>4. batches = <<>> <=> batches' = <<>>
  BY <1>3 DEF IInv, TypeOK
<1>5. NewComp(ips) \in Ids /\ NewComp(ips) \in CompIds(1, ips.nextComp + 1)
  BY NativeKnown DEF NewComp, Ids, CompIds, IInv, CompsKnown
<1>6. TypeOK'
  <2>1. IsIps(ips')
    BY <1>2 DEF Good, Sound
  <2> QED
    BY <1>3, <1>4, <1>5, <2>1 DEF IInv, TypeOK, AddComponent, syncVars
<1>7. BatchesNative'
  <2>1. phase # "round" /\ branches' = <<>>
    BY DEF AddComponent, IInv, syncVars
  <2>2. ASSUME NEW i \in DOMAIN batches'
        PROVE  /\ batches'[i].to_put = batches[i].to_put \ ports
               /\ batches'[i].to_get = batches[i].to_get \ ports
    BY <1>1, <1>3 DEF WithoutPorts
  <2>3. \A p \in DOMAIN ips.map \ ports : NativeOwns(p) => NativeOwns(p)'
    BY <1>2 DEF NativeOwns
  <2>4. ASSUME NEW i \in DOMAIN batches', NEW p \in batches'[i].to_put
        PROVE  NativeOwns(p)' /\ ips'.map[p].polarity = "Putter"
    <3>1. i \in DOMAIN batches /\ p \in batches[i].to_put /\ p \notin ports
      BY <1>3, <2>2
    <3>2. NativeOwns(p) /\ ips.map[p].polarity = "Putter"
      BY <3>1 DEF IInv, BatchesNative
    <3> QED
      BY <1>2, <2>3, <3>1, <3>2 DEF NativeOwns
  <2>5. ASSUME NEW i \in DOMAIN batches', NEW p \in batches'[i].to_get
        PROVE  NativeOwns(p)' /\ ips'.map[p].polarity = "Getter"
    <3>1. i \in DOMAIN batches /\ p \in batches[i].to_get /\ p \notin ports
      BY <1>3, <2>2
    <3>2. NativeOwns(p) /\ ips.map[p].polarity = "Getter"
      BY <3>1 DEF IInv, BatchesNative
    <3> QED
      BY <1>2, <2>3, <3>1, <3>2 DEF NativeOwns
  <2> QED
    BY <2>1, <2>4, <2>5 DEF BatchesNative
<1>8. CompsKnown'
  <2>1. CompIds(1, ips.nextComp) \subseteq CompIds(1, ips.nextComp + 1)
    BY NativeKnown, CompIdsGrow
  <2> QED
    BY <1>2, <1>5, <2>1, NativeKnown, FS_AddElement DEF IInv, CompsKnown, AddComponent, syncVars
<1>9. phase' \in {"setup", "comm"} /\ phase' = phase
  BY DEF AddComponent
<1>10. Good(work)' /\ NoForeignPorts'
  BY <1>2, <1>9 DEF IInv, NoForeignPorts, AddComponent, syncVars
<1> QED
  BY <1>2, <1>6, <1>7, <1>8, <1>9, <1>10 DEF IInv, CopyKeepsNative, AddComponent, syncVars

LEMMA ConnectStep == IInv /\ Connect => IInv'
<1> SUFFICES ASSUME IInv, Connect PROVE IInv'
  OBVIOUS
<1>1. PICK self \in SUBSET (netPorts \X netPorts) :
        ips' = Insert([ips EXCEPT !.map = Paired(self)], Remotes(self))
  BY DEF Connect
<1> DEFINE looped == Looped(self)
           paired == Paired(self)
           remote == Remotes(self)
           i == [ips EXCEPT !.map = paired]
           j == Insert(i, remote)
<1>2. ips' = j
  BY <1>1
<1>3. phase = "setup" /\ phase' = "comm" /\ netPorts \subseteq Ids
  BY DEF Connect, IInv, TypeOK
<1>4. \A p \in netPorts : PeerOf(self, p) \in Ids
  <2> SUFFICES ASSUME NEW p \in netPorts PROVE PeerOf(self, p) \in Ids
    OBVIOUS
  <2>1. looped \subseteq Ids
    BY <1>3 DEF Looped
  <2>2. CASE p \in looped
    <3>1. \E q \in looped : <<p, q>> \in self \/ <<q, p>> \in self
      <4>1. PICK c \in self : p = c[1] \/ p = c[2]
        BY <2>2 DEF Looped
      <4>2. c = <<c[1], c[2]>> /\ c[1] \in looped /\ c[2] \in looped
        BY <4>1 DEF Looped
      <4> QED
        BY <4>1, <4>2
    <3>2. PeerOf(self, p) \in looped
      BY <2>2, <3>1 DEF PeerOf
    <3> QED
      BY <2>1, <2>2, <3>2
  <2>3. CASE p \notin looped
    BY <1>3, <2>3 DEF Ids, PeerOf
  <2> QED
    BY <2>2, <2>3
<1> HIDE DEF j
<1>5. /\ DOMAIN paired = DOMAIN ips.map
      /\ \A p \in DOMAIN paired : paired[p] \in PortInfo /\ paired[p].owner = ips.map[p].owner
  <2> SUFFICES ASSUME NEW p \in DOMAIN ips.map
               PROVE  paired[p] \in PortInfo /\ paired[p].owner = ips.map[p].owner
    BY DEF Paired
  <2>1. ips.map[p] \in PortInfo
    BY DEF IInv, TypeOK, IsIps
  <2>2. paired[p] = IF p \in netPorts THEN [ips.map[p] EXCEPT !.peer = PeerOf(self, p)]
                    ELSE ips.map[p]
    BY DEF Paired
  <2> HIDE DEF paired
  <2>3. CASE p \in netPorts
    BY <1>4, <2>1, <2>2, <2>3 DEF PortInfo
  <2> QED
    BY <2>1, <2>2, <2>3
<1>6. /\ DOMAIN remote = {<<Other, p[2]>> : p \in netPorts \ looped}
      /\ \A q \in DOMAIN remote : /\ \E k \in Nat : q = <<Other, k>>
                                  /\ remote[q] \in PortInfo
                                  /\ remote[q].owner = <<Other, 0>>
  <2>1. DOMAIN remote = {<<Other, p[2]>> : p \in netPorts \ looped}
    BY DEF Remotes
  <2> SUFFICES ASSUME NEW q \in {<<Other, p[2]>> : p \in netPorts \ looped}
               PROVE  /\ \E k \in Nat : q = <<Other, k>>
                      /\ remote[q] \in PortInfo
                      /\ remote[q].owner = <<Other, 0>>
    BY <2>1
  <2>2. PICK p \in netPorts : q = <<Other, p[2]>> /\ p[2] \in Nat
    BY <1>3 DEF Ids
  <2>3. q[2] \in Nat
    BY <2>2
  <2>4. remote[q] = Info(<<Other, 0>>, <<Me, q[2]>>,
                         IF ips.map[<<Me, q[2]>>].polarity = "Putter"
                         THEN "Getter" ELSE "Putter", "Net")
    BY DEF Remotes
  <2> HIDE DEF remote
  <2>5. <<Other, 0>> \in Ids /\ <<Me, q[2]>> \in Ids
    BY <2>3 DEF Ids
  <2> QED
    BY <2>2, <2>4, <2>5 DEF Info, PortInfo
<1> HIDE DEF paired, remote
<1>7. /\ DOMAIN i = {"map", "owned", "nextPort", "nextComp"}
      /\ i.map = paired /\ i.owned = ips.owned
      /\ i.nextPort = ips.nextPort /\ i.nextComp = ips.nextComp
  BY DEF IInv, TypeOK, IsIps
<1> HIDE DEF i
<1>8. Sound(i) /\ FreshComps(i, ips.nextComp)
  <2>1. IsIps(i)
    BY <1>5, <1>7 DEF IInv, TypeOK, IsIps
  <2>2. InvariantPreserved(i)
    BY <1>5, <1>7 DEF IInv, Good, Sound, InvariantPreserved
  <2>3. FreshComps(i, ips.nextComp)
    BY <1>7 DEF IInv, Good, FreshComps
  <2> QED
    BY <2>1, <2>2, <2>3 DEF Sound
<1>9. /\ Sound(j) /\ FreshComps(j, ips.nextComp)
      /\ DOMAIN j.map = DOMAIN i.map \cup DOMAIN remote
      /\ j.nextPort = i.nextPort /\ j.nextComp = i.nextComp
  <2>1. /\ DOMAIN remote \subseteq Ids
        /\ \A q \in DOMAIN remote : q \notin DOMAIN i.map
    BY <1>3, <1>5, <1>6, <1>7 DEF Ids, IInv, NoForeignPorts
  <2>2. \A q \in DOMAIN remote : remote[q] \in PortInfo
    BY <1>6
  <2>3. \A q \in DOMAIN remote : remote[q].owner \in CompIds(0, ips.nextComp) \cup {<<Other, 0>>}
    BY <1>6
  <2> QED
    BY <1>8, <2>1, <2>2, <2>3, NativeKnown, InsertSound DEF j
<1>10. FreshPorts(j, ips.nextPort)
  <2>1. \A k \in Nat : <<Me, k>> \notin DOMAIN remote
    BY <1>6, IdsAssumption
  <2> QED
    BY <1>5, <1>7, <1>9, <2>1 DEF FreshPorts, IInv, Good
<1>11. Good(ips')
  BY <1>2, <1>7, <1>9, <1>10 DEF Good
<1>12. EmptyBatch \in Batch
  BY DEF EmptyBatch, Batch
<1>13. TypeOK'
  <2>1. IsIps(ips')
    BY <1>11 DEF Good, Sound
  <2>2. batches' = <<EmptyBatch>> /\ batches' \in Seq(Batch) /\ batches' # <<>>
    BY <1>12 DEF Connect
  <2> QED
    BY <1>3, <2>1, <2>2 DEF IInv, TypeOK, Connect, syncVars
<1>14. BatchesNative'
  <2>1. branches' = <<>> /\ batches' = <<EmptyBatch>>
    BY <1>3 DEF IInv, Connect, syncVars
  <2> QED
    BY <2>1 DEF BatchesNative, EmptyBatch
<1>15. CompsKnown'
  BY <1>2, <1>7, <1>9 DEF IInv, CompsKnown, Connect, syncVars
<1>16. Good(work)' /\ branches' = <<>>
  BY <1>3 DEF IInv, Connect, syncVars
<1> QED
  BY <1>3, <1>11, <1>13, <1>14, <1>15, <1>16 DEF IInv, CopyKeepsNative, NoForeignPorts

\* next_batch, put and get change the batches only, in the communication phase.
LEMMA BatchCallKeepsIInv ==
    ASSUME IInv, phase = "comm", batches' \in Seq(Batch), batches' # <<>>,
           \A i \in DOMAIN batches' :
             /\ \A p \in batches'[i].to_put : NativeOwns(p) /\ ips.map[p].polarity = "Putter"
             /\ \A p \in batches'[i].to_get : NativeOwns(p) /\ ips.map[p].polarity = "Getter",
           UNCHANGED <<phase, ips, comps, netPorts, result, syncVars>>
    PROVE  IInv'
<1>1. TypeOK'
  BY DEF IInv, TypeOK, syncVars
<1>2. BatchesNative'
  BY DEF IInv, BatchesNative, NativeOwns, syncVars
<1>3. Good(ips)' /\ Good(work)'
  BY DEF IInv, syncVars
<1> QED
  BY <1>1, <1>2, <1>3 DEF IInv, CompsKnown, CopyKeepsNative, NoForeignPorts, syncVars

LEMMA NextBatchStep == IInv /\ NextBatch => IInv'
<1> SUFFICES ASSUME IInv, NextBatch PROVE IInv'
  OBVIOUS
<1>1. EmptyBatch \in Batch /\ batches \in Seq(Batch)
  BY DEF EmptyBatch, Batch, IInv, TypeOK
<1>2. batches' \in Seq(Batch) /\ batches' # <<>> /\ Len(batches') = Len(batches) + 1
  BY <1>1 DEF NextBatch
<1>3. \A i \in DOMAIN batches' : \/ i \in DOMAIN batches /\ batches'[i] = batches[i]
                                \/ batches'[i] = EmptyBatch
  BY <1>1 DEF NextBatch
<1>4. \A i \in DOMAIN batches' :
        /\ \A p \in batches'[i].to_put : NativeOwns(p) /\ ips.map[p].polarity = "Putter"
        /\ \A p \in batches'[i].to_get : NativeOwns(p) /\ ips.map[p].polarity = "Getter"
  BY <1>3 DEF IInv, BatchesNative, EmptyBatch
<1> QED
  BY <1>2, <1>4, BatchCallKeepsIInv DEF NextBatch

LEMMA PutStep == ASSUME IInv, NEW p \in DOMAIN ips.map, Put(p) PROVE IInv'
<1> DEFINE n == Len(batches)
<1>1. /\ batches \in Seq(Batch) /\ batches # <<>> /\ p \in Ids
      /\ phase = "comm" /\ NativeOwns(p) /\ ips.map[p].polarity = "Putter"
  BY DEF IInv, TypeOK, IsIps, Put
<1>2. n \in DOMAIN batches /\ batches[n] \in Batch
  BY <1>1
<1> DEFINE b == [batches[n] EXCEPT !.to_put = @ \cup {p}]
<1>3. /\ b \in Batch
      /\ b.to_put = batches[n].to_put \cup {p}
      /\ b.to_get = batches[n].to_get
  BY <1>1, <1>2 DEF Batch
<1>4. batches' = [batches EXCEPT ![n] = b]
  BY DEF Put
<1> HIDE DEF b, n
<1>5. batches' \in Seq(Batch) /\ batches' # <<>> /\ DOMAIN batches' = DOMAIN batches
  BY <1>1, <1>2, <1>3, <1>4
<1>6. ASSUME NEW i \in DOMAIN batches'
      PROVE  /\ \A q \in batches'[i].to_put : NativeOwns(q) /\ ips.map[q].polarity = "Putter"
             /\ \A q \in batches'[i].to_get : NativeOwns(q) /\ ips.map[q].polarity = "Getter"
  <2>1. batches'[i] = IF i = n THEN b ELSE batches[i]
    BY <1>4, <1>5
  <2> QED
    BY <1>1, <1>2, <1>3, <1>5, <2>1 DEF IInv, BatchesNative
<1> QED
  BY <1>1, <1>5, <1>6, BatchCallKeepsIInv DEF Put

LEMMA GetStep == ASSUME IInv, NEW p \in DOMAIN ips.map, Get(p) PROVE IInv'
<1> DEFINE n == Len(batches)
<1>1. /\ batches \in Seq(Batch) /\ batches # <<>> /\ p \in Ids
      /\ phase = "comm" /\ NativeOwns(p) /\ ips.map[p].polarity = "Getter"
  BY DEF IInv, TypeOK, IsIps, Get
<1>2. n \in DOMAIN batches /\ batches[n] \in Batch
  BY <1>1
<1> DEFINE b == [batches[n] EXCEPT !.to_get = @ \cup {p}]
<1>3. /\ b \in Batch
      /\ b.to_get = batches[n].to_get \cup {p}
      /\ b.to_put = batches[n].to_put
  BY <1>1, <1>2 DEF Batch
<1>4. batches' = [batches EXCEPT ![n] = b]
  BY DEF Get
<1> HIDE DEF b, n
<1>5. batches' \in Seq(Batch) /\ batches' # <<>> /\ DOMAIN batches' = DOMAIN batches
  BY <1>1, <1>2, <1>3, <1>4
<1>6. ASSUME NEW i \in DOMAIN batches'
      PROVE  /\ \A q \in batches'[i].to_put : NativeOwns(q) /\ ips.map[q].polarity = "Putter"
             /\ \A q \in batches'[i].to_get : NativeOwns(q) /\ ips.map[q].polarity = "Getter"
  <2>1. batches'[i] = IF i = n THEN b ELSE batches[i]
    BY <1>4, <1>5
  <2> QED
    BY <1>1, <1>2, <1>3, <1>5, <2>1 DEF IInv, BatchesNative
<1> QED
  BY <1>1, <1>5, <1>6, BatchCallKeepsIInv DEF Get

LEMMA CompIdsAreIds == ASSUME NEW b \in Nat PROVE CompIds(1, b) \subseteq Ids
BY DEF CompIds, Ids

LEMMA SeqGrows ==
    ASSUME NEW S, NEW T, S \subseteq T, NEW s \in Seq(S)
    PROVE  s \in Seq(T)
OBVIOUS

\* The components run before the sync blocks: only the copy changes, and there
\* the native keeps its ports.
LEMMA NonsyncKeepsIInv ==
    ASSUME IInv, phase = "nonsync",
           Good(work'), 1 <= work'.nextComp,
           unrun' \in Seq(CompIds(1, work'.nextComp)),
           synced' \subseteq CompIds(1, work'.nextComp), IsFiniteSet(synced'),
           OwnedBy(work', Native) = OwnedBy(ips, Native),
           UNCHANGED <<phase, ips, comps, netPorts, batches, result, branches>>
    PROVE  IInv'
<1>1. IsIps(work') /\ work'.nextComp \in Nat
  BY DEF Good, Sound, IsIps
<1>2. unrun' \in Seq(Ids) /\ synced' \subseteq Ids
  BY <1>1, CompIdsAreIds, SeqGrows
<1>3. TypeOK'
  BY <1>1, <1>2 DEF IInv, TypeOK
<1>4. BatchesNative'
  BY BatchesStayNative DEF IInv, NativePortsKept
<1>5. Good(ips)' /\ CompsKnown' /\ NoForeignPorts'
  BY DEF IInv, CompsKnown, NoForeignPorts
<1> QED
  BY <1>3, <1>4, <1>5 DEF IInv, CopyKeepsNative

LEMMA SyncBeginStep == IInv /\ SyncBegin => IInv'
<1> SUFFICES ASSUME IInv, SyncBegin PROVE IInv'
  OBVIOUS
<1>1. unrun' \in Seq(comps)
  <2>1. Cardinality(comps) \in Nat
    BY FS_CardinalityType DEF IInv, CompsKnown
  <2> QED
    BY <2>1 DEF SyncBegin, Orders
<1>2. unrun' \in Seq(CompIds(1, ips.nextComp)) /\ unrun' \in Seq(Ids)
  BY <1>1, SeqGrows DEF IInv, CompsKnown, TypeOK
<1>3. TypeOK'
  BY <1>2 DEF IInv, TypeOK, SyncBegin
<1>4. BatchesNative'
  BY BatchesStayNative DEF IInv, NativePortsKept, SyncBegin
<1>5. CompsKnown'
  BY FS_EmptySet DEF IInv, CompsKnown, SyncBegin
<1>6. Good(ips)' /\ Good(work)' /\ NoForeignPorts'
  BY DEF IInv, NoForeignPorts, SyncBegin
<1>7. CopyKeepsNative'
  BY <1>2 DEF IInv, CopyKeepsNative, CompsKnown, SyncBegin
<1> QED
  BY <1>3, <1>4, <1>5, <1>6, <1>7 DEF IInv, SyncBegin

\* The component that runs is a known one, and not the native.
LEMMA RunningKnown ==
    ASSUME IInv, phase = "nonsync", unrun # <<>>
    PROVE  /\ work.nextComp \in Nat
           /\ Running \in CompIds(1, work.nextComp)
           /\ Running \in CompIds(0, work.nextComp)
           /\ Running # Native
           /\ Tail(unrun) \in Seq(CompIds(1, work.nextComp))
<1>1. work.nextComp \in Nat /\ unrun \in Seq(CompIds(1, work.nextComp))
  BY DEF IInv, TypeOK, IsIps, CopyKeepsNative
<1>2. Running \in CompIds(1, work.nextComp) /\ Tail(unrun) \in Seq(CompIds(1, work.nextComp))
  BY <1>1 DEF Running
<1> QED
  BY <1>1, <1>2 DEF CompIds, Native

LEMMA NonsyncPortPairStep == IInv /\ NonsyncPortPair => IInv'
<1> SUFFICES ASSUME IInv, NonsyncPortPair PROVE IInv'
  OBVIOUS
<1> DEFINE w == WithPortPair(work, Running)
<1>1. phase = "nonsync" /\ unrun # <<>> /\ Good(work)
  BY DEF NonsyncPortPair, IInv
<1>2. /\ Good(w) /\ w.nextComp = work.nextComp
      /\ OwnedBy(w, Native) = OwnedBy(work, Native)
  BY <1>1, RunningKnown, WithPortPairGood
<1>3. work' = w
  BY DEF NonsyncPortPair
<1> HIDE DEF w
<1> QED
  BY <1>1, <1>2, <1>3, NonsyncKeepsIInv DEF NonsyncPortPair, IInv, CopyKeepsNative, CompsKnown

LEMMA NonsyncNewComponentStep == IInv /\ NonsyncNewComponent => IInv'
<1> SUFFICES ASSUME IInv, NonsyncNewComponent PROVE IInv'
  OBVIOUS
<1>1. phase = "nonsync" /\ unrun # <<>> /\ Good(work)
  BY DEF NonsyncNewComponent, IInv
<1>2. PICK ports \in SUBSET OwnedBy(work, Running) : work' = WithMoved(work, Running, ports)
  BY DEF NonsyncNewComponent
<1> DEFINE w == WithMoved(work, Running, ports)
<1>3. /\ ports \subseteq DOMAIN work.map
      /\ \A p \in ports : work.map[p].owner = Running
  BY <1>1, <1>2 DEF OwnedBy, Good, Sound, InvariantPreserved
<1>4. Native # NewComp(work)
  BY <1>1, RunningKnown DEF Native, NewComp, IInv, CopyKeepsNative
<1>5. /\ Good(w) /\ w.nextComp = work.nextComp + 1
      /\ OwnedBy(w, Native) = OwnedBy(work, Native)
  <2>1. Running \in CompIds(0, work.nextComp) /\ Running # Native
    BY <1>1, RunningKnown
  <2>2. /\ Good(w) /\ w.nextComp = work.nextComp + 1
        /\ \A c : c # Running /\ c # NewComp(work) => OwnedBy(w, c) = OwnedBy(work, c)
    BY <1>1, <1>3, <2>1, WithMovedGood
  <2> HIDE DEF w
  <2> QED
    BY <1>4, <2>1, <2>2
<1>6. work' = w
  BY <1>2
<1> HIDE DEF w
<1>7. CompIds(1, work.nextComp) \subseteq CompIds(1, work'.nextComp)
  BY <1>1, <1>5, <1>6, RunningKnown, CompIdsGrow
<1>8. NewComp(work) \in CompIds(1, work'.nextComp)
  BY <1>1, <1>5, <1>6, RunningKnown DEF NewComp, CompIds, IInv, CopyKeepsNative
<1>9. unrun' \in Seq(CompIds(1, work'.nextComp))
  <2>1. Tail(unrun) \in Seq(CompIds(1, work'.nextComp)) /\ Running \in CompIds(1, work'.nextComp)
    BY <1>1, <1>7, RunningKnown, SeqGrows
  <2>2. <<Running, NewComp(work)>> \in Seq(CompIds(1, work'.nextComp))
    BY <1>8, <2>1
  <2> QED
    BY <2>1, <2>2 DEF NonsyncNewComponent
<1>10. 1 <= work'.nextComp
  BY <1>1, <1>5, <1>6, RunningKnown
<1>11. synced' \subseteq CompIds(1, work'.nextComp) /\ IsFiniteSet(synced')
  BY <1>1, <1>7 DEF NonsyncNewComponent, IInv, CopyKeepsNative, CompsKnown
<1>12. OwnedBy(work', Native) = OwnedBy(ips, Native)
  BY <1>1, <1>5, <1>6 DEF IInv, CopyKeepsNative
<1> QED
  BY <1>1, <1>5, <1>6, <1>9, <1>10, <1>11, <1>12, NonsyncKeepsIInv DEF NonsyncNewComponent

\* ComponentExit and SyncBlockStart: the component leaves unrun_components.
LEMMA NonsyncDoneStep == IInv /\ (NonsyncExit \/ NonsyncBlocked) => IInv'
<1> SUFFICES ASSUME IInv, NonsyncExit \/ NonsyncBlocked PROVE IInv'
  OBVIOUS
<1>1. /\ phase = "nonsync" /\ unrun # <<>> /\ Good(work)
      /\ unrun' = Tail(unrun) /\ work' = work
      /\ UNCHANGED <<phase, ips, comps, netPorts, batches, result, branches>>
  BY DEF NonsyncExit, NonsyncBlocked, IInv
<1>2. synced' = synced \/ synced' = synced \cup {Running}
  BY DEF NonsyncExit, NonsyncBlocked
<1>3. IsFiniteSet(synced')
  <2>1. IsFiniteSet(synced)
    BY DEF IInv, CompsKnown
  <2>2. IsFiniteSet(synced \cup {Running})
    BY <2>1, FS_AddElement
  <2> QED
    BY <1>2, <2>1, <2>2
<1>4. synced' \subseteq CompIds(1, work.nextComp)
  BY <1>1, <1>2, RunningKnown DEF IInv, CopyKeepsNative
<1>5. 1 <= work.nextComp /\ OwnedBy(work, Native) = OwnedBy(ips, Native)
  BY <1>1 DEF IInv, CopyKeepsNative
<1> QED
  BY <1>1, <1>3, <1>4, <1>5, RunningKnown, NonsyncKeepsIInv

LEMMA NonsyncInconsistentStep == IInv /\ NonsyncInconsistent => IInv'
<1> SUFFICES ASSUME IInv, NonsyncInconsistent PROVE IInv'
  OBVIOUS
<1>1. Good(work') /\ work' = NoIps
  BY NoIpsGood DEF NonsyncInconsistent
<1>2. TypeOK'
  <2>1. IsIps(work')
    BY <1>1 DEF Good, Sound
  <2> QED
    BY <2>1 DEF IInv, TypeOK, NonsyncInconsistent
<1>3. BatchesNative'
  BY DEF IInv, BatchesNative, NativeOwns, NonsyncInconsistent
<1>4. CompsKnown'
  BY FS_EmptySet DEF IInv, CompsKnown, NonsyncInconsistent
<1> QED
  BY <1>1, <1>2, <1>3, <1>4
  DEF IInv, CopyKeepsNative, NoForeignPorts, NonsyncInconsistent

LEMMA BeginRoundStep == IInv /\ BeginRound => IInv'
<1> SUFFICES ASSUME IInv, BeginRound PROVE IInv'
  OBVIOUS
<1>1. EmptyBatch \in Batch /\ batches' = <<EmptyBatch>>
  BY DEF EmptyBatch, Batch, BeginRound
<1>2. /\ DOMAIN branches' \subseteq DOMAIN batches
      /\ \A i \in DOMAIN branches' : branches'[i] = batches[i]
  BY DEF BeginRound
<1>3. TypeOK'
  <2>1. batches' \in Seq(Batch) /\ batches' # <<>>
    BY <1>1
  <2>2. \A i \in DOMAIN branches' : branches'[i] \in Batch
    BY <1>2 DEF IInv, TypeOK
  <2> QED
    BY <2>1, <2>2 DEF IInv, TypeOK, BeginRound
<1>4. BatchesNative'
  <2>1. \A i \in DOMAIN branches' :
          \A p \in branches'[i].to_put \cup branches'[i].to_get : NativeOwns(p)
    BY <1>2 DEF IInv, BatchesNative
  <2> QED
    BY <1>1, <2>1 DEF BatchesNative, EmptyBatch, NativeOwns, BeginRound
<1> QED
  BY <1>1, <1>3, <1>4 DEF IInv, CompsKnown, CopyKeepsNative, NoForeignPorts, BeginRound

\* Every end of a round drops the copy and leaves one empty batch.
LEMMA EndSyncStep ==
    ASSUME IInv, NEW res \in {"ok", "failure", "unrecoverable"}, EndSync(res),
           \/ ips' = work /\ comps' = synced
           \/ UNCHANGED <<ips, comps>>
    PROVE  IInv'
<1>1. phase = "round" /\ phase' = "comm" /\ work' = NoIps /\ branches' = <<>>
  BY DEF EndSync
<1>2. Good(ips') /\ Good(work')
  BY <1>1, NoIpsGood DEF IInv
<1>3. batches' = <<EmptyBatch>> /\ batches' \in Seq(Batch)
  BY <1>1 DEF IInv, EndSync, TypeOK
<1>4. CompsKnown'
  BY <1>1, FS_EmptySet DEF IInv, CompsKnown, CopyKeepsNative, EndSync
<1>5. TypeOK'
  <2>1. IsIps(ips') /\ IsIps(work')
    BY <1>2 DEF Good, Sound
  <2>2. comps' \subseteq Ids
    BY DEF IInv, TypeOK
  <2> QED
    BY <1>1, <1>3, <2>1, <2>2 DEF IInv, TypeOK, EndSync
<1>6. BatchesNative'
  BY <1>1, <1>3 DEF BatchesNative, EmptyBatch
<1> QED
  BY <1>1, <1>2, <1>3, <1>4, <1>5, <1>6 DEF IInv, CopyKeepsNative, NoForeignPorts

LEMMA StutterStep == IInv /\ UNCHANGED vars => IInv'
<1> SUFFICES ASSUME IInv, UNCHANGED vars PROVE IInv'
  OBVIOUS
<1>1. TypeOK' /\ BatchesNative'
  BY DEF IInv, TypeOK, BatchesNative, NativeOwns, vars
<1>2. Good(ips)' /\ Good(work)'
  BY DEF IInv, vars
<1> QED
  BY <1>1, <1>2 DEF IInv, CompsKnown, CopyKeepsNative, NoForeignPorts, vars

LEMMA NextIInv == IInv /\ [Next]_vars => IInv'
<1> SUFFICES ASSUME IInv, [Next]_vars PROVE IInv'
  OBVIOUS
<1>1. ASSUME NewPortPair PROVE IInv'
  BY <1>1, NewPortPairStep
<1>2. ASSUME NEW pol \in {"Putter", "Getter"}, NewNetPort(pol) PROVE IInv'
  BY <1>2, NewNetPortStep
<1>3. ASSUME NewUdpMediator PROVE IInv'
  BY <1>3, NewUdpMediatorStep
<1>4. ASSUME Connect PROVE IInv'
  BY <1>4, ConnectStep
<1>5. ASSUME AddComponent PROVE IInv'
  BY <1>5, AddComponentStep
<1>6. ASSUME NextBatch PROVE IInv'
  BY <1>6, NextBatchStep
<1>7. ASSUME NEW p \in DOMAIN ips.map, Put(p) \/ Get(p) PROVE IInv'
  BY <1>7, PutStep, GetStep
<1>8. ASSUME SyncBegin PROVE IInv'
  BY <1>8, SyncBeginStep
<1>9. ASSUME NonsyncPortPair PROVE IInv'
  BY <1>9, NonsyncPortPairStep
<1>10. ASSUME NonsyncNewComponent PROVE IInv'
  BY <1>10, NonsyncNewComponentStep
<1>11. ASSUME NonsyncExit \/ NonsyncBlocked PROVE IInv'
  BY <1>11, NonsyncDoneStep
<1>12. ASSUME NonsyncInconsistent PROVE IInv'
  BY <1>12, NonsyncInconsistentStep
<1>13. ASSUME BeginRound PROVE IInv'
  BY <1>13, BeginRoundStep
<1>14. ASSUME Commit PROVE IInv'
  BY <1>14, EndSyncStep DEF Commit
<1>15. ASSUME NEW res \in {"failure", "unrecoverable"}, Rollback(res) PROVE IInv'
  BY <1>15, EndSyncStep DEF Rollback
<1>16. CASE UNCHANGED vars
  BY <1>16, StutterStep
<1> QED
  BY <1>1, <1>2, <1>3, <1>4, <1>5, <1>6, <1>7, <1>8, <1>9, <1>10, <1>11, <1>12,
     <1>13, <1>14, <1>15, <1>16 DEF Next
-----------------------------------------------------------------------------
(* The theorems *)

LEMMA SpecIInv == Spec => []IInv
BY InitIInv, NextIInv, PTL DEF Spec

\* Ports, owners, batches and branches have their types, and from connect on
\* there is a selected batch ("length >= 1 is invariant", port_op_access).
THEOREM TypeCorrect == Spec => []TypeOK
<1>1. IInv => TypeOK
  BY DEF IInv
<1> QED
  BY SpecIInv, <1>1, PTL

\* PortInfoMap::invariant_preserved holds of the connector and of the copy of
\* every sync call, for any number of ports and components.
THEOREM Ownership == Spec => []OwnershipAgrees
<1>1. IInv => OwnershipAgrees
  BY DEF IInv, Good, Sound, OwnershipAgrees
<1> QED
  BY SpecIInv, <1>1, PTL

\* Batches only reason about the native's ports (add_component strips them).
THEOREM BatchesOfNative == Spec => []BatchesNative
<1>1. IInv => BatchesNative
  BY DEF IInv
<1> QED
  BY SpecIInv, <1>1, PTL

\* A sync call changes the ports and components of the connector only when the
\* round succeeds, and never which ports the native has.
THEOREM AtomicSync == Spec => SyncIsAtomic
<1>1. IInv /\ [Next]_vars => [CommitsOnlySuccess]_vars
  <2> SUFFICES ASSUME IInv, Next, phase \in {"nonsync", "round"}
               PROVE  CommitsOnlySuccess
    BY DEF CommitsOnlySuccess
  <2>1. CASE Commit
    BY <2>1 DEF Commit, EndSync, CommitsOnlySuccess, IInv, CopyKeepsNative
  <2>2. CASE ~Commit
    <3>1. ips' = ips /\ comps' = comps
      BY <2>2 DEF Next, NewPortPair, NewNetPort, NewUdpMediator, Connect, AddComponent,
        NextBatch, Put, Get, SyncBegin, NonsyncPortPair, NonsyncNewComponent, NonsyncExit,
        NonsyncBlocked, NonsyncInconsistent, BeginRound, Rollback
    <3> QED
      BY <3>1 DEF CommitsOnlySuccess
  <2> QED
    BY <2>1, <2>2
<1> QED
  BY SpecIInv, <1>1, PTL DEF Spec, SyncIsAtomic
-----------------------------------------------------------------------------
(* Channels and their variables *)

\* The ports of the native and of components, here and at other connectors.
Ends(i) == {p \in DOMAIN i.map : i.map[p].route # "Udp"}

\* A port has a peer of the other polarity; unless it is the port of a UDP
\* mediator the peer points back, and no two putters share a peer.
Wired(i) ==
    /\ \A p \in DOMAIN i.map : i.map[p].peer # NoPort => i.map[p].peer \in DOMAIN i.map
    /\ \A p \in Ends(i) : i.map[p].peer # NoPort =>
        /\ i.map[i.map[p].peer].polarity # i.map[p].polarity
        /\ i.map[p].peer \in Ends(i) => i.map[i.map[p].peer].peer = p
    /\ \A p, q \in Ends(i) :
        /\ i.map[p].polarity = "Putter" /\ i.map[q].polarity = "Putter"
        /\ i.map[p].peer = i.map[q].peer /\ i.map[p].peer # NoPort
        => p = q

\* Only the net ports lack a peer, until connect.
NetPortsDangle ==
    /\ \A p \in DOMAIN work.map : work.map[p].peer # NoPort
    /\ \A p \in DOMAIN ips.map : ips.map[p].peer = NoPort <=> phase = "setup" /\ p \in netPorts
    /\ phase = "setup" => \A p \in netPorts : p \in Ends(ips) /\ p = <<Me, p[2]>>

\* The variables of the channels that a sync call creates are at odd distances
\* from the ids its connector had handed out.
VarsOffset ==
    phase \in {"nonsync", "round"} =>
        /\ work.nextPort >= ips.nextPort /\ (work.nextPort - ips.nextPort) % 2 = 0
        /\ \A p \in DOMAIN work.map : \A k \in Nat :
            SpecVarFor(work, p) = <<Me, ips.nextPort + k>> => k % 2 = 1

ChannelInv == Wired(ips) /\ Wired(work) /\ NetPortsDangle /\ VarsOffset

\* Whoever owns the ports, the channels are the same.
SameEntry(i, j, p) ==
    /\ j.map[p].peer = i.map[p].peer
    /\ j.map[p].polarity = i.map[p].polarity
    /\ j.map[p].route = i.map[p].route

\* The ports in N are wired among themselves.
WiredAmong(j, N) ==
    /\ \A p \in N : j.map[p].peer # NoPort => j.map[p].peer \in N
    /\ \A p \in N : j.map[p].route # "Udp" /\ j.map[p].peer # NoPort =>
         /\ j.map[j.map[p].peer].polarity # j.map[p].polarity
         /\ j.map[j.map[p].peer].route # "Udp" => j.map[j.map[p].peer].peer = p
    /\ \A p, q \in N :
         /\ j.map[p].route # "Udp" /\ j.map[q].route # "Udp"
         /\ j.map[p].polarity = "Putter" /\ j.map[q].polarity = "Putter"
         /\ j.map[p].peer = j.map[q].peer /\ j.map[p].peer # NoPort
         => p = q

\* Channels among new ports leave the old ones as they were.
LEMMA WiredExtended ==
    ASSUME NEW i, NEW j, NEW N, Wired(i),
           DOMAIN j.map = DOMAIN i.map \cup N,
           \A p \in N : p \notin DOMAIN i.map,
           \A p \in DOMAIN i.map : SameEntry(i, j, p),
           WiredAmong(j, N)
    PROVE  Wired(j)
<1>1. \A p \in DOMAIN i.map : j.map[p].peer # NoPort => j.map[p].peer \in DOMAIN i.map
  BY DEF Wired, SameEntry
<1>2. \A p \in DOMAIN j.map : j.map[p].peer # NoPort => j.map[p].peer \in DOMAIN j.map
  BY <1>1 DEF WiredAmong
<1>3. \A p \in DOMAIN i.map : p \in Ends(j) <=> p \in Ends(i)
  BY DEF Ends, SameEntry
<1>4. ASSUME NEW p \in Ends(j), j.map[p].peer # NoPort
      PROVE  /\ j.map[j.map[p].peer].polarity # j.map[p].polarity
             /\ j.map[p].peer \in Ends(j) => j.map[j.map[p].peer].peer = p
  <2>1. CASE p \in N
    BY <1>4, <2>1 DEF Ends, WiredAmong
  <2>2. CASE p \in DOMAIN i.map
    <3>1. /\ p \in Ends(i) /\ i.map[p].peer = j.map[p].peer /\ i.map[p].polarity = j.map[p].polarity
          /\ j.map[p].peer \in DOMAIN i.map
      BY <1>1, <1>3, <1>4, <2>2 DEF SameEntry
    <3>2. SameEntry(i, j, j.map[p].peer)
      BY <3>1
    <3> QED
      BY <1>3, <1>4, <3>1, <3>2 DEF Wired, SameEntry
  <2> QED
    BY <2>1, <2>2 DEF Ends
<1>5. ASSUME NEW p \in Ends(j), NEW q \in Ends(j),
             j.map[p].polarity = "Putter", j.map[q].polarity = "Putter",
             j.map[p].peer = j.map[q].peer, j.map[p].peer # NoPort
      PROVE  p = q
  <2>1. p \in DOMAIN j.map /\ q \in DOMAIN j.map
    BY DEF Ends
  <2>2. CASE p \in N /\ q \in N
    BY <1>5, <2>2 DEF Ends, WiredAmong
  <2>3. CASE p \in DOMAIN i.map /\ q \in DOMAIN i.map
    BY <1>3, <1>5, <2>3 DEF Wired, SameEntry
  <2>4. ~(p \in N /\ q \in DOMAIN i.map) /\ ~(q \in N /\ p \in DOMAIN i.map)
    BY <1>1, <1>5 DEF WiredAmong
  <2> QED
    BY <2>1, <2>2, <2>3, <2>4
<1> QED
  BY <1>2, <1>4, <1>5 DEF Wired

\* What insertion leaves in the map.
LEMMA InsertMap ==
    ASSUME NEW i, IsIps(i), NEW new
    PROVE  /\ DOMAIN Insert(i, new).map = DOMAIN i.map \cup DOMAIN new
           /\ \A p \in DOMAIN new : Insert(i, new).map[p] = new[p]
           /\ \A p \in DOMAIN i.map : p \notin DOMAIN new => Insert(i, new).map[p] = i.map[p]
           /\ Insert(i, new).nextPort = i.nextPort /\ Insert(i, new).nextComp = i.nextComp
           /\ DOMAIN Insert(i, new) = {"map", "owned", "nextPort", "nextComp"}
<1> DEFINE m == [p \in DOMAIN i.map \cup DOMAIN new |->
                   IF p \in DOMAIN new THEN new[p] ELSE i.map[p]]
<1>1. /\ Insert(i, new).map = m
      /\ Insert(i, new).nextPort = i.nextPort /\ Insert(i, new).nextComp = i.nextComp
      /\ DOMAIN Insert(i, new) = {"map", "owned", "nextPort", "nextComp"}
  BY DEF Insert, IsIps
<1> QED
  BY <1>1

LEMMA PortPairWired ==
    ASSUME NEW i, Good(i), Wired(i), NEW owner
    PROVE  LET j == WithPortPair(i, owner)
               o == Port(i, 0)
               g == Port(i, 1)
           IN  /\ Wired(j)
               /\ DOMAIN j.map = DOMAIN i.map \cup {o, g}
               /\ \A p \in DOMAIN i.map : j.map[p] = i.map[p]
               /\ j.map[o].peer = g /\ j.map[g].peer = o
               /\ SpecVarFor(j, o) = g /\ SpecVarFor(j, g) = g
               /\ j.nextPort = i.nextPort + 2
<1> DEFINE o == Port(i, 0)
           g == Port(i, 1)
           new == [p \in {o, g} |-> IF p = o THEN Info(owner, g, "Putter", "Local")
                                             ELSE Info(owner, o, "Getter", "Local")]
           k == Insert(i, new)
           j == WithPortPair(i, owner)
<1>1. i.nextPort \in Nat /\ IsIps(i)
  BY DEF Good, Sound, IsIps
<1>2. /\ o # g /\ o # NoPort /\ g # NoPort
      /\ o \notin DOMAIN i.map /\ g \notin DOMAIN i.map
  BY <1>1, NoPortAssumption DEF Port, Good, FreshPorts
<1>3. /\ DOMAIN new = {o, g}
      /\ new[o].peer = g /\ new[o].polarity = "Putter" /\ new[o].route = "Local"
      /\ new[g].peer = o /\ new[g].polarity = "Getter" /\ new[g].route = "Local"
  BY <1>2 DEF Info
<1>4. j = TakePorts(k, 2)
  BY DEF WithPortPair
<1> HIDE DEF new, o, g
<1>5. /\ DOMAIN k.map = DOMAIN i.map \cup {o, g} /\ k.nextPort = i.nextPort
      /\ \A p \in {o, g} : k.map[p] = new[p]
      /\ \A p \in DOMAIN i.map : k.map[p] = i.map[p]
      /\ DOMAIN k = {"map", "owned", "nextPort", "nextComp"}
  BY <1>1, <1>2, <1>3, InsertMap
<1>6. j.map = k.map /\ j.nextPort = k.nextPort + 2
  BY <1>4, <1>5 DEF TakePorts
<1> HIDE DEF j, k
<1>7. /\ j.map[o].peer = g /\ j.map[o].polarity = "Putter" /\ j.map[o].route = "Local"
      /\ j.map[g].peer = o /\ j.map[g].polarity = "Getter" /\ j.map[g].route = "Local"
  BY <1>3, <1>5, <1>6
<1>8. \A p \in DOMAIN i.map : SameEntry(i, j, p)
  BY <1>5, <1>6 DEF SameEntry
<1>9. Wired(j)
  <2>1. WiredAmong(j, {o, g})
    BY <1>7 DEF WiredAmong
  <2>2. PICK N : N = {o, g}
    OBVIOUS
  <2>3. DOMAIN j.map = DOMAIN i.map \cup N /\ \A p \in N : p \notin DOMAIN i.map
    BY <1>2, <1>5, <1>6, <2>2
  <2> QED
    BY <1>8, <2>1, <2>2, <2>3, WiredExtended
<1>10. SpecVarFor(j, o) = g /\ SpecVarFor(j, g) = g
  BY <1>7 DEF SpecVarFor
<1> QED
  BY <1>5, <1>6, <1>7, <1>9, <1>10 DEF j, o, g

LEMMA MovedWired ==
    ASSUME NEW i, Good(i), Wired(i), NEW from, NEW ports
    PROVE  LET j == WithMoved(i, from, ports)
           IN  /\ Wired(j)
               /\ DOMAIN j.map = DOMAIN i.map
               /\ \A p \in DOMAIN i.map : SameEntry(i, j, p)
               /\ j.nextPort = i.nextPort
<1> DEFINE cid == NewComp(i)
           j == WithMoved(i, from, ports)
           map == [p \in DOMAIN i.map |->
                     IF p \in ports THEN [i.map[p] EXCEPT !.owner = cid] ELSE i.map[p]]
<1>1. j.map = map /\ j.nextPort = i.nextPort
  BY DEF WithMoved, TakeComp, Good, Sound, IsIps
<1>2. ASSUME NEW p \in DOMAIN i.map
      PROVE  SameEntry(i, j, p)
  <2>1. i.map[p] \in PortInfo
    BY DEF Good, Sound, IsIps
  <2>2. map[p] = IF p \in ports THEN [i.map[p] EXCEPT !.owner = cid] ELSE i.map[p]
    OBVIOUS
  <2> HIDE DEF map, cid, j
  <2> QED
    BY <1>1, <2>1, <2>2 DEF SameEntry, PortInfo
<1>3. DOMAIN j.map = DOMAIN i.map
  BY <1>1
<1> HIDE DEF j
<1>4. Wired(j)
  <2>1. PICK N : N = {}
    OBVIOUS
  <2>2. WiredAmong(j, N) /\ DOMAIN j.map = DOMAIN i.map \cup N /\ \A p \in N : p \notin DOMAIN i.map
    BY <1>3, <2>1 DEF WiredAmong
  <2> QED
    BY <1>2, <2>2, WiredExtended
<1> QED
  BY <1>1, <1>2, <1>3, <1>4 DEF j

\* A call outside sync on the ports of the connector, before or after connect.
LEMMA CallKeepsChannels ==
    ASSUME IInv, ChannelInv, phase \in {"setup", "comm"}, phase' = phase, work' = work,
           Wired(ips'), DOMAIN ips.map \subseteq DOMAIN ips'.map,
           \A p \in DOMAIN ips.map : SameEntry(ips, ips', p),
           NEW N, DOMAIN ips'.map = DOMAIN ips.map \cup N,
           netPorts' \subseteq netPorts \cup N, netPorts \subseteq netPorts',
           \A p \in N : p \notin DOMAIN ips.map,
           \A p \in N : ips'.map[p].peer = NoPort <=> phase = "setup" /\ p \in netPorts',
           phase = "setup" => \A p \in netPorts' : p \in netPorts
               \/ (p \in Ends(ips') /\ p = <<Me, p[2]>>)
    PROVE  ChannelInv'
<1>1. /\ Wired(ips)' /\ Wired(work)' /\ VarsOffset'
      /\ \A p \in DOMAIN work'.map : work'.map[p].peer # NoPort
  BY DEF ChannelInv, NetPortsDangle, VarsOffset
<1>2. phase = "setup" => \A p \in netPorts : p \in DOMAIN ips.map /\ p \in Ends(ips') /\ p = <<Me, p[2]>>
  BY DEF ChannelInv, NetPortsDangle, Ends, SameEntry
<1>3. ASSUME NEW p \in DOMAIN ips'.map
      PROVE  ips'.map[p].peer = NoPort <=> phase = "setup" /\ p \in netPorts'
  <2>1. CASE p \in DOMAIN ips.map
    BY <2>1 DEF ChannelInv, NetPortsDangle, SameEntry
  <2> QED
    BY <1>3, <2>1
<1>4. phase = "setup" => \A p \in netPorts' : p \in Ends(ips') /\ p = <<Me, p[2]>>
  BY <1>2
<1>5. NetPortsDangle'
  BY <1>1, <1>3, <1>4 DEF NetPortsDangle, Ends
<1> QED
  BY <1>1, <1>5 DEF ChannelInv

LEMMA NewPortPairChannels ==
    ASSUME IInv, ChannelInv, NewPortPair
    PROVE  ChannelInv'
<1>1. Good(ips) /\ Wired(ips) /\ ips.nextPort \in Nat
  BY NativeKnown DEF IInv, ChannelInv
<1>2. PICK N : N = {Port(ips, 0), Port(ips, 1)}
  OBVIOUS
<1> DEFINE j == WithPortPair(ips, Native)
<1>3. /\ Wired(j) /\ DOMAIN j.map = DOMAIN ips.map \cup N
      /\ \A p \in DOMAIN ips.map : j.map[p] = ips.map[p]
      /\ j.map[Port(ips, 0)].peer = Port(ips, 1) /\ j.map[Port(ips, 1)].peer = Port(ips, 0)
  BY <1>1, <1>2, PortPairWired
<1>4. ips' = j /\ phase \in {"setup", "comm"} /\ UNCHANGED <<phase, work, netPorts>>
  BY DEF NewPortPair, syncVars
<1> HIDE DEF j
<1>5. \A p \in N : p \notin DOMAIN ips.map /\ ips'.map[p].peer # NoPort
  BY <1>1, <1>2, <1>3, <1>4, NoPortAssumption DEF Good, FreshPorts, Port
<1>6. phase = "setup" => \A p \in N : p \notin netPorts
  BY <1>5 DEF ChannelInv, NetPortsDangle, Ends
<1>7. \A p \in DOMAIN ips.map : SameEntry(ips, ips', p)
  BY <1>3, <1>4 DEF SameEntry
<1> QED
  BY <1>3, <1>4, <1>5, <1>6, <1>7, CallKeepsChannels

LEMMA AddComponentChannels ==
    ASSUME IInv, ChannelInv, AddComponent
    PROVE  ChannelInv'
<1>1. PICK ports : ips' = WithMoved(ips, Native, ports)
  BY DEF AddComponent
<1>2. Good(ips) /\ Wired(ips)
  BY DEF IInv, ChannelInv
<1> DEFINE j == WithMoved(ips, Native, ports)
<1>3. Wired(j) /\ DOMAIN j.map = DOMAIN ips.map /\ \A p \in DOMAIN ips.map : SameEntry(ips, j, p)
  BY <1>2, MovedWired
<1>4. ips' = j
  BY <1>1
<1> HIDE DEF j
<1>5. phase \in {"setup", "comm"} /\ UNCHANGED <<phase, work, netPorts>>
  BY DEF AddComponent, syncVars
<1>6. PICK N : N = {}
  OBVIOUS
<1>7. DOMAIN ips'.map = DOMAIN ips.map \cup N
  BY <1>3, <1>4, <1>6
<1> QED
  BY <1>3, <1>4, <1>5, <1>6, <1>7, CallKeepsChannels

LEMMA NewNetPortChannels ==
    ASSUME IInv, ChannelInv, NEW polarity \in {"Putter", "Getter"}, NewNetPort(polarity)
    PROVE  ChannelInv'
<1> DEFINE p == Port(ips, 0)
           new == [q \in {p} |-> Info(Native, NoPort, polarity, "Local")]
           j == Insert(ips, new)
<1>1. /\ IsIps(ips) /\ Wired(ips) /\ ips.nextPort \in Nat
      /\ p \notin DOMAIN ips.map /\ p = <<Me, p[2]>>
  BY NativeKnown DEF IInv, TypeOK, ChannelInv, Good, FreshPorts, Port
<1>2. DOMAIN new = {p} /\ new[p].peer = NoPort /\ new[p].route = "Local"
  BY DEF Info
<1>3. /\ ips' = TakePorts(j, 1) /\ netPorts' = netPorts \cup {p}
      /\ phase = "setup" /\ UNCHANGED <<phase, work>>
  BY DEF NewNetPort, syncVars
<1> HIDE DEF new, p
<1>4. /\ DOMAIN j.map = DOMAIN ips.map \cup {p} /\ j.map[p] = new[p]
      /\ \A q \in DOMAIN ips.map : j.map[q] = ips.map[q]
      /\ DOMAIN j = {"map", "owned", "nextPort", "nextComp"}
  BY <1>1, <1>2, InsertMap
<1>5. ips'.map = j.map
  BY <1>3, <1>4 DEF TakePorts
<1> HIDE DEF j
<1>6. PICK N : N = {p}
  OBVIOUS
<1>7. /\ \A q \in DOMAIN ips.map : SameEntry(ips, ips', q)
      /\ DOMAIN ips'.map = DOMAIN ips.map \cup N /\ \A q \in N : q \notin DOMAIN ips.map
  BY <1>1, <1>4, <1>5, <1>6 DEF SameEntry
<1>8. WiredAmong(ips', N)
  BY <1>2, <1>4, <1>5, <1>6 DEF WiredAmong
<1>9. Wired(ips')
  BY <1>1, <1>7, <1>8, WiredExtended
<1>10. p \in Ends(ips') /\ ips'.map[p].peer = NoPort
  BY <1>2, <1>4, <1>5 DEF Ends
<1> QED
  BY <1>1, <1>3, <1>6, <1>7, <1>9, <1>10, CallKeepsChannels

LEMMA NewUdpMediatorChannels ==
    ASSUME IInv, ChannelInv, NewUdpMediator
    PROVE  ChannelInv'
<1> DEFINE nin == Port(ips, 0)  nout == Port(ips, 1)
           uin == Port(ips, 2)  uout == Port(ips, 3)
           udp == NewComp(ips)
           new == [p \in {nin, nout, uin, uout} |->
                    CASE p = nout -> Info(Native, uin, "Putter", "Local")
                      [] p = uin  -> Info(udp, uin, "Getter", "Udp")
                      [] p = uout -> Info(udp, uin, "Putter", "Udp")
                      [] OTHER    -> Info(Native, uout, "Getter", "Local")]
           j == Insert(ips, new)
           t == TakePorts(j, 4)
<1>1. IsIps(ips) /\ Wired(ips) /\ ips.nextPort \in Nat
  BY NativeKnown DEF IInv, TypeOK, ChannelInv
<1>2. /\ \A p \in {nin, nout, uin, uout} : p \notin DOMAIN ips.map /\ p # NoPort
      /\ nin # nout /\ nin # uin /\ nin # uout /\ nout # uin /\ nout # uout /\ uin # uout
  BY <1>1, NoPortAssumption DEF IInv, Good, FreshPorts, Port
<1>3. /\ DOMAIN new = {nin, nout, uin, uout}
      /\ new[nout] = Info(Native, uin, "Putter", "Local")
      /\ new[uin] = Info(udp, uin, "Getter", "Udp")
      /\ new[uout] = Info(udp, uin, "Putter", "Udp")
      /\ new[nin] = Info(Native, uout, "Getter", "Local")
  BY <1>2
<1>4. ips' = TakeComp(t) /\ phase = "setup" /\ UNCHANGED <<phase, work, netPorts>>
  BY DEF NewUdpMediator, syncVars
<1> HIDE DEF new, nin, nout, uin, uout
<1>5. /\ DOMAIN j.map = DOMAIN ips.map \cup {nin, nout, uin, uout}
      /\ \A q \in {nin, nout, uin, uout} : j.map[q] = new[q]
      /\ \A q \in DOMAIN ips.map : j.map[q] = ips.map[q]
      /\ DOMAIN j = {"map", "owned", "nextPort", "nextComp"}
  BY <1>1, <1>2, <1>3, InsertMap
<1>6. ips'.map = j.map
  BY <1>4, <1>5 DEF TakePorts, TakeComp
<1> HIDE DEF j, udp
<1>7. PICK N : N = {nin, nout, uin, uout}
  OBVIOUS
<1>8. /\ \A q \in DOMAIN ips.map : SameEntry(ips, ips', q)
      /\ DOMAIN ips'.map = DOMAIN ips.map \cup N /\ \A q \in N : q \notin DOMAIN ips.map
  BY <1>2, <1>5, <1>6, <1>7 DEF SameEntry
<1>9. /\ ips'.map[nout].peer = uin /\ ips'.map[nout].polarity = "Putter" /\ ips'.map[nout].route = "Local"
      /\ ips'.map[uin].peer = uin /\ ips'.map[uin].polarity = "Getter" /\ ips'.map[uin].route = "Udp"
      /\ ips'.map[uout].peer = uin /\ ips'.map[uout].polarity = "Putter" /\ ips'.map[uout].route = "Udp"
      /\ ips'.map[nin].peer = uout /\ ips'.map[nin].polarity = "Getter" /\ ips'.map[nin].route = "Local"
  BY <1>3, <1>5, <1>6 DEF Info
<1>10. WiredAmong(ips', N)
  BY <1>2, <1>7, <1>9 DEF WiredAmong
<1>11. Wired(ips')
  BY <1>1, <1>8, <1>10, WiredExtended
<1>12. \A q \in N : ips'.map[q].peer # NoPort /\ q \notin netPorts
  <2>1. \A q \in N : ips'.map[q].peer # NoPort
    BY <1>2, <1>7, <1>9
  <2>2. \A q \in netPorts : q \in DOMAIN ips.map
    BY <1>4 DEF ChannelInv, NetPortsDangle, Ends
  <2> QED
    BY <1>8, <2>1, <2>2
<1> QED
  BY <1>4, <1>8, <1>11, <1>12, CallKeepsChannels

\* connect pairs every net port with one port, that points back.
LEMMA ConnectWired ==
    ASSUME IInv, ChannelInv, phase = "setup", NEW self \in SUBSET (netPorts \X netPorts),
           \A c \in self : ips.map[c[1]].polarity = "Putter" /\ ips.map[c[2]].polarity = "Getter",
           \A c, d \in self : c[1] = d[1] \/ c[2] = d[2] => c = d,
           ips' = Insert([ips EXCEPT !.map = Paired(self)], Remotes(self))
    PROVE  Wired(ips') /\ \A p \in DOMAIN ips'.map : ips'.map[p].peer # NoPort
<1> DEFINE looped == Looped(self)
           R == {<<Other, p[2]>> : p \in netPorts \ looped}
           i == [ips EXCEPT !.map = Paired(self)]
           m == ips'.map
<1>1. /\ \A p \in netPorts : /\ p \in DOMAIN ips.map /\ p = <<Me, p[2]>> /\ p[2] \in Nat
                             /\ ips.map[p].route # "Udp" /\ ips.map[p].peer = NoPort
      /\ \A p \in DOMAIN ips.map : ips.map[p] \in PortInfo /\ p \in Ids
      /\ \A p \in DOMAIN ips.map : p \notin netPorts => ips.map[p].peer # NoPort
  <2>1. netPorts \subseteq Ids
    BY DEF IInv, TypeOK
  <2>2. \A p \in netPorts : p[2] \in Nat
    BY <2>1 DEF Ids
  <2>3. \A p \in netPorts : p \in Ends(ips) /\ p = <<Me, p[2]>>
    BY DEF ChannelInv, NetPortsDangle
  <2>4. \A p \in DOMAIN ips.map : ips.map[p].peer = NoPort <=> p \in netPorts
    BY DEF ChannelInv, NetPortsDangle
  <2>5. \A p \in DOMAIN ips.map : ips.map[p] \in PortInfo /\ p \in Ids
    BY DEF IInv, TypeOK, IsIps
  <2> QED
    BY <2>2, <2>3, <2>4, <2>5 DEF Ends
<1>2. \A c \in self : c = <<c[1], c[2]>> /\ c[1] \in netPorts /\ c[2] \in netPorts
  OBVIOUS
<1>3. \A p \in looped : \E c \in self : p = c[1] \/ p = c[2]
  BY DEF Looped
<1>4. \A c \in self : c[1] \in looped /\ c[2] \in looped
  BY DEF Looped
<1>5. looped \subseteq netPorts
  BY <1>2, <1>3
\* A port of a channel to itself has the other end as its peer.
<1>6. ASSUME NEW p \in looped
      PROVE  /\ PeerOf(self, p) \in looped
             /\ <<p, PeerOf(self, p)>> \in self \/ <<PeerOf(self, p), p>> \in self
  <2>1. PICK c \in self : p = c[1] \/ p = c[2]
    BY <1>3
  <2>2. \E q \in looped : <<p, q>> \in self \/ <<q, p>> \in self
    BY <1>2, <1>4, <2>1
  <2> QED
    BY <2>2 DEF PeerOf
<1>7. ASSUME NEW p \in looped
      PROVE  /\ PeerOf(self, PeerOf(self, p)) = p
             /\ ips.map[PeerOf(self, p)].polarity # ips.map[p].polarity
  <2>1. PICK q \in looped : q = PeerOf(self, p) /\ (<<p, q>> \in self \/ <<q, p>> \in self)
    BY <1>6
  <2>2. PICK r \in looped : r = PeerOf(self, q) /\ (<<q, r>> \in self \/ <<r, q>> \in self)
    BY <1>6
  <2>3. \A a, b : <<a, b>> \in self => /\ ips.map[a].polarity = "Putter"
                                       /\ ips.map[b].polarity = "Getter"
    OBVIOUS
  <2>4. \A a, b, d : /\ <<a, b>> \in self /\ <<a, d>> \in self => b = d
                     /\ <<b, a>> \in self /\ <<d, a>> \in self => b = d
    OBVIOUS
  <2>5. r = p
    BY <2>1, <2>2, <2>3, <2>4
  <2> QED
    BY <2>1, <2>2, <2>3, <2>5
<1>8. \A p \in netPorts \ looped : PeerOf(self, p) = <<Other, p[2]>>
  BY DEF PeerOf
<1> HIDE DEF looped
<1>9. /\ DOMAIN Remotes(self) = R
      /\ \A q \in R : Remotes(self)[q] = Info(<<Other, 0>>, <<Me, q[2]>>,
             IF ips.map[<<Me, q[2]>>].polarity = "Putter" THEN "Getter" ELSE "Putter", "Net")
  BY DEF Remotes, looped
<1>10. /\ DOMAIN Paired(self) = DOMAIN ips.map
       /\ \A p \in DOMAIN ips.map : Paired(self)[p] =
            IF p \in netPorts THEN [ips.map[p] EXCEPT !.peer = PeerOf(self, p)] ELSE ips.map[p]
  BY DEF Paired
<1>11. \A q \in R : q \notin DOMAIN ips.map /\ q # NoPort
  <2>1. \A q \in R : \E k \in Nat : q = <<Other, k>>
    BY <1>1
  <2> QED
    BY <2>1, NoPortAssumption DEF IInv, NoForeignPorts
<1>12. /\ DOMAIN m = DOMAIN ips.map \cup R
       /\ \A q \in R : m[q] = Remotes(self)[q]
       /\ \A p \in DOMAIN ips.map : m[p] = Paired(self)[p]
  <2>1. i.map = Paired(self) /\ DOMAIN i = {"map", "owned", "nextPort", "nextComp"}
    BY DEF IInv, TypeOK, IsIps
  <2>2. ips' = Insert(i, Remotes(self))
    OBVIOUS
  <2> HIDE DEF i, R
  <2>3. ips'.map = [p \in DOMAIN i.map \cup DOMAIN Remotes(self) |->
                      IF p \in DOMAIN Remotes(self) THEN Remotes(self)[p] ELSE i.map[p]]
    BY <2>1, <2>2 DEF Insert
  <2> QED
    BY <1>9, <1>10, <1>11, <2>1, <2>3
<1>13. \A p \in DOMAIN ips.map : p \notin netPorts => m[p] = ips.map[p]
  BY <1>10, <1>12
<1>14. ASSUME NEW p \in netPorts
       PROVE  /\ m[p].peer = PeerOf(self, p) /\ m[p].polarity = ips.map[p].polarity
              /\ m[p].route # "Udp"
  <2>1. ips.map[p] \in PortInfo /\ m[p] = [ips.map[p] EXCEPT !.peer = PeerOf(self, p)]
    BY <1>1, <1>10, <1>12
  <2> QED
    BY <1>1, <2>1 DEF PortInfo
<1>15. ASSUME NEW p \in netPorts \ looped
       PROVE  LET q == <<Other, p[2]>>
              IN  /\ q \in R /\ m[q].peer = p /\ m[q].route # "Udp"
                  /\ m[q].polarity # ips.map[p].polarity
  <2> DEFINE q == <<Other, p[2]>>
  <2>1. q \in R /\ q[2] = p[2] /\ p = <<Me, q[2]>>
    BY <1>1
  <2>2. m[q] = Info(<<Other, 0>>, p,
              IF ips.map[p].polarity = "Putter" THEN "Getter" ELSE "Putter", "Net")
    BY <1>9, <1>12, <2>1
  <2> HIDE DEF q, m, R
  <2>3. /\ m[q].peer = p /\ m[q].route = "Net"
        /\ m[q].polarity = IF ips.map[p].polarity = "Putter" THEN "Getter" ELSE "Putter"
    BY <2>2 DEF Info
  <2> QED
    BY <2>1, <2>3 DEF q
<1>16. \A r \in R : \E p \in netPorts \ looped : r = <<Other, p[2]>>
  OBVIOUS
<1> DEFINE M == netPorts \cup R
<1> HIDE DEF m, R, i
<1>17. ASSUME NEW x \in M
       PROVE  /\ m[x].peer \in M /\ m[m[x].peer].peer = x /\ m[x].route # "Udp"
              /\ m[m[x].peer].polarity # m[x].polarity
  <2>1. CASE x \in looped
    <3>1. PICK y \in looped : /\ y = PeerOf(self, x) /\ PeerOf(self, y) = x
                               /\ ips.map[y].polarity # ips.map[x].polarity
      BY <1>6, <1>7, <2>1
    <3>2. x \in netPorts /\ y \in netPorts /\ y \in M
      BY <1>5, <2>1
    <3>3. m[x].peer = y /\ m[y].peer = x
      BY <1>14, <3>1, <3>2
    <3>4. m[x].route # "Udp" /\ m[x].polarity # m[y].polarity
      BY <1>14, <3>1, <3>2
    <3> QED
      BY <3>2, <3>3, <3>4
  <2>2. CASE x \in netPorts \ looped
    BY <1>8, <1>14, <1>15, <2>2
  <2>3. CASE x \in R
    <3>1. PICK p \in netPorts \ looped : x = <<Other, p[2]>>
      BY <1>16, <2>3
    <3> QED
      BY <1>8, <1>14, <1>15, <3>1
  <2> QED
    BY <2>1, <2>2, <2>3
<1>18. \A x \in M : x \in DOMAIN m /\ x # NoPort
  BY <1>1, <1>11, <1>12, NoPortAssumption DEF Ids
<1>19. ASSUME NEW x \in DOMAIN m, x \notin M
       PROVE  /\ x \in DOMAIN ips.map /\ m[x] = ips.map[x]
              /\ m[x].peer \in DOMAIN ips.map /\ m[x].peer # NoPort
  <2>1. x \in DOMAIN ips.map /\ x \notin netPorts
    BY <1>12, <1>19
  <2>2. ips.map[x].peer # NoPort
    BY <1>1, <2>1
  <2> QED
    BY <1>13, <2>1, <2>2 DEF ChannelInv, Wired
<1>20. ASSUME NEW x \in DOMAIN m, x \notin M, m[x].route # "Udp"
       PROVE  m[x].peer \notin M /\ x \in Ends(ips)
  <2>1. x \in Ends(ips) /\ m[x] = ips.map[x]
    BY <1>19, <1>20 DEF Ends
  <2>2. m[x].peer \notin R
    BY <1>11, <1>19, <1>20
  <2>3. ASSUME m[x].peer \in netPorts PROVE FALSE
    <3>1. m[x].peer \in Ends(ips) /\ ips.map[m[x].peer].peer = NoPort
      BY <1>1, <2>3 DEF Ends
    <3>2. ips.map[m[x].peer].peer = x
      BY <1>19, <1>20, <2>1, <3>1 DEF ChannelInv, Wired
    <3>3. x # NoPort
      BY <1>1, <2>1, NoPortAssumption DEF Ends, Ids
    <3> QED
      BY <3>1, <3>2, <3>3
  <2> QED
    BY <2>1, <2>2, <2>3
<1> HIDE DEF M
<1>21. \A p \in DOMAIN m : m[p].peer \in DOMAIN m /\ m[p].peer # NoPort
  BY <1>12, <1>17, <1>18, <1>19
<1>22. ASSUME NEW p \in DOMAIN m, m[p].route # "Udp"
       PROVE  /\ m[m[p].peer].polarity # m[p].polarity
              /\ m[m[p].peer].route # "Udp" => m[m[p].peer].peer = p
  <2>1. CASE p \in M
    BY <1>17, <2>1
  <2>2. CASE p \notin M
    <3>1. /\ m[p] = ips.map[p] /\ p \in Ends(ips) /\ m[p].peer \in DOMAIN ips.map
          /\ m[p].peer # NoPort /\ m[m[p].peer] = ips.map[m[p].peer]
      BY <1>12, <1>19, <1>20, <1>22, <2>2
    <3> QED
      BY <3>1 DEF ChannelInv, Wired, Ends
  <2> QED
    BY <2>1, <2>2
<1>23. ASSUME NEW p \in DOMAIN m, NEW q \in DOMAIN m, m[p].route # "Udp", m[q].route # "Udp",
              m[p].polarity = "Putter", m[q].polarity = "Putter", m[p].peer = m[q].peer
       PROVE  p = q
  <2>1. CASE p \in M /\ q \in M
    BY <1>17, <1>23, <2>1
  <2>2. CASE p \notin M /\ q \notin M
    <3>1. /\ m[p] = ips.map[p] /\ m[q] = ips.map[q] /\ p \in Ends(ips) /\ q \in Ends(ips)
          /\ m[p].peer # NoPort
      BY <1>19, <1>20, <1>23, <2>2
    <3> QED
      BY <1>23, <3>1 DEF ChannelInv, Wired
  <2> QED
    BY <1>17, <1>20, <1>23, <2>1, <2>2
<1> QED
  BY <1>21, <1>22, <1>23 DEF Wired, Ends, m

LEMMA ConnectChannels ==
    ASSUME IInv, ChannelInv, Connect
    PROVE  ChannelInv'
<1>1. PICK self \in SUBSET (netPorts \X netPorts) :
        /\ \A c \in self : ips.map[c[1]].polarity = "Putter" /\ ips.map[c[2]].polarity = "Getter"
        /\ \A c, d \in self : c[1] = d[1] \/ c[2] = d[2] => c = d
        /\ ips' = Insert([ips EXCEPT !.map = Paired(self)], Remotes(self))
  BY DEF Connect
<1>2. phase = "setup" /\ phase' = "comm" /\ UNCHANGED <<work, netPorts>>
  BY DEF Connect, syncVars
<1>3. Wired(ips') /\ \A p \in DOMAIN ips'.map : ips'.map[p].peer # NoPort
  BY <1>1, <1>2, ConnectWired
<1> QED
  BY <1>2, <1>3 DEF ChannelInv, NetPortsDangle, VarsOffset

\* Steps that leave the ports alone.
LEMMA PortsKeptChannels ==
    ASSUME ChannelInv, UNCHANGED <<ips, work, netPorts>>,
           phase' = "setup" <=> phase = "setup",
           phase' \in {"nonsync", "round"} => phase \in {"nonsync", "round"}
    PROVE  ChannelInv'
BY DEF ChannelInv, NetPortsDangle, VarsOffset

\* The variable of a channel is one of its ports.
LEMMA SpecVarIsPort ==
    ASSUME NEW i, IsIps(i), Wired(i), NEW p \in DOMAIN i.map, i.map[p].peer # NoPort
    PROVE  SpecVarFor(i, p) \in DOMAIN i.map
BY DEF SpecVarFor, Wired

LEMMA SyncBeginChannels ==
    ASSUME IInv, ChannelInv, SyncBegin
    PROVE  ChannelInv'
<1>1. /\ work' = ips /\ ips' = ips /\ netPorts' = netPorts
      /\ phase = "comm" /\ phase' = "nonsync"
  BY DEF SyncBegin
<1>2. IsIps(ips) /\ ips.nextPort \in Nat /\ FreshPorts(ips, ips.nextPort)
  BY DEF IInv, Good, Sound, IsIps
<1>3. \A p \in DOMAIN ips.map : ips.map[p].peer # NoPort
  BY <1>1 DEF ChannelInv, NetPortsDangle
<1>4. NetPortsDangle'
  BY <1>1, <1>3 DEF NetPortsDangle
<1>5. ASSUME NEW p \in DOMAIN ips.map, NEW k \in Nat
      PROVE  SpecVarFor(ips, p) # <<Me, ips.nextPort + k>>
  <2>1. SpecVarFor(ips, p) \in DOMAIN ips.map
    BY <1>2, <1>3, SpecVarIsPort DEF ChannelInv
  <2>2. ips.nextPort + k \in Nat /\ ips.nextPort + k >= ips.nextPort
    BY <1>2
  <2> QED
    BY <1>2, <2>1, <2>2 DEF FreshPorts
<1>6. ips.nextPort >= ips.nextPort /\ (ips.nextPort - ips.nextPort) % 2 = 0
  BY <1>2
<1>7. VarsOffset'
  BY <1>1, <1>5, <1>6 DEF VarsOffset, SpecVarFor
<1> QED
  BY <1>1, <1>4, <1>7 DEF ChannelInv

LEMMA NonsyncPortPairChannels ==
    ASSUME IInv, ChannelInv, NonsyncPortPair
    PROVE  ChannelInv'
<1>1. /\ work' = WithPortPair(work, Running) /\ UNCHANGED <<phase, ips, netPorts>>
      /\ phase = "nonsync"
  BY DEF NonsyncPortPair
<1>2. /\ Good(work) /\ Wired(work) /\ work.nextPort \in Nat /\ ips.nextPort \in Nat
      /\ work.nextPort >= ips.nextPort /\ (work.nextPort - ips.nextPort) % 2 = 0
  BY <1>1 DEF IInv, TypeOK, IsIps, ChannelInv, VarsOffset
<1> DEFINE o == Port(work, 0)
           g == Port(work, 1)
           j == WithPortPair(work, Running)
<1>3. /\ Wired(j) /\ DOMAIN j.map = DOMAIN work.map \cup {o, g}
      /\ \A p \in DOMAIN work.map : j.map[p] = work.map[p]
      /\ j.map[o].peer = g /\ j.map[g].peer = o
      /\ SpecVarFor(j, o) = g /\ SpecVarFor(j, g) = g
      /\ j.nextPort = work.nextPort + 2
  BY <1>2, PortPairWired
<1>4. o # NoPort /\ g # NoPort
  BY <1>2, NoPortAssumption DEF Port
<1>5. \A k \in Nat : g = <<Me, ips.nextPort + k>> => k % 2 = 1
  <2> SUFFICES ASSUME NEW k \in Nat, work.nextPort + 1 = ips.nextPort + k
               PROVE  k % 2 = 1
    BY DEF Port
  <2>1. PICK a, b \in Nat : a = work.nextPort /\ b = ips.nextPort
    BY <1>2
  <2>2. a >= b /\ (a - b) % 2 = 0 /\ k = (a - b) + 1
    BY <1>2, <2>1
  <2>3. PICK d \in Nat : d = a - b
    BY <2>2
  <2> QED
    BY <2>2, <2>3
<1>6. j.nextPort >= ips.nextPort /\ (j.nextPort - ips.nextPort) % 2 = 0
  BY <1>2, <1>3
<1>7. work' = j
  BY <1>1
<1> HIDE DEF j, o, g
<1>8. \A p \in DOMAIN j.map : j.map[p].peer # NoPort
  BY <1>3, <1>4 DEF ChannelInv, NetPortsDangle
<1>9. NetPortsDangle'
  BY <1>1, <1>7, <1>8 DEF ChannelInv, NetPortsDangle
<1>10. ASSUME NEW p \in DOMAIN j.map, NEW k \in Nat, SpecVarFor(j, p) = <<Me, ips.nextPort + k>>
       PROVE  k % 2 = 1
  <2>1. CASE p \in DOMAIN work.map
    <3>1. SpecVarFor(work, p) = <<Me, ips.nextPort + k>>
      BY <1>3, <1>10, <2>1 DEF SpecVarFor
    <3> QED
      BY <1>1, <2>1, <3>1 DEF ChannelInv, VarsOffset
  <2>2. CASE p \in {o, g}
    BY <1>3, <1>5, <1>10, <2>2
  <2> QED
    BY <1>3, <2>1, <2>2
<1>11. VarsOffset'
  BY <1>1, <1>6, <1>7, <1>10 DEF VarsOffset, SpecVarFor
<1> QED
  BY <1>1, <1>3, <1>7, <1>9, <1>11 DEF ChannelInv

LEMMA NonsyncNewComponentChannels ==
    ASSUME IInv, ChannelInv, NonsyncNewComponent
    PROVE  ChannelInv'
<1>1. PICK ports : work' = WithMoved(work, Running, ports)
  BY DEF NonsyncNewComponent
<1>2. UNCHANGED <<phase, ips, netPorts>> /\ phase = "nonsync"
  BY DEF NonsyncNewComponent
<1> DEFINE j == WithMoved(work, Running, ports)
<1>3. /\ Wired(j) /\ DOMAIN j.map = DOMAIN work.map
      /\ \A p \in DOMAIN work.map : SameEntry(work, j, p)
      /\ j.nextPort = work.nextPort
  BY MovedWired DEF IInv, ChannelInv
<1>4. work' = j
  BY <1>1
<1> HIDE DEF j
<1>5. \A p \in DOMAIN work.map : SpecVarFor(j, p) = SpecVarFor(work, p)
  BY <1>3 DEF SpecVarFor, SameEntry
<1>6. NetPortsDangle'
  BY <1>2, <1>3, <1>4 DEF ChannelInv, NetPortsDangle, SameEntry
<1>7. VarsOffset'
  <2>2. \A p : SpecVarFor(work, p)' = SpecVarFor(j, p)
    BY <1>4 DEF SpecVarFor
  <2> QED
    BY <1>2, <1>3, <1>4, <1>5, <2>2 DEF ChannelInv, VarsOffset
<1> QED
  BY <1>2, <1>3, <1>4, <1>6, <1>7 DEF ChannelInv

LEMMA NoIpsWired == Wired(NoIps) /\ \A p \in DOMAIN NoIps.map : NoIps.map[p].peer # NoPort
BY DEF NoIps, Wired, Ends

\* The end of a sync call: the copy replaces the ports, or is dropped.
LEMMA SyncEndChannels ==
    ASSUME IInv, ChannelInv, phase # "setup", phase' = "comm", work' = NoIps,
           netPorts' = netPorts, ips' = ips \/ ips' = work
    PROVE  ChannelInv'
<1>1. Wired(work') /\ \A p \in DOMAIN work'.map : work'.map[p].peer # NoPort
  BY NoIpsWired
<1>2. Wired(ips') /\ \A p \in DOMAIN ips'.map : ips'.map[p].peer # NoPort
  BY DEF ChannelInv, NetPortsDangle
<1> QED
  BY <1>1, <1>2 DEF ChannelInv, NetPortsDangle, VarsOffset

LEMMA InitChannels == Init => ChannelInv
<1> SUFFICES ASSUME Init PROVE ChannelInv
  OBVIOUS
<1>1. ips.map = <<>> /\ phase = "setup" /\ netPorts = {} /\ work = NoIps
  BY DEF Init
<1>2. Wired(ips)
  BY <1>1 DEF Wired, Ends
<1> QED
  BY <1>1, <1>2, NoIpsWired DEF ChannelInv, NetPortsDangle, VarsOffset

LEMMA NextChannels == IInv /\ ChannelInv /\ [Next]_vars => ChannelInv'
<1> SUFFICES ASSUME IInv, ChannelInv, [Next]_vars
             PROVE  ChannelInv'
  OBVIOUS
<1>1. CASE NewPortPair
  BY <1>1, NewPortPairChannels
<1>2. CASE \E pol \in {"Putter", "Getter"} : NewNetPort(pol)
  BY <1>2, NewNetPortChannels
<1>3. CASE NewUdpMediator
  BY <1>3, NewUdpMediatorChannels
<1>4. CASE Connect
  BY <1>4, ConnectChannels
<1>5. CASE AddComponent
  BY <1>5, AddComponentChannels
<1>6. CASE NextBatch \/ \E p \in DOMAIN ips.map : Put(p) \/ Get(p)
  BY <1>6, PortsKeptChannels DEF NextBatch, Put, Get, syncVars
<1>7. CASE SyncBegin
  BY <1>7, SyncBeginChannels
<1>8. CASE NonsyncPortPair
  BY <1>8, NonsyncPortPairChannels
<1>9. CASE NonsyncNewComponent
  BY <1>9, NonsyncNewComponentChannels
<1>10. CASE NonsyncExit \/ NonsyncBlocked \/ BeginRound
  BY <1>10, PortsKeptChannels DEF NonsyncExit, NonsyncBlocked, BeginRound
<1>11. CASE NonsyncInconsistent
  BY <1>11, SyncEndChannels DEF NonsyncInconsistent
<1>12. CASE Commit
  BY <1>12, SyncEndChannels DEF Commit, EndSync
<1>13. CASE \E res \in {"failure", "unrecoverable"} : Rollback(res)
  BY <1>13, SyncEndChannels DEF Rollback, EndSync
<1>14. CASE UNCHANGED vars
  BY <1>14, PortsKeptChannels DEF vars
<1> QED
  BY <1>1, <1>2, <1>3, <1>4, <1>5, <1>6, <1>7, <1>8, <1>9, <1>10, <1>11, <1>12, <1>13, <1>14
  DEF Next

\* When every port has a peer, the getter at its end names a channel of two.
LEMMA WiredVars ==
    ASSUME NEW i, IsIps(i), Wired(i), \A p \in DOMAIN i.map : i.map[p].peer # NoPort
    PROVE  VarsFollowChannels(i, Ends(i))
<1> SUFFICES ASSUME NEW p \in Ends(i), NEW q \in Ends(i), p # q
             PROVE  SpecVarFor(i, p) = SpecVarFor(i, q) <=> i.map[p].peer = q /\ i.map[q].peer = p
  BY DEF VarsFollowChannels
<1>1. /\ i.map[p].polarity \in {"Putter", "Getter"} /\ i.map[q].polarity \in {"Putter", "Getter"}
      /\ i.map[p].peer # NoPort /\ i.map[q].peer # NoPort
  BY DEF IsIps, PortInfo, Ends
<1>2. ASSUME SpecVarFor(i, p) = SpecVarFor(i, q)
      PROVE  i.map[p].peer = q /\ i.map[q].peer = p
  <2>1. CASE i.map[p].polarity = "Getter" /\ i.map[q].polarity = "Putter"
    BY <1>1, <1>2, <2>1 DEF SpecVarFor, Wired
  <2>2. CASE i.map[p].polarity = "Putter" /\ i.map[q].polarity = "Getter"
    BY <1>1, <1>2, <2>2 DEF SpecVarFor, Wired
  <2>3. CASE i.map[p].polarity = "Putter" /\ i.map[q].polarity = "Putter"
    BY <1>1, <1>2, <2>3 DEF SpecVarFor, Wired
  <2> QED
    BY <1>1, <1>2, <2>1, <2>2, <2>3 DEF SpecVarFor
<1>3. ASSUME i.map[p].peer = q, i.map[q].peer = p
      PROVE  SpecVarFor(i, p) = SpecVarFor(i, q)
  BY <1>1, <1>3 DEF SpecVarFor, Wired
<1> QED
  BY <1>2, <1>3

\* spec_var_for names the channels, and new_spec_var_stream none of them: two
\* ports of the native or of components, here or at other connectors, share a
\* variable iff they are the two ends of a channel, for any number of channels,
\* components and rounds, and the variable that numbers the branches of the
\* native is not the variable of a channel.
THEOREM VariablesOfChannels == Spec => []OneVarPerChannel
<1>1. IInv /\ ChannelInv => OneVarPerChannel
  <2> SUFFICES ASSUME IInv, ChannelInv PROVE OneVarPerChannel
    OBVIOUS
  <2>1. NativeVarFresh
    <3>1. SkipN \in Nat /\ SkipN % 2 # 1
      BY BoundsAssumption, GapAssumption
    <3> QED
      BY <3>1 DEF ChannelInv, VarsOffset, NativeVarFresh
  <2>2. ASSUME phase # "setup"
        PROVE  VarsFollowChannels(ips, Ends(ips)) /\ VarsFollowChannels(work, Ends(work))
    <3>1. \A p \in DOMAIN ips.map : ips.map[p].peer # NoPort
      BY <2>2 DEF ChannelInv, NetPortsDangle
    <3>2. \A p \in DOMAIN work.map : work.map[p].peer # NoPort
      BY DEF ChannelInv, NetPortsDangle
    <3>3. IsIps(ips) /\ IsIps(work) /\ Wired(ips) /\ Wired(work)
      BY DEF IInv, TypeOK, ChannelInv
    <3> QED
      BY <3>1, <3>2, <3>3, WiredVars
  <2> QED
    BY <2>1, <2>2 DEF OneVarPerChannel, Ends
<1> QED
  BY SpecIInv, InitChannels, NextChannels, <1>1, PTL DEF Spec

=============================================================================
