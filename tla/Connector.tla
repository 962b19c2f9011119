----------------------------- MODULE Connector ------------------------------
(***************************************************************************)
(* One connector as its application and its components see it: the ports,    *)
(* who owns them, the identifiers, the batches, and what a sync call does    *)
(* to them (runtime/mod.rs, setup.rs, communication.rs: the methods of       *)
(* Connector and of NonsyncProtoContext).                                    *)
(*                                                                           *)
(* A sync call works on a copy of the port information, in which components   *)
(* create channels and components; the copy replaces the original if and      *)
(* only if the round succeeds.  Which decision the round reaches is left      *)
(* open here (Rounds).                                                        *)
(***************************************************************************)
EXTENDS Naturals, FiniteSets, Sequences

CONSTANTS
    Me,           \* connector_id
    Other,        \* the id of the connectors at the far end of net channels
    NoPort,       \* peer: None
    SkipN,        \* SKIP_N of new_spec_var_stream
    MaxNative,    \* bound: port suffixes of the application's channels
    MaxNet,       \* bound: net ports
    MaxPorts,     \* bound: port suffixes
    MaxComps,     \* bound: component suffixes
    MaxBatches,   \* bound: native_batches.len()
    Uses          \* whether the instance has UDP mediators and components that
                  \* are inconsistent before their round

ASSUME IdsAssumption == Me # Other
ASSUME NoPortAssumption == NoPort \notin {Me, Other} \X Nat
ASSUME BoundsAssumption ==
    {SkipN, MaxNative, MaxNet, MaxPorts, MaxComps, MaxBatches} \subseteq Nat
ASSUME GapAssumption == SkipN % 2 = 0
ASSUME UsesAssumption == Uses \subseteq {"udp", "inconsistent"}

\* PortId and ComponentId: a connector id and a suffix.
Ids == {Me, Other} \X Nat
Native == <<Me, 0>>

PortInfo == [owner : Ids, peer : Ids \cup {NoPort}, polarity : {"Putter", "Getter"},
             route : {"Local", "Udp", "Net"}]

VARIABLES
    phase,        \* "setup", "comm", "nonsync" or "round" (the last two: in sync)
    ips,          \* cu.ips, see TypeOK
    comps,        \* the keys of cu.proto_components
    netPorts,     \* getter_for_incoming of the net_endpoint_setups
    batches,      \* comm.native_batches
    result,       \* comm.round_result
    work,         \* the clone of ips used by the current sync call
    unrun,        \* unrun_components, the one that was popped and runs first
    synced,       \* the keys of branching_proto_components
    branches      \* the surviving native branches: batch index -> batch

vars == <<phase, ips, comps, netPorts, batches, result, work, unrun, synced, branches>>
syncVars == <<work, unrun, synced, branches>>

EmptyBatch == [to_put |-> {}, to_get |-> {}]
NoIps == [map |-> <<>>, owned |-> <<>>, nextPort |-> 0, nextComp |-> 0]

IsIps(i) ==
    /\ DOMAIN i = {"map", "owned", "nextPort", "nextComp"}
    /\ DOMAIN i.map \subseteq Ids
    /\ \A p \in DOMAIN i.map : i.map[p] \in PortInfo
    /\ DOMAIN i.owned \subseteq Ids
    /\ \A c \in DOMAIN i.owned : i.owned[c] \subseteq Ids
    /\ i.nextPort \in Nat /\ i.nextComp \in Nat

Batch == [to_put : SUBSET Ids, to_get : SUBSET Ids]

TypeOK ==
    /\ phase \in {"setup", "comm", "nonsync", "round"}
    /\ IsIps(ips) /\ IsIps(work)
    /\ comps \subseteq Ids /\ netPorts \subseteq Ids
    /\ unrun \in Seq(Ids) /\ synced \subseteq Ids
    /\ phase = "setup" <=> batches = <<>>
    /\ batches \in Seq(Batch)
    /\ \A i \in DOMAIN branches : branches[i] \in Batch
    /\ result \in {"none", "ok", "failure", "inconsistent", "unrecoverable"}

\* Connector::new; the native takes the first component id.
Init ==
    /\ phase = "setup"
    /\ ips = [map |-> <<>>, owned |-> <<>>, nextPort |-> 0, nextComp |-> 1]
    /\ comps = {} /\ netPorts = {}
    /\ batches = <<>> /\ result = "none"
    /\ work = NoIps /\ unrun = <<>> /\ synced = {} /\ branches = <<>>
-----------------------------------------------------------------------------
(* Port information *)

\* map and owned after the ports of `new` (a function from ids to PortInfo)
\* were inserted and added to the set of each one's owner.
Insert(i, new) ==
    [i EXCEPT
       !.map = [p \in DOMAIN i.map \cup DOMAIN new |->
                  IF p \in DOMAIN new THEN new[p] ELSE i.map[p]],
       !.owned = [c \in DOMAIN i.owned \cup {new[p].owner : p \in DOMAIN new} |->
                    (IF c \in DOMAIN i.owned THEN i.owned[c] ELSE {})
                      \cup {p \in DOMAIN new : new[p].owner = c}]]

\* IdManager: the next k ports / components have been handed out.
TakePorts(i, k) == [i EXCEPT !.nextPort = @ + k]
TakeComp(i) == [i EXCEPT !.nextComp = @ + 1]

Port(i, k) == <<Me, i.nextPort + k>>
NewComp(i) == <<Me, i.nextComp>>

Info(o, q, pol, r) == [owner |-> o, peer |-> q, polarity |-> pol, route |-> r]

\* Mutant: both ends of the channel are putters.
WithPortPairPutters(i, owner) ==
    LET o == Port(i, 0)
        g == Port(i, 1)
    IN  TakePorts(Insert(i, [p \in {o, g} |->
                               Info(owner, IF p = o THEN g ELSE o, "Putter", "Local")]), 2)

\* new_port_pair, of Connector and of NonsyncProtoContext.
WithPortPair(i, owner) ==
    LET o == Port(i, 0)
        g == Port(i, 1)
    IN  TakePorts(Insert(i, [p \in {o, g} |->
                               IF p = o THEN Info(owner, g, "Putter", "Local")
                                        ELSE Info(owner, o, "Getter", "Local")]), 2)

\* Mutant: the old owner's set is not reduced.
WithMovedShared(i, from, ports) ==
    LET cid == NewComp(i)
    IN  TakeComp([i EXCEPT
          !.map = [p \in DOMAIN i.map |->
                     IF p \in ports THEN [i.map[p] EXCEPT !.owner = cid] ELSE i.map[p]],
          !.owned = [c \in DOMAIN i.owned \cup {cid} |-> IF c = cid THEN ports ELSE i.owned[c]]])

\* Ports move from their owner to a new component (add_component,
\* NonsyncProtoContext::new_component).
WithMoved(i, from, ports) ==
    LET cid == NewComp(i)
    IN  TakeComp([i EXCEPT
          !.map = [p \in DOMAIN i.map |->
                     IF p \in ports THEN [i.map[p] EXCEPT !.owner = cid] ELSE i.map[p]],
          !.owned = [c \in DOMAIN i.owned \cup {cid} |->
                       IF c = cid THEN ports
                       ELSE IF c = from THEN i.owned[c] \ ports ELSE i.owned[c]]])

OwnedBy(i, c) == IF c \in DOMAIN i.owned THEN i.owned[c] ELSE {}

\* PortInfoMap::spec_var_for: the getter names the channel.
SpecVarFor(i, p) == IF i.map[p].polarity = "Getter" THEN p ELSE i.map[p].peer

NativeOwns(p) == p \in DOMAIN ips.map /\ ips.map[p].owner = Native
-----------------------------------------------------------------------------
(* Setup phase, and the calls that both phases allow *)

NewPortPair ==
    /\ phase \in {"setup", "comm"}
    /\ ips.nextPort + 2 <= MaxNative
    /\ ips' = WithPortPair(ips, Native)
    /\ UNCHANGED <<phase, comps, netPorts, batches, result, syncVars>>

\* new_net_port: a dangling port; its peer becomes known in connect.
NewNetPort(polarity) ==
    /\ phase = "setup"
    /\ Cardinality(netPorts) < MaxNet
    /\ ips.nextPort + 1 <= MaxNative
    /\ LET p == Port(ips, 0) IN
         /\ ips' = TakePorts(Insert(ips, [q \in {p} |-> Info(Native, NoPort, polarity, "Local")]), 1)
         /\ netPorts' = netPorts \cup {p}
    /\ UNCHANGED <<phase, comps, batches, result, syncVars>>

\* new_udp_mediator_component, with the peers the code stores.
NewUdpMediator ==
    /\ "udp" \in Uses
    /\ phase = "setup"
    /\ ips.nextPort + 4 <= MaxPorts
    /\ ips.nextComp < MaxComps
    /\ LET nin == Port(ips, 0)  nout == Port(ips, 1)
           uin == Port(ips, 2)  uout == Port(ips, 3)
           udp == NewComp(ips)
       IN  ips' = TakeComp(TakePorts(Insert(ips, [p \in {nin, nout, uin, uout} |->
                    CASE p = nout -> Info(Native, uin, "Putter", "Local")
                      [] p = uin  -> Info(udp, uin, "Getter", "Udp")
                      [] p = uout -> Info(udp, uin, "Putter", "Udp")
                      [] OTHER    -> Info(Native, uout, "Getter", "Local")]), 4))
    /\ UNCHANGED <<phase, comps, netPorts, batches, result, syncVars>>

\* The peer a net port learns (setup_endpoints_and_pair_ports): another net port
\* of this connector, if `self` (a set of putter-getter pairs) makes them a
\* channel from the connector to itself, or a port of a remote connector ...
Looped(self) == {c[1] : c \in self} \cup {c[2] : c \in self}
PeerOf(self, p) ==
    IF p \in Looped(self)
    THEN CHOOSE q \in Looped(self) : <<p, q>> \in self \/ <<q, p>> \in self
    ELSE <<Other, p[2]>>
Paired(self) ==
    [p \in DOMAIN ips.map |->
        IF p \in netPorts THEN [ips.map[p] EXCEPT !.peer = PeerOf(self, p)] ELSE ips.map[p]]

\* ... which gets an entry of its own.
Remotes(self) ==
    [q \in {<<Other, p[2]>> : p \in netPorts \ Looped(self)} |->
        Info(<<Other, 0>>, <<Me, q[2]>>,
             IF ips.map[<<Me, q[2]>>].polarity = "Putter" THEN "Getter" ELSE "Putter", "Net")]

\* connect works on a copy, so a failed one changes nothing.
Connect ==
    /\ phase = "setup"
    /\ \E self \in SUBSET (netPorts \X netPorts) :
        /\ \A c \in self : ips.map[c[1]].polarity = "Putter" /\ ips.map[c[2]].polarity = "Getter"
        /\ \A c, d \in self : c[1] = d[1] \/ c[2] = d[2] => c = d
        /\ ips' = Insert([ips EXCEPT !.map = Paired(self)], Remotes(self))
    /\ phase' = "comm"
    /\ batches' = <<EmptyBatch>>
    /\ UNCHANGED <<comps, netPorts, result, syncVars>>

\* Mutant: the gets of moved ports stay.
WithoutPutsOf(b, ports) == [b EXCEPT !.to_put = @ \ ports]

\* add_component: the new component gets the ports, the batches lose them.
WithoutPorts(b, ports) == [to_put |-> b.to_put \ ports, to_get |-> b.to_get \ ports]

AddComponent ==
    /\ phase \in {"setup", "comm"}
    /\ ips.nextComp < MaxComps
    /\ \E ports \in SUBSET {p \in DOMAIN ips.map : NativeOwns(p)} :
        /\ ips' = WithMoved(ips, Native, ports)
        /\ batches' = [i \in DOMAIN batches |-> WithoutPorts(batches[i], ports)]
    /\ comps' = comps \cup {NewComp(ips)}
    /\ UNCHANGED <<phase, netPorts, result, syncVars>>
-----------------------------------------------------------------------------
(* Preparing batches *)

NextBatch ==
    /\ phase = "comm"
    /\ Len(batches) < MaxBatches
    /\ batches' = Append(batches, EmptyBatch)
    /\ UNCHANGED <<phase, ips, comps, netPorts, result, syncVars>>

\* put: port_op_access, and not twice in a batch.
Put(p) ==
    /\ phase = "comm"
    /\ NativeOwns(p)
    /\ ips.map[p].polarity = "Putter"
    /\ p \notin batches[Len(batches)].to_put
    /\ batches' = [batches EXCEPT ![Len(batches)].to_put = @ \cup {p}]
    /\ UNCHANGED <<phase, ips, comps, netPorts, result, syncVars>>

Get(p) ==
    /\ phase = "comm"
    /\ NativeOwns(p)
    /\ ips.map[p].polarity = "Getter"
    /\ p \notin batches[Len(batches)].to_get
    /\ batches' = [batches EXCEPT ![Len(batches)].to_get = @ \cup {p}]
    /\ UNCHANGED <<phase, ips, comps, netPorts, result, syncVars>>
-----------------------------------------------------------------------------
(* sync: the part before the sync blocks, on a copy *)

\* The components of a HashMap come in any order.
Orders(S) == {s \in [1..Cardinality(S) -> S] : \A c \in S : \E i \in DOMAIN s : s[i] = c}

\* After an unrecoverable error no further round starts.
SyncBegin ==
    /\ phase = "comm"
    /\ result # "unrecoverable"
    /\ phase' = "nonsync"
    /\ work' = ips
    /\ unrun' \in Orders(comps)
    /\ synced' = {}
    /\ branches' = <<>>
    /\ UNCHANGED <<ips, comps, netPorts, batches, result>>

\* The component that runs is the owner of what it creates.
Running == Head(unrun)

NonsyncPortPair ==
    /\ phase = "nonsync"
    /\ unrun # <<>>
    /\ work.nextPort + 2 <= MaxPorts
    /\ work' = WithPortPair(work, Running)
    /\ UNCHANGED <<phase, ips, comps, netPorts, batches, result, unrun, synced, branches>>

\* The component hands some of its ports to a new component, pushed onto the
\* stack of those still to run.
NonsyncNewComponent ==
    /\ phase = "nonsync"
    /\ unrun # <<>>
    /\ work.nextComp < MaxComps
    /\ \E ports \in SUBSET OwnedBy(work, Running) : work' = WithMoved(work, Running, ports)
    /\ unrun' = <<Running, NewComp(work)>> \o Tail(unrun)
    /\ UNCHANGED <<phase, ips, comps, netPorts, batches, result, synced, branches>>

\* ComponentExit: its ports stay behind.
NonsyncExit ==
    /\ phase = "nonsync"
    /\ unrun # <<>>
    /\ unrun' = Tail(unrun)
    /\ UNCHANGED <<phase, ips, comps, netPorts, batches, result, work, synced, branches>>

\* SyncBlockStart
NonsyncBlocked ==
    /\ phase = "nonsync"
    /\ unrun # <<>>
    /\ unrun' = Tail(unrun)
    /\ synced' = synced \cup {Running}
    /\ UNCHANGED <<phase, ips, comps, netPorts, batches, result, work, branches>>

\* Inconsistent: connected_sync returns before it touches the batches.
NonsyncInconsistent ==
    /\ "inconsistent" \in Uses
    /\ phase = "nonsync"
    /\ unrun # <<>>
    /\ phase' = "comm"
    /\ result' = "inconsistent"
    /\ work' = NoIps /\ unrun' = <<>> /\ synced' = {} /\ branches' = <<>>
    /\ UNCHANGED <<ips, comps, netPorts, batches>>
-----------------------------------------------------------------------------
(* sync: the round *)

\* Both ends of a channel are the native's and only one of them fires: such a
\* batch is "internally inconsistent" and skipped.
Contradictory(b) ==
    LET firing == b.to_put \cup b.to_get
    IN  \E f \in firing, p \in OwnedBy(ips, Native) \ firing :
            SpecVarFor(ips, f) = SpecVarFor(ips, p)

\* The batches become branches and are reset to a single empty one.
BeginRound ==
    /\ phase = "nonsync"
    /\ unrun = <<>>
    /\ phase' = "round"
    /\ branches' = [i \in {k \in DOMAIN batches : ~Contradictory(batches[k])} |-> batches[i]]
    /\ batches' = <<EmptyBatch>>
    /\ UNCHANGED <<ips, comps, netPorts, result, work, unrun, synced>>

EndSync(res) ==
    /\ phase = "round"
    /\ phase' = "comm"
    /\ result' = res
    /\ work' = NoIps /\ unrun' = <<>> /\ synced' = {} /\ branches' = <<>>
    /\ UNCHANGED <<netPorts, batches>>

\* Decision::Success selects a native branch: the copy is committed.
Commit ==
    /\ DOMAIN branches # {}
    /\ EndSync("ok")
    /\ ips' = work
    /\ comps' = synced

\* Mutant: the ports are kept although the round failed.
RollbackKeepsPorts(res) ==
    /\ EndSync(res)
    /\ ips' = work
    /\ UNCHANGED comps

\* Decision::Failure, or an unrecoverable error: the copy is dropped.
Rollback(res) ==
    /\ EndSync(res)
    /\ UNCHANGED <<ips, comps>>

Next ==
    \/ NewPortPair
    \/ \E pol \in {"Putter", "Getter"} : NewNetPort(pol)
    \/ NewUdpMediator
    \/ Connect
    \/ AddComponent
    \/ NextBatch
    \/ \E p \in DOMAIN ips.map : Put(p) \/ Get(p)
    \/ SyncBegin
    \/ NonsyncPortPair
    \/ NonsyncNewComponent
    \/ NonsyncExit
    \/ NonsyncBlocked
    \/ NonsyncInconsistent
    \/ BeginRound
    \/ Commit
    \/ \E res \in {"failure", "unrecoverable"} : Rollback(res)

Spec == Init /\ [][Next]_vars
-----------------------------------------------------------------------------
(* Properties *)

\* PortInfoMap::invariant_preserved: a port is in the owned set of its owner,
\* and of nobody else.
InvariantPreserved(i) ==
    /\ \A p \in DOMAIN i.map : i.map[p].owner \in DOMAIN i.owned /\ p \in i.owned[i.map[p].owner]
    /\ \A c \in DOMAIN i.owned : \A p \in i.owned[c] : p \in DOMAIN i.map /\ i.map[p].owner = c

\* The maps map and owned agree, in the connector and in the copy a sync call
\* works on, whatever is created, moved, committed or rolled back.
OwnershipAgrees == InvariantPreserved(ips) /\ InvariantPreserved(work)

\* add_component: "Preserve invariant: batches only reason about native's
\* ports", with the polarity the operation needs.
BatchesNative ==
    /\ \A i \in DOMAIN batches :
         /\ \A p \in batches[i].to_put : NativeOwns(p) /\ ips.map[p].polarity = "Putter"
         /\ \A p \in batches[i].to_get : NativeOwns(p) /\ ips.map[p].polarity = "Getter"
    /\ \A i \in DOMAIN branches :
         \A p \in branches[i].to_put \cup branches[i].to_get : NativeOwns(p)

\* Two of the ports share a speculative variable iff they are each other's peers.
VarsFollowChannels(i, ports) ==
    \A p, q \in ports : p # q =>
        (SpecVarFor(i, p) = SpecVarFor(i, q) <=> i.map[p].peer = q /\ i.map[q].peer = p)

\* new_spec_var_stream, "Spec var stream starts where the current port_id stream
\* ends, with gap of SKIP_N": the stream forks off the id manager of cu, while
\* components went on creating ports in the copy, so the variable that tells the
\* native's branches apart may have the id of a port.  It is never the variable
\* of a channel, because it falls on putters (the gap is even).
NativeVarFresh ==
    phase = "round" =>
        <<Me, ips.nextPort + SkipN>> \notin {SpecVarFor(work, p) : p \in DOMAIN work.map}

\* spec_var_for, "Two distinct ports map to the same variable IFF they are two
\* ends of the same logical channel" (and no peer is missing once connected),
\* for the ports of the native and the components, here and at remote connectors;
\* and the variable that numbers the native's branches is none of them.
OneVarPerChannel ==
    /\ NativeVarFresh
    /\ phase # "setup" =>
        \A i \in {ips, work} :
            VarsFollowChannels(i, {p \in DOMAIN i.map : i.map[p].route # "Udp"})

\* The same for every port, as the comment says.
OneVarPerChannelOfAll ==
    phase # "setup" => \A i \in {ips, work} : VarsFollowChannels(i, DOMAIN i.map)

\* connected_sync, "Modifies components and ports in `cu` IFF the round
\* succeeds"; and even then the native keeps exactly its ports.
CommitsOnlySuccess ==
    phase \in {"nonsync", "round"} =>
        /\ <<ips, comps>>' # <<ips, comps>> => phase' = "comm" /\ result' = "ok"
        /\ OwnedBy(ips', Native) = OwnedBy(ips, Native)

SyncIsAtomic == [][CommitsOnlySuccess]_vars

\* sync, "At the end of the procedure, the synchronous batches will be reset to
\* a singleton set, whose only element is selected, and empty".
SyncResetsBatches ==
    [][phase' = "comm" /\ phase \in {"nonsync", "round"} => batches' = <<EmptyBatch>>]_vars
=============================================================================
