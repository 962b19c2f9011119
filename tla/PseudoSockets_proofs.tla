------------------------ MODULE PseudoSockets_proofs ------------------------
(***************************************************************************)
(* Descriptors are accounted for and the two phases of a connector move       *)
(* together for every number of threads, descriptors and addresses, whatever  *)
(* calls panic.                                                              *)
(***************************************************************************)
EXTENDS PseudoSockets, FiniteSetTheorems, SequenceTheorems, TLAPS

OpenFds == {fd \in Fds : fd_to_cc[fd].open}

\* The allocator knows every descriptor that was ever handed out: it is open or
\* in the list of freed ones, where it is once.
Partition ==
    /\ IsInjective(allocator.freed)
    /\ Range(allocator.freed) \cap OpenFds = {}
    /\ Range(allocator.freed) \cup OpenFds = 0..(allocator.next - 1)

\* A call past the reader lock holds it, and its descriptor is open; a call that
\* works on a connector holds its mutex.
LocksHeld ==
    ~aborted => \A t \in Threads :
        /\ call[t].pc \in {"lock", "hold"} => t \in readers /\ Cc(t).open
        /\ call[t].pc = "hold" => mutex[Fd(t)] = t

\* Two threads never work on the same connector.
OneCallPerConnector ==
    \A t, u \in Threads : At(t, "hold") /\ At(u, "hold") /\ Fd(t) = Fd(u) => t = u

IInv == TypeOK /\ Partition /\ LocksHeld /\ Lockstep

-----------------------------------------------------------------------------
(* Descriptors and connectors *)

\* As many descriptors are freed as the list is long.
LEMMA InjectiveCardinality ==
    ASSUME NEW S, NEW s \in Seq(S), IsInjective(s)
    PROVE  Cardinality(Range(s)) = Len(s)
<1>1. s \in [1..Len(s) -> S] /\ DOMAIN s = 1..Len(s) /\ Len(s) \in Nat
  BY LenProperties
<1>2. s \in Bijection(1..Len(s), Range(s))
  <2>1. Range(s) = {s[i] : i \in 1..Len(s)} /\ s \in [1..Len(s) -> Range(s)]
    BY <1>1 DEF Range
  <2>2. s \in Injection(1..Len(s), Range(s))
    BY <1>1, <2>1 DEF Injection, IsInjective
  <2>3. s \in Surjection(1..Len(s), Range(s))
    BY <1>1, <2>1 DEF Surjection
  <2> QED
    BY <2>2, <2>3 DEF Bijection
<1>3. ExistsBijection(1..Len(s), Range(s))
  BY <1>2 DEF ExistsBijection
<1> QED
  BY <1>1, <1>3, FS_CountingElements

LEMMA PartitionAccounts ==
    ASSUME IInv
    PROVE  FdsAccounted
<1>1. Cardinality(Range(allocator.freed)) = Len(allocator.freed)
  BY InjectiveCardinality DEF IInv, TypeOK, Partition
<1>2. \A t \in Threads : ~aborted /\ call[t].pc \in {"lock", "hold"} => Cc(t).open
  BY DEF IInv, LocksHeld
<1> QED
  BY <1>1, <1>2 DEF FdsAccounted, IInv, Partition, Range, OpenFds

\* FdAllocator::free: the descriptor is the last of the list.
LEMMA AppendFreed ==
    ASSUME NEW s \in Seq(Fds), IsInjective(s), NEW fd \in Fds, fd \notin Range(s)
    PROVE  /\ Append(s, fd) \in Seq(Fds)
           /\ IsInjective(Append(s, fd))
           /\ Range(Append(s, fd)) = Range(s) \cup {fd}
<1> DEFINE a == Append(s, fd)
<1>1. /\ a \in Seq(Fds) /\ Len(a) = Len(s) + 1
      /\ \A i \in 1..Len(s) : a[i] = s[i]
      /\ a[Len(s) + 1] = fd
  BY AppendProperties
<1>2. DOMAIN s = 1..Len(s) /\ DOMAIN a = 1..(Len(s) + 1) /\ Len(s) \in Nat
  BY <1>1, LenProperties
<1> HIDE DEF a
<1>3. \A i \in 1..Len(s) : s[i] # fd
  BY <1>2 DEF Range
<1>4. IsInjective(a)
  BY <1>1, <1>2, <1>3 DEF IsInjective
<1>5. Range(a) = Range(s) \cup {fd}
  BY <1>1, <1>2 DEF Range
<1> QED
  BY <1>1, <1>4, <1>5 DEF a

\* FdAllocator::alloc takes the last one of the list.
LEMMA RemoveLast ==
    ASSUME NEW s \in Seq(Fds), IsInjective(s), s # <<>>
    PROVE  /\ SubSeq(s, 1, Len(s) - 1) \in Seq(Fds)
           /\ IsInjective(SubSeq(s, 1, Len(s) - 1))
           /\ s[Len(s)] \in Range(s)
           /\ Range(SubSeq(s, 1, Len(s) - 1)) = Range(s) \ {s[Len(s)]}
<1> DEFINE n == Len(s)
           f == SubSeq(s, 1, n - 1)
<1>1. n \in Nat /\ n > 0 /\ DOMAIN s = 1..n /\ \A i \in 1..n : s[i] \in Fds
  BY LenProperties, EmptySeq, ElementOfSeq
<1>2. /\ f \in Seq(Fds) /\ Len(f) = n - 1
      /\ \A i \in 1..(n - 1) : f[i] = s[i]
  BY <1>1, SubSeqProperties
<1>3. DOMAIN f = 1..(n - 1)
  BY <1>2, LenProperties
<1> HIDE DEF n, f
<1>4. IsInjective(f)
  BY <1>1, <1>2, <1>3 DEF IsInjective
<1>5. s[n] \in Range(s)
  BY <1>1 DEF Range
<1>6. Range(f) = Range(s) \ {s[n]}
  <2>1. \A i \in 1..n : s[i] = s[n] => i = n
    BY <1>1 DEF IsInjective
  <2> QED
    BY <1>1, <1>2, <1>3, <2>1 DEF Range
<1> QED
  BY <1>2, <1>4, <1>5, <1>6 DEF n, f

\* A descriptor is open exactly if it has a connector.
LEMMA OpenHasConnector ==
    ASSUME NEW cc \in ConnectorComplex \cup {Closed}
    PROVE  /\ cc.open \in BOOLEAN
           /\ cc.open <=> cc \in ConnectorComplex
           /\ cc.open <=> cc # Closed
<1>1. ASSUME cc \in ConnectorComplex
      PROVE  cc.open = TRUE
  BY <1>1 DEF ConnectorComplex
<1>2. Closed.open = FALSE
  BY DEF Closed
<1> QED
  BY <1>1, <1>2

-----------------------------------------------------------------------------
(* What the calls do to connectors *)

\* Kept(cc, new): new is the same connector in a state it may be in.
Kept(cc, new) ==
    /\ new \in ConnectorComplex
    /\ cc.phased = cc.connector => new.phased = new.connector

LEMMA PoisonedKept ==
    ASSUME NEW cc \in ConnectorComplex
    PROVE  Kept(cc, [cc EXCEPT !.poisoned = TRUE])
BY DEF Kept, ConnectorComplex

LEMMA NamedKept ==
    ASSUME NEW cc \in ConnectorComplex, NEW c \in ReaderOps, c.op \in {"bind", "connect"}
    PROVE  Kept(cc, Connected(WithAddr(cc, c)))
<1>1. c.addr \in Addrs \cup {NoAddr}
  BY DEF ReaderOps
<1>2. /\ WithAddr(cc, c) \in ConnectorComplex
      /\ WithAddr(cc, c).phased = cc.phased
      /\ WithAddr(cc, c).connector = cc.connector
  BY <1>1 DEF WithAddr, ConnectorComplex
<1>3. ASSUME NEW d \in ConnectorComplex
      PROVE  Kept(d, Connected(d))
  BY DEF Kept, Connected, ConnectorComplex
<1> QED
  BY <1>2, <1>3 DEF Kept

LEMMA EndpointKept ==
    ASSUME NEW cc \in ConnectorComplex, NEW e \in UdpEndpointExt({"datagram"}, MaxArrived)
    PROVE  Kept(cc, [cc EXCEPT !.ee = e])
BY DEF Kept, ConnectorComplex

LEMMA EndpointOf ==
    ASSUME NEW cc \in ConnectorComplex
    PROVE  cc.ee \in UdpEndpointExt({"datagram"}, MaxArrived)
BY DEF ConnectorComplex

LEMMA ArrivedType ==
    ASSUME NEW e \in UdpEndpointExt({"datagram"}, MaxArrived), e.arrived < MaxArrived
    PROVE  Arrived(e) \in UdpEndpointExt({"datagram"}, MaxArrived)
BY BoundsAssumption DEF Arrived, UdpEndpointExt

LEMMA SentType ==
    ASSUME NEW e \in UdpEndpointExt({"datagram"}, MaxArrived)
    PROVE  Committed(Outgoing(e, SendPredicate, "datagram"))
              \in UdpEndpointExt({"datagram"}, MaxArrived)
<1>1. SendPredicate \in Predicate
  BY VarsAssumption DEF SendPredicate, Predicate
<1>2. Outgoing(e, SendPredicate, "datagram") \in UdpEndpointExt({"datagram"}, MaxArrived)
  BY <1>1 DEF Outgoing, UdpEndpointExt
<1>3. ASSUME NEW f \in UdpEndpointExt({"datagram"}, MaxArrived)
      PROVE  Committed(f) \in UdpEndpointExt({"datagram"}, MaxArrived)
  BY DEF Committed, UdpEndpointExt
<1> QED
  BY <1>2, <1>3

LEMMA ReceivedType ==
    ASSUME NEW e \in UdpEndpointExt({"datagram"}, MaxArrived)
    PROVE  Committed(Drained(e)) \in UdpEndpointExt({"datagram"}, MaxArrived)
<1>1. 0 \in 0..MaxArrived
  BY BoundsAssumption
<1>2. Committed(Drained(e)) = [e EXCEPT !.outgoing_payloads = {}, !.arrived = 0,
                                        !.received_this_round = FALSE]
  BY DEF Committed, Drained, UdpEndpointExt
<1> QED
  BY <1>1, <1>2 DEF UdpEndpointExt

\* A step that keeps every connector and leaves the allocator alone keeps the
\* descriptors accounted for.
ConnectorsKept ==
    /\ fd_to_cc' \in [Fds -> ConnectorComplex \cup {Closed}]
    /\ \A fd \in Fds : fd_to_cc'[fd].open <=> fd_to_cc[fd].open
    /\ Lockstep'
    /\ UNCHANGED allocator

LEMMA PartitionKept ==
    ASSUME IInv, ConnectorsKept
    PROVE  Partition'
<1>1. OpenFds' = OpenFds
  BY DEF ConnectorsKept, OpenFds
<1> QED
  BY <1>1 DEF Partition, IInv, ConnectorsKept

\* One connector changes.
LEMMA OneConnectorKept ==
    ASSUME IInv, NEW fd \in Fds, fd_to_cc[fd].open, NEW new, Kept(fd_to_cc[fd], new),
           fd_to_cc' = [fd_to_cc EXCEPT ![fd] = new], UNCHANGED allocator
    PROVE  ConnectorsKept
<1>1. fd_to_cc \in [Fds -> ConnectorComplex \cup {Closed}]
  BY DEF IInv, TypeOK
<1>2. new \in ConnectorComplex /\ new.open
  BY OpenHasConnector DEF Kept
<1>3. new.phased = new.connector
  BY DEF Kept, IInv, Lockstep
<1>4. fd_to_cc'[fd] = new /\ \A g \in Fds : g # fd => fd_to_cc'[g] = fd_to_cc[g]
  BY <1>1
<1> QED
  BY <1>1, <1>2, <1>3, <1>4 DEF ConnectorsKept, IInv, Lockstep

LEMMA NoConnectorChanges ==
    ASSUME IInv, UNCHANGED <<fd_to_cc, allocator>>
    PROVE  ConnectorsKept
BY DEF ConnectorsKept, IInv, TypeOK, Lockstep

-----------------------------------------------------------------------------
(* Calls *)

LEMMA CallTypes ==
    ASSUME TypeOK, NEW t \in Threads
    PROVE  /\ call[t].pc = "write" => call[t].req \in WriterOps
           /\ call[t].pc = "write" /\ Op(t) = "close" => Fd(t) \in Fds
           /\ call[t].pc \in {"read", "lock", "hold"} =>
                call[t].req \in ReaderOps /\ Fd(t) \in Fds
<1>1. call[t] \in Calls
  BY DEF TypeOK
<1>2. ASSUME call[t].pc = "write"
      PROVE  call[t].req \in WriterOps
  BY <1>1, <1>2 DEF Calls, Idle
<1>3. ASSUME call[t].pc \in {"read", "lock", "hold"}
      PROVE  call[t].req \in ReaderOps
  BY <1>1, <1>3 DEF Calls, Idle
<1>4. \A c \in WriterOps : c.op = "close" => c.fd \in Fds
  BY DEF WriterOps
<1>5. \A c \in ReaderOps : c.fd \in Fds
  BY DEF ReaderOps
<1> QED
  BY <1>2, <1>3, <1>4, <1>5 DEF Op, Fd

\* The program counter of a call after an assignment to it.
LEMMA CallBecomes ==
    ASSUME TypeOK, NEW t \in Threads, NEW c \in Calls, call' = [call EXCEPT ![t] = c]
    PROVE  /\ call' \in [Threads -> Calls]
           /\ call'[t] = c
           /\ \A u \in Threads : u # t => call'[u] = call[u]
BY DEF TypeOK

LEMMA GotoBecomes ==
    ASSUME TypeOK, NEW t \in Threads, call[t].pc \in {"read", "lock"},
           NEW pc \in {"lock", "hold"}, Goto(t, pc)
    PROVE  /\ call' \in [Threads -> Calls]
           /\ call'[t].pc = pc /\ call'[t].req = call[t].req
           /\ \A u \in Threads : u # t => call'[u] = call[u]
<1> DEFINE c == [pc |-> pc, req |-> call[t].req]
<1>1. call[t] \in [pc : {"read", "lock", "hold"}, req : ReaderOps]
  BY DEF TypeOK, Calls, Idle
<1>2. c \in Calls
  BY <1>1 DEF Calls
<1>3. [call[t] EXCEPT !.pc = pc] = c
  BY <1>1
<1>4. call' = [call EXCEPT ![t] = c]
  BY <1>3 DEF Goto
<1> QED
  BY <1>2, <1>4, CallBecomes

LEMMA IdleIsCall == Idle \in Calls /\ Idle.pc = "idle"
BY DEF Calls, Idle

\* A call that is over leaves the locks of the others as they were.
LEMMA LocksKept ==
    ASSUME IInv, NEW t \in Threads, call'[t].pc \notin {"lock", "hold"},
           \A u \in Threads : u # t => call'[u] = call[u],
           \A u \in readers : u # t => u \in readers',
           \A fd \in Fds : fd_to_cc[fd].open => fd_to_cc'[fd].open \/ readers = {},
           \A u \in Threads, fd \in Fds : u # t /\ mutex[fd] = u => mutex'[fd] = u,
           aborted' \/ ~aborted
    PROVE  LocksHeld'
<1> SUFFICES ASSUME ~aborted', NEW u \in Threads
             PROVE  /\ call'[u].pc \in {"lock", "hold"} => u \in readers' /\ Cc(u)'.open
                    /\ call'[u].pc = "hold" => mutex'[Fd(u)'] = u
  BY DEF LocksHeld
<1>1. CASE u = t
  BY <1>1
<1>2. CASE u # t
  <2>1. call'[u] = call[u]
    BY <1>2
  <2>2. call[u].pc \in {"lock", "hold"} => Fd(u) \in Fds /\ u \in readers /\ Cc(u).open
    BY CallTypes DEF IInv, LocksHeld
  <2>3. call[u].pc = "hold" => mutex[Fd(u)] = u
    BY DEF IInv, LocksHeld
  <2>4. Fd(u)' = Fd(u)
    BY <2>1 DEF Fd
  <2> QED
    BY <1>2, <2>1, <2>2, <2>3, <2>4 DEF Cc
<1> QED
  BY <1>1, <1>2

LEMMA ReturnIInv ==
    ASSUME IInv, NEW t \in Threads, ~aborted, Return(t), ConnectorsKept
    PROVE  IInv'
<1> USE DEF Return
<1>1. /\ call' \in [Threads -> Calls] /\ call'[t] = Idle
      /\ \A u \in Threads : u # t => call'[u] = call[u]
  BY CallBecomes, IdleIsCall DEF IInv
<1>2. /\ mutex' \in [Fds -> Threads \cup {NoThread}]
      /\ \A u \in Threads, fd \in Fds : u # t /\ mutex[fd] = u => mutex'[fd] = u
  BY DEF IInv, TypeOK
<1>3. TypeOK'
  BY <1>1, <1>2 DEF IInv, TypeOK, ConnectorsKept
<1>4. LocksHeld'
  BY <1>1, <1>2, IdleIsCall, LocksKept DEF ConnectorsKept
<1> QED
  BY <1>3, <1>4, PartitionKept DEF IInv, ConnectorsKept

LEMMA PanicIInv ==
    ASSUME IInv, NEW t \in Threads, At(t, "hold"), Panic(t)
    PROVE  IInv'
<1> USE DEF Panic
<1>1. Fd(t) \in Fds /\ Cc(t).open /\ mutex[Fd(t)] = t /\ ~aborted
  BY CallTypes DEF IInv, At, LocksHeld
<1>2. ConnectorsKept
  <2>1. Kept(Cc(t), [Cc(t) EXCEPT !.poisoned = TRUE])
    BY <1>1, OpenHasConnector, PoisonedKept DEF IInv, TypeOK, Cc
  <2>2. fd_to_cc' = [fd_to_cc EXCEPT ![Fd(t)] = [Cc(t) EXCEPT !.poisoned = TRUE]]
    BY DEF Cc
  <2> QED
    BY <1>1, <2>1, <2>2, OneConnectorKept DEF Cc
<1>3. /\ call' \in [Threads -> Calls] /\ call'[t] = Idle
      /\ \A u \in Threads : u # t => call'[u] = call[u]
  BY CallBecomes, IdleIsCall DEF IInv
<1>4. /\ mutex' \in [Fds -> Threads \cup {NoThread}]
      /\ \A u \in Threads, fd \in Fds : u # t /\ mutex[fd] = u => mutex'[fd] = u
  BY <1>1 DEF IInv, TypeOK
<1>5. TypeOK'
  BY <1>2, <1>3, <1>4 DEF IInv, TypeOK, ConnectorsKept
<1>6. LocksHeld'
  BY <1>1, <1>2, <1>3, <1>4, IdleIsCall, LocksKept DEF ConnectorsKept
<1> QED
  BY <1>2, <1>5, <1>6, PartitionKept DEF IInv, ConnectorsKept

\* A step that only changes the call of t, which is not past the reader lock.
LEMMA CallOnlyIInv ==
    ASSUME IInv, NEW t \in Threads, NEW c \in Calls, c.pc \notin {"lock", "hold"},
           call' = [call EXCEPT ![t] = c],
           UNCHANGED <<allocator, fd_to_cc, mutex, readers>>,
           poisoned' \in BOOLEAN, aborted' \in BOOLEAN, ~aborted
    PROVE  IInv'
<1>1. /\ call' \in [Threads -> Calls] /\ call'[t] = c
      /\ \A u \in Threads : u # t => call'[u] = call[u]
  BY CallBecomes DEF IInv
<1>2. TypeOK'
  BY <1>1 DEF IInv, TypeOK
<1>3. ConnectorsKept
  BY NoConnectorChanges
<1>4. LocksHeld'
  BY <1>1, LocksKept
<1> QED
  BY <1>2, <1>3, <1>4, PartitionKept DEF IInv, ConnectorsKept

-----------------------------------------------------------------------------
(* The invariant is inductive *)

LEMMA InitIInv == Init => IInv
<1> SUFFICES ASSUME Init PROVE IInv
  OBVIOUS
<1> USE DEF Init
<1>1. TypeOK
  <2>1. allocator \in [next : 0..(MaxFd + 1), freed : Seq(Fds)]
    BY BoundsAssumption, EmptySeq
  <2> QED
    BY <2>1, IdleIsCall DEF TypeOK
<1>2. OpenFds = {}
  BY DEF OpenFds, Closed
<1>3. Partition
  BY <1>2 DEF Partition, IsInjective, Range
<1>4. LocksHeld
  BY IdleIsCall DEF LocksHeld
<1>5. Lockstep
  BY DEF Lockstep, Closed
<1> QED
  BY <1>1, <1>3, <1>4, <1>5 DEF IInv

LEMMA CallWriterIInv ==
    ASSUME IInv, NEW t \in Threads, NEW c \in WriterOps, CallWriter(t, c)
    PROVE  IInv'
<1>1. [pc |-> "write", req |-> c] \in Calls
  BY DEF Calls
<1> QED
  BY <1>1, CallOnlyIInv DEF CallWriter, At, IInv, TypeOK

LEMMA CallReaderIInv ==
    ASSUME IInv, NEW t \in Threads, NEW c \in ReaderOps, CallReader(t, c)
    PROVE  IInv'
<1> DEFINE new == IF c.op \in {"bind", "connect"} /\ c.addr = NoAddr
                  THEN Idle ELSE [pc |-> "read", req |-> c]
<1>1. new \in Calls /\ new.pc \notin {"lock", "hold"}
  BY IdleIsCall DEF Calls
<1>2. call' = [call EXCEPT ![t] = new]
  BY DEF CallReader
<1> HIDE DEF new
<1> QED
  BY <1>1, <1>2, CallOnlyIInv DEF CallReader, At, IInv, TypeOK

\* FdAllocator::alloc hands out a descriptor that is not open.
LEMMA AllocFresh ==
    ASSUME IInv, CanAlloc
    PROVE  /\ Alloc.fd \in Fds \ OpenFds
           /\ Alloc.rest \in [next : 0..(MaxFd + 1), freed : Seq(Fds)]
           /\ IsInjective(Alloc.rest.freed)
           /\ Alloc.fd \notin Range(Alloc.rest.freed)
           /\ Range(Alloc.rest.freed) \cup OpenFds \cup {Alloc.fd} = 0..(Alloc.rest.next - 1)
           /\ Range(Alloc.rest.freed) \cap OpenFds = {}
<1> DEFINE s == allocator.freed
<1>1. s \in Seq(Fds) /\ allocator.next \in 0..(MaxFd + 1)
  BY DEF IInv, TypeOK
<1>2. /\ IsInjective(s) /\ Range(s) \cap OpenFds = {}
      /\ Range(s) \cup OpenFds = 0..(allocator.next - 1)
  BY DEF IInv, Partition
<1>3. CASE s # <<>>
  <2>1. /\ Alloc.fd = s[Len(s)]
        /\ Alloc.rest.next = allocator.next
        /\ Alloc.rest.freed = SubSeq(s, 1, Len(s) - 1)
        /\ Alloc.rest \in [next : 0..(MaxFd + 1), freed : Seq(Fds)]
    <3>1. SubSeq(s, 1, Len(s) - 1) \in Seq(Fds)
      BY <1>1, <1>2, <1>3, RemoveLast
    <3> QED
      BY <1>3, <3>1 DEF Alloc, IInv, TypeOK
  <2>2. /\ IsInjective(SubSeq(s, 1, Len(s) - 1))
        /\ s[Len(s)] \in Range(s)
        /\ Range(SubSeq(s, 1, Len(s) - 1)) = Range(s) \ {s[Len(s)]}
    BY <1>1, <1>2, <1>3, RemoveLast
  <2>3. 0..(allocator.next - 1) \subseteq Fds
    BY <1>1, BoundsAssumption DEF Fds
  <2> HIDE DEF s
  <2> QED
    BY <1>2, <2>1, <2>2, <2>3
<1>4. CASE s = <<>>
  <2>1. allocator.next <= MaxFd
    BY <1>4 DEF CanAlloc
  <2>2. /\ Alloc.fd = allocator.next
        /\ Alloc.rest.next = allocator.next + 1
        /\ Alloc.rest.freed = s
        /\ Alloc.rest \in [next : 0..(MaxFd + 1), freed : Seq(Fds)]
    <3>1. allocator.next + 1 \in 0..(MaxFd + 1)
      BY <1>1, <2>1, BoundsAssumption
    <3> QED
      BY <1>4, <3>1 DEF Alloc, IInv, TypeOK
  <2>3. allocator.next \in Fds /\ allocator.next \notin 0..(allocator.next - 1)
    BY <1>1, <2>1, BoundsAssumption DEF Fds
  <2>4. 0..(allocator.next - 1) \cup {allocator.next} = 0..(allocator.next + 1 - 1)
    BY <1>1
  <2> HIDE DEF s
  <2> QED
    BY <1>2, <2>2, <2>3, <2>4
<1> QED
  BY <1>3, <1>4

LEMMA SocketIInv ==
    ASSUME IInv, NEW t \in Threads, Socket(t)
    PROVE  IInv'
<1> USE DEF Socket
<1>1. /\ call' \in [Threads -> Calls] /\ call'[t] = Idle
      /\ \A u \in Threads : u # t => call'[u] = call[u]
  BY CallBecomes, IdleIsCall DEF IInv
<1>2. NewComplex \in ConnectorComplex /\ NewComplex.phased = NewComplex.connector
  BY BoundsAssumption DEF NewComplex, ConnectorComplex, NewEndpoint, UdpEndpointExt
<1> DEFINE fd == Alloc.fd
<1>3. fd \in Fds \ OpenFds
  BY AllocFresh
<1>4. /\ fd_to_cc' \in [Fds -> ConnectorComplex \cup {Closed}]
      /\ fd_to_cc'[fd] = NewComplex
      /\ \A g \in Fds : g # fd => fd_to_cc'[g] = fd_to_cc[g]
  BY <1>2, <1>3 DEF IInv, TypeOK
<1> HIDE DEF fd
<1>5. NewComplex.open
  BY <1>2, OpenHasConnector
<1>6. OpenFds' = OpenFds \cup {fd}
  BY <1>3, <1>4, <1>5 DEF OpenFds
<1>7. TypeOK'
  BY <1>1, <1>4, AllocFresh DEF IInv, TypeOK
<1>8. Partition'
  BY <1>3, <1>6, AllocFresh DEF Partition, fd
<1>9. LocksHeld'
  <2>1. \A g \in Fds : fd_to_cc[g].open => fd_to_cc'[g].open
    BY <1>4, <1>5
  <2> QED
    BY <1>1, <2>1, IdleIsCall, LocksKept DEF At
<1>10. Lockstep'
  BY <1>2, <1>4 DEF IInv, Lockstep
<1> QED
  BY <1>7, <1>8, <1>9, <1>10 DEF IInv

LEMMA CloseIInv ==
    ASSUME IInv, NEW t \in Threads, Close(t)
    PROVE  IInv'
<1> USE DEF Close
<1>1. /\ call' \in [Threads -> Calls] /\ call'[t] = Idle
      /\ \A u \in Threads : u # t => call'[u] = call[u]
  BY CallBecomes, IdleIsCall DEF IInv
<1> DEFINE fd == Fd(t)
<1>2. fd \in Fds
  BY CallTypes DEF IInv, At
<1>3. /\ fd_to_cc' \in [Fds -> ConnectorComplex \cup {Closed}]
      /\ fd_to_cc'[fd] = Closed
      /\ \A g \in Fds : g # fd => fd_to_cc'[g] = fd_to_cc[g]
  BY <1>2 DEF IInv, TypeOK
<1>4. ~Closed.open
  BY DEF Closed
<1>5. OpenFds' = OpenFds \ {fd}
  BY <1>2, <1>3, <1>4 DEF OpenFds
<1>6. allocator \in [next : 0..(MaxFd + 1), freed : Seq(Fds)]
  BY DEF IInv, TypeOK
<1>7. allocator' \in [next : 0..(MaxFd + 1), freed : Seq(Fds)] /\ Partition'
  <2>1. CASE Cc(t) = Closed
    <3>1. fd \notin OpenFds
      BY <1>4, <2>1 DEF OpenFds, Cc
    <3>2. OpenFds' = OpenFds
      BY <1>5, <3>1
    <3>3. allocator' = allocator
      BY <2>1
    <3> QED
      BY <1>6, <3>2, <3>3 DEF IInv, Partition
  <2>2. CASE Cc(t) # Closed
    <3>1. fd \in OpenFds
      BY <1>2, <2>2, OpenHasConnector DEF IInv, TypeOK, OpenFds, Cc
    <3>2. /\ Append(allocator.freed, fd) \in Seq(Fds)
          /\ IsInjective(Append(allocator.freed, fd))
          /\ Range(Append(allocator.freed, fd)) = Range(allocator.freed) \cup {fd}
      BY <1>2, <1>6, <3>1, AppendFreed DEF IInv, Partition
    <3>3. /\ allocator'.next = allocator.next
          /\ allocator'.freed = Append(allocator.freed, fd)
          /\ allocator' \in [next : 0..(MaxFd + 1), freed : Seq(Fds)]
      BY <1>6, <2>2, <3>2
    <3> QED
      BY <1>5, <3>1, <3>2, <3>3 DEF IInv, Partition
  <2> QED
    BY <2>1, <2>2
<1>8. TypeOK'
  BY <1>1, <1>3, <1>7 DEF IInv, TypeOK
<1>9. LocksHeld'
  BY <1>1, IdleIsCall, LocksKept DEF At, WriterLock
<1>10. Lockstep'
  BY <1>3, <1>4 DEF IInv, Lockstep
<1> QED
  BY <1>7, <1>8, <1>9, <1>10 DEF IInv

LEMMA ReaderLockIInv ==
    ASSUME IInv, NEW t \in Threads, ReaderLock(t)
    PROVE  IInv'
<1> USE DEF ReaderLock, At
<1>1. CASE poisoned \/ Cc(t) = Closed
  <2>1. Return(t) /\ UNCHANGED fd_to_cc
    BY <1>1
  <2> QED
    BY <2>1, ReturnIInv, NoConnectorChanges DEF Return
<1>2. CASE ~(poisoned \/ Cc(t) = Closed)
  <2>1. /\ call' \in [Threads -> Calls]
        /\ call'[t].pc = "lock" /\ call'[t].req = call[t].req
        /\ \A u \in Threads : u # t => call'[u] = call[u]
    BY <1>2, GotoBecomes DEF IInv
  <2>2. Fd(t) \in Fds /\ Cc(t).open
    BY <1>2, CallTypes, OpenHasConnector DEF IInv, TypeOK, Cc
  <2>3. TypeOK'
    BY <1>2, <2>1 DEF IInv, TypeOK
  <2>4. LocksHeld'
    BY <1>2, <2>1, <2>2 DEF IInv, LocksHeld, Cc, Fd
  <2> QED
    BY <1>2, <2>3, <2>4, PartitionKept, NoConnectorChanges DEF IInv, ConnectorsKept
<1> QED
  BY <1>1, <1>2

LEMMA InnerLockIInv ==
    ASSUME IInv, NEW t \in Threads, InnerLock(t)
    PROVE  IInv'
<1> USE DEF InnerLock, At
<1>1. CASE Cc(t).poisoned
  <2>1. Return(t) /\ UNCHANGED fd_to_cc
    BY <1>1
  <2> QED
    BY <2>1, ReturnIInv, NoConnectorChanges DEF Return
<1>2. CASE ~Cc(t).poisoned
  <2>1. /\ call' \in [Threads -> Calls]
        /\ call'[t].pc = "hold" /\ call'[t].req = call[t].req
        /\ \A u \in Threads : u # t => call'[u] = call[u]
    BY <1>2, GotoBecomes DEF IInv
  <2>2. Fd(t) \in Fds /\ Cc(t).open /\ t \in readers
    BY CallTypes DEF IInv, LocksHeld
  <2>3. /\ mutex' \in [Fds -> Threads \cup {NoThread}] /\ mutex'[Fd(t)] = t
        /\ \A fd \in Fds : fd # Fd(t) => mutex'[fd] = mutex[fd]
    BY <1>2, <2>2 DEF IInv, TypeOK
  <2>4. TypeOK'
    BY <1>2, <2>1, <2>3 DEF IInv, TypeOK
  <2>5. LocksHeld'
    <3> SUFFICES ASSUME NEW u \in Threads
                 PROVE  /\ call'[u].pc \in {"lock", "hold"} => u \in readers' /\ Cc(u)'.open
                        /\ call'[u].pc = "hold" => mutex'[Fd(u)'] = u
      BY DEF LocksHeld
    <3>1. CASE u = t
      BY <1>2, <2>1, <2>2, <2>3, <3>1 DEF Cc, Fd
    <3>2. CASE u # t
      <4>1. call'[u] = call[u] /\ Fd(u)' = Fd(u) /\ Cc(u)' = Cc(u) /\ readers' = readers
        BY <1>2, <2>1, <3>2 DEF Cc, Fd
      <4>2. call[u].pc \in {"lock", "hold"} => Fd(u) \in Fds /\ u \in readers /\ Cc(u).open
        BY CallTypes DEF IInv, LocksHeld
      <4>3. call[u].pc = "hold" => mutex[Fd(u)] = u /\ u # NoThread
        BY NoneAssumption DEF IInv, LocksHeld
      <4> QED
        BY <2>3, <4>1, <4>2, <4>3
    <3> QED
      BY <3>1, <3>2
  <2> QED
    BY <1>2, <2>4, <2>5, PartitionKept, NoConnectorChanges DEF IInv, ConnectorsKept
<1> QED
  BY <1>1, <1>2

\* A thread at work on a connector has one.
LEMMA HoldsConnector ==
    ASSUME IInv, NEW t \in Threads, At(t, "hold")
    PROVE  /\ Fd(t) \in Fds /\ call[t].req \in ReaderOps /\ ~aborted
           /\ Cc(t).open /\ Cc(t) \in ConnectorComplex
           /\ Cc(t).ee \in UdpEndpointExt({"datagram"}, MaxArrived)
<1>1. Fd(t) \in Fds /\ call[t].req \in ReaderOps /\ ~aborted /\ Cc(t).open
  BY CallTypes DEF IInv, At, LocksHeld
<1>2. Cc(t) \in ConnectorComplex
  BY <1>1, OpenHasConnector DEF IInv, TypeOK, Cc
<1> QED
  BY <1>1, <1>2, EndpointOf

LEMMA WrongStateIInv ==
    ASSUME IInv, NEW t \in Threads, WrongState(t)
    PROVE  IInv'
BY HoldsConnector, ReturnIInv, NoConnectorChanges DEF WrongState, Return

LEMMA NameIInv ==
    ASSUME IInv, NEW t \in Threads, Name(t)
    PROVE  IInv'
<1> USE DEF Name
<1>1. /\ Fd(t) \in Fds /\ call[t].req \in ReaderOps /\ ~aborted
      /\ Cc(t).open /\ Cc(t) \in ConnectorComplex
  BY HoldsConnector
<1>2. Kept(Cc(t), Connected(WithAddr(Cc(t), call[t].req)))
  BY <1>1, NamedKept DEF Op
<1>3. ConnectorsKept
  BY <1>1, <1>2, OneConnectorKept DEF Cc, Return
<1> QED
  BY <1>1, <1>3, ReturnIInv

\* A datagram that is sent to this process keeps the connectors it reaches.
LEMMA DeliveredKept ==
    ASSUME NEW ccs \in [Fds -> ConnectorComplex \cup {Closed}], NEW src, NEW dst,
           NEW fd \in Fds
    PROVE  /\ Delivered(ccs, src, dst)[fd] \in ConnectorComplex \cup {Closed}
           /\ Delivered(ccs, src, dst)[fd].open <=> ccs[fd].open
           /\ ccs[fd].open /\ ccs[fd].phased = ccs[fd].connector =>
                Delivered(ccs, src, dst)[fd].phased = Delivered(ccs, src, dst)[fd].connector
<1> DEFINE cc == ccs[fd]
           new == [cc EXCEPT !.ee = Arrived(cc.ee)]
<1>1. \/ Delivered(ccs, src, dst)[fd] = cc
      \/ cc.open /\ cc.ee.arrived < MaxArrived /\ Delivered(ccs, src, dst)[fd] = new
  BY DEF Delivered
<1>2. ASSUME cc.open, cc.ee.arrived < MaxArrived
      PROVE  Kept(cc, new)
  BY <1>2, OpenHasConnector, EndpointOf, ArrivedType, EndpointKept
<1>3. cc \in ConnectorComplex \cup {Closed}
  OBVIOUS
<1> HIDE DEF cc, new
<1> QED
  BY <1>1, <1>2, <1>3, OpenHasConnector DEF Kept, cc

LEMMA SendIInv ==
    ASSUME IInv, NEW t \in Threads, Send(t)
    PROVE  IInv'
<1> USE DEF Send
<1>1. /\ Fd(t) \in Fds /\ ~aborted
      /\ Cc(t).open /\ Cc(t) \in ConnectorComplex
      /\ Cc(t).ee \in UdpEndpointExt({"datagram"}, MaxArrived)
  BY HoldsConnector
<1> DEFINE e == Committed(Outgoing(Cc(t).ee, SendPredicate, "datagram"))
           new == [Cc(t) EXCEPT !.ee = e]
           ccs == [fd_to_cc EXCEPT ![Fd(t)] = new]
<1>2. Kept(Cc(t), new)
  BY <1>1, SentType, EndpointKept
<1>3. fd_to_cc' \in {ccs, Delivered(ccs, Cc(t).local, Cc(t).peer)}
  BY DEF Cc
<1>4. /\ ccs \in [Fds -> ConnectorComplex \cup {Closed}]
      /\ \A fd \in Fds : ccs[fd].open <=> fd_to_cc[fd].open
      /\ \A fd \in Fds : ccs[fd].open => ccs[fd].phased = ccs[fd].connector
  <2> HIDE DEF new
  <2>1. fd_to_cc \in [Fds -> ConnectorComplex \cup {Closed}]
    BY DEF IInv, TypeOK
  <2>2. new \in ConnectorComplex /\ new.open /\ new.phased = new.connector
    BY <1>1, <1>2, OpenHasConnector DEF Kept, IInv, Lockstep, Cc
  <2> QED
    BY <1>1, <2>1, <2>2 DEF IInv, Lockstep, Cc
<1> HIDE DEF ccs
<1>5. ConnectorsKept
  <2>1. UNCHANGED allocator
    BY DEF Return
  <2>2. CASE fd_to_cc' = ccs
    BY <1>4, <2>1, <2>2 DEF ConnectorsKept, Lockstep
  <2>3. CASE fd_to_cc' = Delivered(ccs, Cc(t).local, Cc(t).peer)
    <3>1. fd_to_cc' = [fd \in Fds |-> fd_to_cc'[fd]]
      BY <2>3 DEF Delivered
    <3> QED
      BY <1>4, <2>1, <2>3, <3>1, DeliveredKept DEF ConnectorsKept, Lockstep
  <2> QED
    BY <1>3, <2>2, <2>3
<1> QED
  BY <1>1, <1>5, ReturnIInv

LEMMA RecvIInv ==
    ASSUME IInv, NEW t \in Threads, Recv(t)
    PROVE  IInv'
<1> USE DEF Recv
<1>1. /\ Fd(t) \in Fds /\ ~aborted
      /\ Cc(t).open /\ Cc(t) \in ConnectorComplex
      /\ Cc(t).ee \in UdpEndpointExt({"datagram"}, MaxArrived)
  BY HoldsConnector
<1> DEFINE new == [Cc(t) EXCEPT !.ee = Committed(Drained(Cc(t).ee))]
<1>2. Kept(Cc(t), new)
  BY <1>1, ReceivedType, EndpointKept
<1>3. fd_to_cc' = [fd_to_cc EXCEPT ![Fd(t)] = new]
  BY DEF Cc
<1> HIDE DEF new
<1>4. ConnectorsKept
  BY <1>1, <1>2, <1>3, OneConnectorKept DEF Cc, Return
<1> QED
  BY <1>1, <1>4, ReturnIInv

LEMMA ArriveAtIInv ==
    ASSUME IInv, NEW fd \in Fds, ArriveAt(fd)
    PROVE  IInv'
<1> USE DEF ArriveAt
<1> DEFINE cc == fd_to_cc[fd]
           new == [cc EXCEPT !.ee = Arrived(cc.ee)]
<1>1. Kept(cc, new)
  BY OpenHasConnector, EndpointOf, ArrivedType, EndpointKept DEF IInv, TypeOK
<1>2. fd_to_cc' = [fd_to_cc EXCEPT ![fd] = new]
  OBVIOUS
<1> HIDE DEF new
<1>3. ConnectorsKept
  BY <1>1, <1>2, OneConnectorKept
<1>4. TypeOK'
  BY <1>3 DEF IInv, TypeOK, ConnectorsKept
<1>5. LocksHeld'
  <2>1. \A t \in Threads : call[t].pc \in {"lock", "hold"} => Fd(t) \in Fds
    BY CallTypes DEF IInv
  <2> QED
    BY <1>3, <2>1 DEF IInv, LocksHeld, ConnectorsKept, Cc, Fd
<1> QED
  BY <1>3, <1>4, <1>5, PartitionKept DEF IInv, ConnectorsKept

LEMMA StepIInv ==
    ASSUME IInv, NEW t \in Threads, Step(t)
    PROVE  IInv'
<1>1. CASE SocketPanics(t)
  BY <1>1, IdleIsCall, CallOnlyIInv DEF SocketPanics, At
<1>2. CASE WritePoisoned(t)
  BY <1>2, IdleIsCall, CallOnlyIInv DEF WritePoisoned, At, IInv, TypeOK
<1>3. CASE ReaderInTurn(t)
  BY <1>3, ReaderLockIInv DEF ReaderInTurn
<1>4. CASE NamePanics(t) \/ SendPanics(t)
  BY <1>4, PanicIInv DEF NamePanics, SendPanics
<1> QED
  BY <1>1, <1>2, <1>3, <1>4, SocketIInv, CloseIInv, InnerLockIInv, WrongStateIInv, NameIInv,
     SendIInv, RecvIInv
  DEF Step

LEMMA NextIInv == IInv /\ [Next]_vars => IInv'
<1> SUFFICES ASSUME IInv, [Next]_vars PROVE IInv'
  OBVIOUS
<1>1. ASSUME NEW t \in Threads, ReaderBarges(t) PROVE IInv'
  BY <1>1, ReaderLockIInv DEF ReaderBarges
<1>2. CASE UNCHANGED vars
  <2> USE <1>2 DEF vars
  <2>1. TypeOK'
    BY DEF IInv, TypeOK
  <2>2. ConnectorsKept
    BY NoConnectorChanges
  <2>3. LocksHeld'
    BY DEF IInv, LocksHeld, Cc, Fd
  <2> QED
    BY <2>1, <2>2, <2>3, PartitionKept DEF IInv, ConnectorsKept
<1> QED
  BY <1>1, <1>2, CallWriterIInv, CallReaderIInv, StepIInv, ArriveAtIInv DEF Next

-----------------------------------------------------------------------------
\* The state of the interface is well formed, whatever calls panic.
THEOREM SocketsTypeCorrect == Spec => []TypeOK
<1>1. IInv => TypeOK
  BY DEF IInv
<1> QED
  BY InitIInv, NextIInv, <1>1, PTL DEF Spec

\* A descriptor is open, free for reuse or new, and only one of them, and no
\* connector is closed under a call that uses it (FdAllocator, rw_close).
THEOREM DescriptorsAccounted == Spec => []FdsAccounted
<1>1. IInv => FdsAccounted
  BY PartitionAccounts
<1> QED
  BY InitIInv, NextIInv, <1>1, PTL DEF Spec

\* ".connector.phased and .phased are variants Setup/Communication in lockstep"
\* (ConnectorComplex), also after a panic.
THEOREM PhasesInLockstep == Spec => []Lockstep
<1>1. IInv => Lockstep
  BY DEF IInv
<1> QED
  BY InitIInv, NextIInv, <1>1, PTL DEF Spec

\* Two threads are never at work on the same connector, though a panic releases
\* the mutex and a descriptor is closed and opened again (cc.lock()).
THEOREM ConnectorsExclusive == Spec => []OneCallPerConnector
<1>1. IInv => OneCallPerConnector
  BY DEF IInv, LocksHeld, OneCallPerConnector, At
<1> QED
  BY InitIInv, NextIInv, <1>1, PTL DEF Spec
=============================================================================
