--------------------------- MODULE PseudoSockets ----------------------------
(***************************************************************************)
(* The pseudo socket interface, ffi/pseudo_socket_api.rs: connectors with one*)
(* UDP mediator behind file descriptors, called by the threads of a C        *)
(* program.                                                                  *)
(*                                                                           *)
(* CC_MAP is guarded by a RwLock.  rw_socket and rw_close take the writer    *)
(* lock; the other calls hold the reader lock, and the mutex of their         *)
(* connector, until they return.  rw_recv waits for a datagram with both      *)
(* held.  A panic under a lock poisons it.                                    *)
(***************************************************************************)
EXTENDS UdpEndpoint, Sequences

CONSTANTS
    Threads,
    NoThread,
    Uses,         \* Uses[t]: the functions thread t calls
    Addrs,        \* socket addresses
    NoAddr,       \* None, and an address that cannot be converted
    MaxFd,        \* c_int::MAX
    out, in,      \* the variables of a connector's two channels
    MaxArrived    \* bound: the datagrams waiting in a socket's buffer

ASSUME BoundsAssumption == MaxFd \in Nat /\ MaxArrived \in Nat
ASSUME NoneAssumption == NoThread \notin Threads /\ NoAddr \notin Addrs
ASSUME VarsAssumption ==
    /\ SpecVars = {out, in} /\ out # in
    /\ {FIRING, SILENT} \subseteq SpecVals

VARIABLES
    allocator,   \* w.fd_allocator: next (MaxFd + 1 for None) and freed
    fd_to_cc,    \* w.fd_to_cc
    mutex,       \* mutex[fd]: the thread that holds the Mutex of fd's connector
    readers,     \* the threads that hold the reader lock of CC_MAP
    poisoned,    \* CC_MAP is poisoned
    call,        \* what every thread is doing
    aborted      \* the process was ended by a panic in an extern "C" function

vars == <<allocator, fd_to_cc, mutex, readers, poisoned, call, aborted>>

Fds == 0..MaxFd
Closed == [open |-> FALSE]
ConnectorComplex ==
    [open      : {TRUE},
     local     : Addrs \cup {NoAddr},
     peer      : Addrs \cup {NoAddr},
     phased    : {"Setup", "Communication"},   \* ConnectorComplexPhased
     connector : {"Setup", "Communication"},   \* ConnectorPhased
     poisoned  : BOOLEAN,                      \* of the Mutex
     ee        : UdpEndpointExt({"datagram"}, MaxArrived)]
Idle == [pc |-> "idle", req |-> [op |-> "none"]]
WriterOps == [op : {"socket"}] \cup [op : {"close"}, fd : Fds]
ReaderOps == [op : {"bind", "connect"}, fd : Fds, addr : Addrs \cup {NoAddr}]
                \cup [op : {"send", "recv"}, fd : Fds]
Calls == {Idle} \cup [pc : {"write"}, req : WriterOps]
                \cup [pc : {"read", "lock", "hold"}, req : ReaderOps]

TypeOK ==
    /\ allocator \in [next : 0..(MaxFd + 1), freed : Seq(Fds)]
    /\ fd_to_cc \in [Fds -> ConnectorComplex \cup {Closed}]
    /\ mutex \in [Fds -> Threads \cup {NoThread}]
    /\ readers \subseteq Threads
    /\ poisoned \in BOOLEAN
    /\ call \in [Threads -> Calls]
    /\ aborted \in BOOLEAN

Init ==
    /\ allocator = [next |-> 0, freed |-> <<>>]
    /\ fd_to_cc = [fd \in Fds |-> Closed]
    /\ mutex = [fd \in Fds |-> NoThread]
    /\ readers = {}
    /\ poisoned = FALSE
    /\ call = [t \in Threads |-> Idle]
    /\ aborted = FALSE
-----------------------------------------------------------------------------
(* Calls, returns and panics *)

At(t, pc) == ~aborted /\ call[t].pc = pc
Goto(t, pc) == call' = [call EXCEPT ![t].pc = pc]
Op(t) == call[t].req.op
Fd(t) == call[t].req.fd
Cc(t) == fd_to_cc[Fd(t)]

\* A thread makes a call: a writer waits for the writer lock, a reader for the
\* reader lock.
CallWriter(t, c) ==
    /\ At(t, "idle")
    /\ call' = [call EXCEPT ![t] = [pc |-> "write", req |-> c]]
    /\ UNCHANGED <<allocator, fd_to_cc, mutex, readers, poisoned, aborted>>
\* rw_bind and rw_connect return RW_BAD_SOCKADDR before they take any lock.
CallReader(t, c) ==
    /\ At(t, "idle")
    /\ call' = [call EXCEPT ![t] =
                    IF c.op \in {"bind", "connect"} /\ c.addr = NoAddr
                    THEN Idle ELSE [pc |-> "read", req |-> c]]
    /\ UNCHANGED <<allocator, fd_to_cc, mutex, readers, poisoned, aborted>>

\* A reader returns: the guards are dropped.
Return(t) ==
    /\ call' = [call EXCEPT ![t] = Idle]
    /\ readers' = readers \ {t}
    /\ mutex' = [fd \in Fds |-> IF mutex[fd] = t THEN NoThread ELSE mutex[fd]]
    /\ UNCHANGED <<allocator, poisoned, aborted>>

\* (mutant) a panic does not release the reader lock
PanicHolding(t) ==
    /\ fd_to_cc' = [fd_to_cc EXCEPT ![Fd(t)].poisoned = TRUE]
    /\ call' = [call EXCEPT ![t] = Idle]
    /\ mutex' = [mutex EXCEPT ![Fd(t)] = NoThread]
    /\ aborted' \in BOOLEAN
    /\ UNCHANGED <<allocator, poisoned, readers>>

\* A panic while t holds the mutex: unwinding poisons the mutex, not the
\* RwLock, of which t is a reader.  Unwinding out of an extern "C" function is
\* undefined: the process ends, or the caller continues.
Panic(t) ==
    /\ fd_to_cc' = [fd_to_cc EXCEPT ![Fd(t)].poisoned = TRUE]
    /\ call' = [call EXCEPT ![t] = Idle]
    /\ readers' = readers \ {t}
    /\ mutex' = [mutex EXCEPT ![Fd(t)] = NoThread]
    /\ aborted' \in BOOLEAN
    /\ UNCHANGED <<allocator, poisoned>>
-----------------------------------------------------------------------------
(* rw_socket and rw_close *)

\* FdAllocator::alloc: the descriptor freed last, or a new one.
CanAlloc == allocator.freed # <<>> \/ allocator.next <= MaxFd
Alloc ==
    IF allocator.freed # <<>>
    THEN [fd  |-> allocator.freed[Len(allocator.freed)],
          rest |-> [allocator EXCEPT !.freed = SubSeq(@, 1, Len(@) - 1)]]
    ELSE [fd  |-> allocator.next,
          rest |-> [allocator EXCEPT !.next = @ + 1]]

NewComplex ==
    [open |-> TRUE, local |-> NoAddr, peer |-> NoAddr, phased |-> "Setup",
     connector |-> "Setup", poisoned |-> FALSE, ee |-> NewEndpoint]

\* CC_MAP.write(): granted when nobody holds the lock.  A writer's critical
\* section is one step.
WriterLock == readers = {}

\* rw_socket
Socket(t) ==
    /\ At(t, "write") /\ Op(t) = "socket"
    /\ WriterLock
    /\ ~poisoned /\ CanAlloc
    /\ allocator' = Alloc.rest
    /\ fd_to_cc' = [fd_to_cc EXCEPT ![Alloc.fd] = NewComplex]
    /\ call' = [call EXCEPT ![t] = Idle]
    /\ UNCHANGED <<mutex, readers, poisoned, aborted>>

\* rw_socket: "No more Connector FDs to allocate!" poisons CC_MAP.
SocketPanics(t) ==
    /\ At(t, "write") /\ Op(t) = "socket"
    /\ WriterLock
    /\ ~poisoned /\ ~CanAlloc
    /\ poisoned' = TRUE
    /\ call' = [call EXCEPT ![t] = Idle]
    /\ aborted' \in BOOLEAN
    /\ UNCHANGED <<allocator, fd_to_cc, mutex, readers>>

\* (mutant) the descriptor is freed whether or not it was open
CloseAny(t) ==
    /\ At(t, "write") /\ Op(t) = "close"
    /\ WriterLock
    /\ ~poisoned
    /\ Len(allocator.freed) <= MaxFd
    /\ fd_to_cc' = [fd_to_cc EXCEPT ![Fd(t)] = Closed]
    /\ allocator' = [allocator EXCEPT !.freed = Append(@, Fd(t))]
    /\ call' = [call EXCEPT ![t] = Idle]
    /\ UNCHANGED <<mutex, readers, poisoned, aborted>>

\* rw_close; RW_CLOSE_FAIL if the descriptor is not open.
Close(t) ==
    /\ At(t, "write") /\ Op(t) = "close"
    /\ WriterLock
    /\ ~poisoned
    /\ fd_to_cc' = [fd_to_cc EXCEPT ![Fd(t)] = Closed]
    /\ allocator' = IF Cc(t) = Closed THEN allocator
                    ELSE [allocator EXCEPT !.freed = Append(@, Fd(t))]
    /\ call' = [call EXCEPT ![t] = Idle]
    /\ UNCHANGED <<mutex, readers, poisoned, aborted>>

\* Either, when CC_MAP is poisoned: RW_LOCK_POISONED.
WritePoisoned(t) ==
    /\ At(t, "write")
    /\ WriterLock
    /\ poisoned
    /\ call' = [call EXCEPT ![t] = Idle]
    /\ UNCHANGED <<allocator, fd_to_cc, mutex, readers, poisoned, aborted>>
-----------------------------------------------------------------------------
(* The calls that take the reader lock *)

WriterWaits == \E t \in Threads : call[t].pc = "write"

\* CC_MAP.read(): RW_LOCK_POISONED and RW_BAD_FD return at once.
ReaderLock(t) ==
    /\ At(t, "read")
    /\ IF poisoned \/ Cc(t) = Closed
       THEN Return(t)
       ELSE /\ readers' = readers \cup {t}
            /\ Goto(t, "lock")
            /\ UNCHANGED <<allocator, mutex, poisoned, aborted>>
    /\ UNCHANGED fd_to_cc

\* Whether a reader queues behind a writer that waits is up to the platform's
\* lock: it gets the lock for certain only when no writer waits.
ReaderInTurn(t) == ~WriterWaits /\ ReaderLock(t)
ReaderBarges(t) == WriterWaits /\ ReaderLock(t)

\* cc.lock(): RW_LOCK_POISONED, or the mutex is held until the call returns.
InnerLock(t) ==
    /\ At(t, "lock")
    /\ mutex[Fd(t)] = NoThread
    /\ IF Cc(t).poisoned
       THEN Return(t)
       ELSE /\ mutex' = [mutex EXCEPT ![Fd(t)] = t]
            /\ Goto(t, "hold")
            /\ UNCHANGED <<allocator, readers, poisoned, aborted>>
    /\ UNCHANGED fd_to_cc

\* RW_WRONG_STATE
WrongState(t) ==
    /\ At(t, "hold")
    /\ Cc(t).phased # IF Op(t) \in {"bind", "connect"} THEN "Setup" ELSE "Communication"
    /\ Return(t)
    /\ UNCHANGED fd_to_cc

\* The address rw_bind or rw_connect stores.
WithAddr(cc, c) ==
    IF c.op = "bind" THEN [cc EXCEPT !.local = c.addr] ELSE [cc EXCEPT !.peer = c.addr]

\* (mutant) the wrapper changes phase though there is nothing to connect yet
ConnectedEarly(cc) ==
    IF cc.local = NoAddr \/ cc.peer = NoAddr
    THEN [cc EXCEPT !.phased = "Communication"]
    ELSE [cc EXCEPT !.phased = "Communication", !.connector = "Communication"]

\* try_become_connected, when nothing fails.
Connected(cc) ==
    IF cc.local = NoAddr \/ cc.peer = NoAddr
    THEN cc
    ELSE [cc EXCEPT !.phased = "Communication", !.connector = "Communication"]

\* An address is bound by one socket at a time.
InUse(a) == \E fd \in Fds : fd_to_cc[fd].open /\ fd_to_cc[fd].connector = "Communication"
                               /\ fd_to_cc[fd].local = a

\* rw_bind and rw_connect
Name(t) ==
    /\ At(t, "hold")
    /\ Op(t) \in {"bind", "connect"}
    /\ Cc(t).phased = "Setup"
    /\ LET cc == WithAddr(Cc(t), call[t].req)
       IN  /\ cc.peer = NoAddr \/ cc.local = NoAddr \/ ~InUse(cc.local)
           /\ fd_to_cc' = [fd_to_cc EXCEPT ![Fd(t)] = Connected(cc)]
    /\ Return(t)

\* rw_bind and rw_connect: connect(None).unwrap() panics, because the address
\* is in use, here or elsewhere.
NamePanics(t) ==
    /\ At(t, "hold")
    /\ Op(t) \in {"bind", "connect"}
    /\ Cc(t).phased = "Setup"
    /\ LET cc == WithAddr(Cc(t), call[t].req) IN cc.local # NoAddr /\ cc.peer # NoAddr
    /\ Panic(t)

\* The predicates of the one batch of rw_send and of rw_recv.
SendPredicate == [v \in SpecVars |-> IF v = out THEN FIRING ELSE SILENT]

\* A datagram from `src` to `dst` reaches the sockets of this process that are
\* bound to dst and connected to src, if there is room.
Delivered(ccs, src, dst) ==
    [fd \in Fds |->
        IF /\ ccs[fd].open /\ ccs[fd].connector = "Communication"
           /\ ccs[fd].local = dst /\ ccs[fd].peer = src
           /\ ccs[fd].ee.arrived < MaxArrived
        THEN [ccs[fd] EXCEPT !.ee = Arrived(@)] ELSE ccs[fd]]

\* rw_send: put and sync(None).  The native's batch needs nothing, so the round
\* is decided at once, and its end sends the datagram.
Send(t) ==
    /\ At(t, "hold")
    /\ Op(t) = "send"
    /\ Cc(t).phased = "Communication"
    /\ LET ee  == Outgoing(Cc(t).ee, SendPredicate, "datagram")
           ccs == [fd_to_cc EXCEPT ![Fd(t)].ee = Committed(ee)]
       IN  fd_to_cc' \in {ccs, Delivered(ccs, Cc(t).local, Cc(t).peer)}
    /\ Return(t)

\* rw_send: the datagram cannot be sent and sync(None).unwrap() panics.
SendPanics(t) ==
    /\ At(t, "hold")
    /\ Op(t) = "send"
    /\ Cc(t).phased = "Communication"
    /\ Panic(t)

\* rw_recv: get and sync(None), which polls until a datagram is handed over.
Recv(t) ==
    /\ At(t, "hold")
    /\ Op(t) = "recv"
    /\ Cc(t).phased = "Communication"
    /\ HandsOver(Cc(t).ee)
    /\ fd_to_cc' = [fd_to_cc EXCEPT ![Fd(t)].ee = Committed(Drained(@))]
    /\ Return(t)

\* A datagram arrives from another process.
ArriveAt(fd) ==
    /\ ~aborted
    /\ fd_to_cc[fd].open /\ fd_to_cc[fd].connector = "Communication"
    /\ fd_to_cc[fd].ee.arrived < MaxArrived
    /\ fd_to_cc' = [fd_to_cc EXCEPT ![fd].ee = Arrived(@)]
    /\ UNCHANGED <<allocator, mutex, readers, poisoned, call, aborted>>

\* What t does inside a call, given the processor and the locks it waits for.
Step(t) ==
    \/ Socket(t) \/ SocketPanics(t) \/ Close(t) \/ WritePoisoned(t)
    \/ ReaderInTurn(t) \/ InnerLock(t) \/ WrongState(t)
    \/ Name(t) \/ NamePanics(t)
    \/ Send(t) \/ SendPanics(t) \/ Recv(t)

Next ==
    \/ \E t \in Threads :
        \/ \E c \in WriterOps : c.op \in Uses[t] /\ CallWriter(t, c)
        \/ \E c \in ReaderOps : c.op \in Uses[t] /\ CallReader(t, c)
        \/ Step(t)
        \/ ReaderBarges(t)
    \/ \E fd \in Fds : ArriveAt(fd)

Spec == Init /\ [][Next]_vars

\* Threads keep running.  Neither lock is fair to those who wait for it.
FairSpec == Spec /\ \A t \in Threads : WF_vars(Step(t))
-----------------------------------------------------------------------------
(* Properties *)

\* A descriptor is open, free for reuse, or new, and only one of them: closing
\* twice, or closing what was never open, does not make two sockets share one.
\* And no connector is dropped under a call that uses it, though another thread
\* may close its descriptor and open it again at any time.
FdsAccounted ==
    LET freed == {allocator.freed[i] : i \in DOMAIN allocator.freed}
        open  == {fd \in Fds : fd_to_cc[fd].open}
    IN  /\ Cardinality(freed) = Len(allocator.freed)
        /\ freed \cap open = {}
        /\ freed \cup open = 0..(allocator.next - 1)
        /\ \A t \in Threads : ~aborted /\ call[t].pc \in {"lock", "hold"} => Cc(t).open

\* "invariant: .connector.phased and .phased are variants Setup/Communication in
\* lockstep", also after a panic in the middle of try_become_connected.
Lockstep == \A fd \in Fds : fd_to_cc[fd].open => fd_to_cc[fd].phased = fd_to_cc[fd].connector

WaitsForDatagram(t) ==
    /\ At(t, "hold") /\ Op(t) = "recv" /\ Cc(t).phased = "Communication"
    /\ Cc(t).ee.arrived = 0

\* The calls in progress return, once no more are made and every rw_recv gets a
\* datagram in the end: whatever has panicked, nobody waits for a lock that is
\* never released.
CallsReturn ==
    /\ []<>(\A t \in Threads : ~WaitsForDatagram(t))
    /\ <>[][\A t \in Threads : call[t].pc = "idle" => call'[t].pc = "idle"]_vars
    => <>[](aborted \/ \A t \in Threads : call[t].pc = "idle")
=============================================================================
