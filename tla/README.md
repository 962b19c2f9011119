# A verification project for Reowolf

Reowolf replaces sockets by *connectors*: programs on different machines link
their ports with channels, add protocol components written in PDL, and then
communicate in synchronous rounds in which all participants agree on what was
sent, or on failure. This directory models the Rust implementation (the runtime
in `src/src/runtime`, the pseudo sockets in `src/src/ffi`, and the compiler
passes and the evaluator of PDL in `src/src/protocol`) in TLA+, checks the
models with TLC, and proves part of the results with TLAPS.

All line numbers refer to the source files; `PROJECT.json` maps every
definition to its lines.

## 1. The system

| Component | State | Operations | Talks to |
|---|---|---|---|
| Predicates (`runtime/mod.rs`, `Predicate`) | a sorted map from speculative variables to values | `inserted`, `query`, `assigns_subset`, `union_with`, `assignment_union` | labels every branch, payload and solution |
| Solution storage (`communication.rs`, `SolutionStorage`) | a set of solutions per subtree, local solutions old and new | `new`, `submit_and_digest_subtree_solution`, `iter_new_local_make_old` | filled by native, components, children; read by the decision loop |
| Ports, components, batches (`mod.rs`, `setup.rs`, `communication.rs`) | `ips` (port map, `owned`, id counters), `proto_components`, `native_batches`, `round_result` | `new_port_pair`, `new_net_port`, `new_udp_mediator_component`, `connect`, `add_component`, `next_batch`, `put`, `get`, `sync`, `gotten`; `NonsyncProtoContext::{new_port_pair, new_component}` | the application, the components |
| Channel setup (`setup.rs`, `setup_endpoints_and_pair_ports`) | `NetTodo` per endpoint, `net_connect_to_retry`, `setup_incomplete`, inboxes | connect, accept, retry, exchange of `MyPortInfo` | other connectors over TCP |
| Leader election and consensus tree (`setup.rs`, `init_neighborhood`) | `best_wave`, `awaiting`, `parent`, `children` | receive `LeaderWave`, `LeaderAnnounce`, `YouAreMyParent` | neighbours over TCP |
| Synchronous rounds (`communication.rs`, `sync`, `connected_sync`, `sync_reach_decision`) | `round_index`, storage, `already_requested_failure`, deadline | receive `Suggest`, `Announce`, payloads; decide; commit or roll back | neighbours in the tree |
| Speculative execution (`BranchingNative`, `BranchingProtoComponent`) | a map from predicates to branches | `feed_msg`, `drain_branches`, `collapse_with` | payload messages, solution storage |
| Endpoint manager (`endpoints.rs`) | delayed and undelayed messages, polled and undrained sets | `try_recv_any_setup`, `try_recv_any_comms`, `undelay_all` | the network |
| UDP mediators (`endpoints.rs`, `UdpEndpointExt`) | `outgoing_payloads`, `received_this_round` | put, receive, `udp_endpoints_round_end` | UDP sockets |
| C interface and pseudo sockets (`ffi/`) | descriptor allocator, `CC_MAP` behind a `RwLock`, a `Mutex` per connector | `rw_socket`, `rw_bind`, `rw_connect`, `rw_send`, `rw_recv`, `rw_close` | connectors |
| Definition parser, validation and linking (`parser/pass_definitions.rs`, `pass_validation_linking.rs`) | AST heap, scopes, relative positions, stack slots | consume statements; resolve variables, labels and jumps; number locals; link statements | type inference, evaluator |
| Type inference and type table (`pass_typing.rs`, `type_table.rs`) | a type per expression and variable, the worklist, the queue of monomorphs | visit, `progress_*`, `resolve_types` | validation, evaluator |
| Evaluator (`protocol/eval`, `protocol/mod.rs`) | store (stack, heap regions, free list), frames | `Prompt::step`, `nonsync_run`, `sync_run` | `connected_sync` runs components |
| Tokenizer, symbol table, AST printer, collections, logging, errors | buffers, pools | | everything |

What makes it hard:

* **Concurrency.** Every connector is a process of its own. Nothing tells them
  when the others enter `connect`, when a round starts, or in which round the
  others are. Streams are FIFO, but messages of one round overtake those of
  another connector's earlier round along other channels. Pseudo sockets are
  used by several threads under two levels of locks.
* **Failure.** Deadlines may pass anywhere in `connect` and `sync`, connections
  are refused and reset, `connect` is called again with what the last call left
  behind, endpoints may break between two sends of one loop, a connector may
  leave a round before it started, a panic poisons locks, and a closed socket
  reads as silence (`endpoints.rs`:34).
* **Ordering.** Solutions arrive in any order and repeatedly; messages are set
  aside and replayed last in, first out (`undelayed_messages.pop()`).
* **Double bookkeeping.** Ownership of ports is kept in `map` and in `owned`; a
  sync call edits a copy which is committed or dropped; the phase of a pseudo
  socket is kept twice.
* **Bookkeeping across passes.** The slot of a variable, the target of a jump
  and the mode of a component are computed by one pass and relied on, without a
  test, by another; values move between stack, frames and heap regions, and
  nothing but care keeps a region from being freed twice or never.

What makes each component correct: predicates are united exactly; the storage
holds exactly the consistent combinations, each handed up once; set-up pairs
ports and loses nothing it has read; the election ends, with one tree rooted at
the greatest id, whose edges both ends agree on; all connectors complete a round
with the same decision, which each of them has a branch for; ports have one
owner and channels one variable; a failed sync leaves no trace; what is
committed, and nothing else, leaves by UDP; a descriptor means one socket, and
calls return; an accepted program is well typed, stays within its stack slots
and does not panic. The list of hazards, each at its line and with the
properties that cover it, is `hazards` in `PROJECT.json`.

## 2. Modules

| Module | Models | Extends | Instance for TLC |
|---|---|---|---|
| `Predicates` | `Predicate` as functions into values plus `Unassigned` | | |
| `PredicateUnion` | `assignment_union` as the loop it is | `Predicates` | `MCSolutions` |
| `Solutions` | the functions of `SolutionStorage` | `Predicates` | |
| `SolutionStorage` | a storage during one round | `Solutions` | `MCSolutions` |
| `Connector` | ports, components and batches of one connector | | `MCConnector` |
| `Pairing` | `setup_endpoints_and_pair_ports` of every connector | | `MCPairing` |
| `Election` | `init_neighborhood` of every connector of a network | | `MCElection` |
| `RoundAgreement` | abstract: one decision per round, completed by whoever completes the round | | (instantiated by `Rounds`) |
| `Rounds` | `sync` of every connector over several rounds | `Solutions` | `MCRounds` |
| `SyncRound` | branches of natives and components of all connectors, and payloads, in one round | `Solutions` | `MCSyncRound` |
| `Branches` | what `SyncRound` relies on in the interpreter, and its inductive invariant | `SyncRound` | `MCBranches` |
| `UdpEndpoint` | one UDP mediator: outbox and `received_this_round` | `Predicates` | |
| `UdpRounds` | the mediators of one connector over several rounds | `UdpEndpoint` | `MCUdpRounds` |
| `PseudoSockets` | `pseudo_socket_api.rs` under several threads, each socket with its mediator | `UdpEndpoint` | `MCPseudoSockets` |
| `InferenceTypes` | types as sequences of parts, how specific they are | | |
| `Typing` | type inference of a program, monomorph after monomorph | `InferenceTypes` | `MCTyping` |
| `Statements` | a body from its text to the linked, numbered tree | | |
| `Store` | values, stack, heap regions, operators on values | | |
| `Semantics` | reference: what the language says an expression is worth | `Statements`, `Store` | |
| `Evaluator` | `Prompt::step`, `nonsync_run`, `sync_run` | `Semantics` | `MCPrograms` |

The eight modules `*_proofs` hold the proofs: `Solutions_proofs` those about
`PredicateUnion` and `SolutionStorage`, the others those about the module they
are named after: `Connector`, `Pairing`, `Election`, `Rounds`, `SyncRound` (with
`Branches`), `UdpRounds` and `PseudoSockets`.

### Predicates and PredicateUnion

A predicate is a total function; `Unassigned` stands for an absent key.
`AssignmentUnion` says by definition how two predicates relate.
`PredicateUnion` runs the code's loop: `sRest` and `oRest` are what the two
iterators have yet to yield, the heads included; each iteration is one of
`OnlySelf`, `OnlyOther`, `Differ`, `Agree`, and `Finish` is the three arms in
which an iterator is exhausted together with the final `match`.

### Solutions and SolutionStorage

`Elaborated` is the set that `elaborate_into_new_local_rec` enumerates: the
submitting subtree contributes only its new predicate, the others their whole
sets. The recursion itself, with its visiting order (left part, right part) and
its pruning, is in `MCSolutions` (`ElaborateIntoNewLocal`, `SetVisitor`)
and compared with `Elaborated` in every reachable state. In `SolutionStorage` a
connector either hands new solutions up (it has a parent) or decides (it is the
leader); `isLeader` is chosen in `Init`.

### Connector

`ips` is `cu.ips`; `work` its clone during a sync call. A sync call is split at
the points where components run: `SyncBegin`, one action per operation of a
component outside its sync block (`Nonsync*`), `BeginRound` (batches become
native branches), then `Commit` or `Rollback`. Which of the two happens is left
open; `Rounds` is about that. `NewUdpMediator` stores the peers the code stores.

### Pairing

`todo[e]` is the `NetTodo` of an end of a channel together with its membership
in `net_connect_to_retry`, `setup_incomplete` and `net_polled_undrained`;
`conns[h]` are the TCP connections of a channel, each with a stream of bytes in
either direction. A wake-up of the poll loop handles one endpoint: the listener
accepts, a connecting stream is refused or writable, a readable one is read as
far as the bytes go (an action per amount). A `MyPortInfo` may be read in two
halves, and a read may take bytes of the election that follows; both stay in the
inbox. A retry swaps the stream and keeps the rest, as the code does. `connect`
may time out or fail and be called again: the ends it drops are closed, and the
other side may notice or not. The addresses and the token table are left out.
`Exchange`, the handling of one `MyPortInfo`, is split by what can happen:
`PortSent`, `Drained`, `Becomes` and `FailsWith`.

### Election

`node[n]` holds the locals of n's `init_neighborhood`; its phase says where in
`connect` it is. `chan[e]` is the TCP stream towards endpoint e. One receipt is
one action, with all the messages it sends: `do_wave` to all but the parent, the
reply of a leaf, the messages that open phase 2. A send to a failed neighbour
may succeed (it is buffered) or fail, in which case the earlier sends of the
loop have gone out (`Proceed`). Networks are multigraphs; a channel may lead
back to its own connector. Failed asserts are the phase `panic`,
`SetupAlgMisbehavior` the phase `misbehavior`.

### Rounds and RoundAgreement

Each connector calls `sync` `MaxRounds` times. `StartSync` covers the code up to
the decision loop; the loop is `HandUp` or `DecideSuccess` while there are new
local solutions, then `Recv` or `Timeout`. `handle_msg`'s comparison of rounds
is `DropPast`, `DelayFuture` and the handlers of current messages. `EndRound`
announces the decision to the children, one after the other, and completes the
round; if a child's endpoint is broken, those before it have been told and the
connector breaks. `GiveUp` is the code shared by the three places that ask for
failure. What native and components compute is abstracted: `Candidates[n]` are
the predicates that n's own branches may end with, each once the payloads it
needs have arrived. `decided`, `outcome` and `excuse` are history variables.

`RoundAgreement` is what an application may rely on: a round is decided at most
once, and a sync call that completes does so as decided. `Rounds` instantiates
it with its history variables; `ImplementsAgreement` is its specification.

### SyncRound

A connector is a thread; `task[n]` is the loop it is in, with the maps `input`,
`swap` and `output` that it drains: the decision loop (`Route`, `Receive`),
feeding a component (`FeedComponent`), running its branches (`RunBranch`, one
`Hit*` per blocker, then `Settle`), feeding the native (`FeedNative`,
`NativeDone`). Each visited branch is a step, since hash maps are visited in any
order. `payload_inbox` is a stack, as in the code; `net[ch]` is a stream. A
failed assert sets `panicked`. What a component computes is the parameter `Run`
(`ComponentState::sync_run`): from a branch and its predicate to the next
blocker. `MCSyncRound` gives it as a small instruction set with the calls a PDL
program makes in a sync block (`fires`, `get`, `put`) and a test of what was read.

The reference is stated without branches: an assignment is `Possible` if the
components, all knowing it, run side by side to their ends and exchange exactly
the messages it says. Its solutions are combined as `SolutionStorage` does.
Control messages, decisions and deadlines are the subject of `Rounds`.

`Branches` states what the speculation rests on. `RunAssumption`: `sync_run`
asks only for what it does not have, notes what it gets, and is deterministic:
it looks at nothing but the branch and its predicate, so that a run that knows
more goes the same way until what it knows makes a difference, and a run that is
resumed at a blocker ends up where it would have if it had known from the start.
The code justifies this: `Prompt::step` changes only the prompt and has no
access to the runtime except through the four calls of `SyncProtoContext`
(`is_firing`, `did_put_or_get`, `read_msg` and, blocking, `put`), which read the
predicate and the branch; a component has no clock and no randomness.
`BatchesAssumption`: the application puts and gets through ports it owns
(`NativeBatch` is filled by `put` and `get` after they have looked the port up),
and there are finitely many channels. TLC evaluates both in the run `branches`.

### UdpEndpoint and UdpRounds

The outbox is a set of payloads with predicates, the kernel's buffer a number.
A round begins, branches put, datagrams arrive and the socket is drained in any
order; the round then succeeds with a predicate, fails, or breaks because a send
failed (`CommitFailed`: the `?` leaves the flag set). The puts of one round on
one port contradict each other, which is what `MessagesUnambiguous` of
`SyncRound` says of them.

### PseudoSockets

A thread takes the writer or the reader lock of `CC_MAP`, then the mutex of its
connector, works, and releases both; `call[t]` says where it is. `rw_recv` runs
rounds until a datagram arrives, with both locks held. A reader may wait behind a
waiting writer or pass it (`ReaderBarges`): the standard library leaves it open. A panic in
`try_become_connected` or under the writer lock poisons what is held and ends
the process where the function is `extern "C"`; the outcome depends on where it
happens.

### InferenceTypes and Typing

A type is the depth-first sequence of its parts, with at most one polymorphic
argument; `UInt8` and `SInt32` stand for the eight integer types. A monomorph
is taken from the queue, its expressions are visited depth-first, then the
worklist is emptied (`infer`), open integers become `s32` and the worklist is
emptied again (`reinfer`), and the monomorphs it calls are reserved and queued.
One step of the worklist is one expression: `Progress` applies its
`progress_*` function and queues what the code queues. Signatures of
polymorphic procedures and of data types are extra data of the calling
expression, as in the code.

### Statements, Store, Semantics and Evaluator

A node of a body is named by its path. `ConsumeStatement` is what the parser
makes of a statement (end nodes, a declaration and its first assignment, a
label's first statement); the rest of `Statements` is the validation pass:
where declarations, methods and jumps may stand, how names and labels are found,
which slot a local gets, and what follows what.

`Store` has the stack with its boundaries, the regions and the free list, and
the operators on values. `Evaluator` takes one instruction of an expression or
one statement at a time. `get` and `fires` block until the round answers, `put`
hands over and is evaluated again; `Speculate` and `Deliver` choose the answers.
`mode` is which of the two loops runs the component. The variable `env`, and
`Meaning` in `Semantics`, give variables and expressions the values the language
gives them, without stacks, references or regions; `EvaluationExact` and
`VariablesKept` compare the two.

## 3. Runs

| Run | Instance | Shows |
|---|---|---|
| `solutions` | 3 subtrees, 3 variables, 10 candidate solutions that overlap, contradict and are incomparable; both roles. In behaviors of their own, the walks over all 729 pairs of predicates over 3 variables and 2 values | `LocalSolutionsExact`, `NeverHandedUpTwice`, `DecisionCovered`, `ElaborationExact`; `ResultExact` |
| `connector` | 5 port ids, 3 of them the application's, 2 net ports, 3 components, 2 batches, a UDP mediator, components that are inconsistent before their sync block | `OwnershipAgrees`, `BatchesNative`, `OneVarPerChannel`, `SyncIsAtomic` |
| `pairing` | 2 connectors with a channel in either direction; one calls `connect` twice and may time out, the ports of one channel may have the same polarity, bytes of the other are read in parts | `NothingStranded`, `PairsRightly`, `EveryonePairs` |
| `election` | a cycle of four with a chord, no failures; and two parallel channels, a channel of a connector to itself, an isolated connector, where three connectors may time out and those that are done send a message of round 0 | `GreatestLeads`, `ConsensusTree`, `NoMisbehavior`, `CommMsgsKept`, `EveryoneConnects` |
| `rounds` | 2 rounds of a leader with two children, one of which sends to the other past the tree and may crash, while the leader may time out; and of a chain, where the leaf may time out, the inner native may be unsatisfiable and the leader may leave a round early, or the leader may time out and the inner connector leave early | `DecisionsJustified`, `PayloadKept`, `ImplementsAgreement`, `EverySyncReturns` |
| `sync_round` | 2 connectors, 2 components, 7 channels, ten situations: components that check before they get, put between two gets, depend on what they read, answer before they are asked; natives with one or two batches, some contradictory; parallel messages from one batch | `SolutionsExact`, `SolutionsRetained`, `MessagesUnambiguous`, `GivesUpRightly`, `RoundDecidable` |
| `sync_round_lagging` | a component puts to another, gets its answer, and then asks whether a third one has put and gets that | violates `CollapseFindsBranch` (finding 1) |
| `branches` | 1 connector with 2 batches, 2 components, 3 channels: a question and its answer; all states, inboxes and puts of the components for the assumption | `IInv`, and the assumptions of `Branches` |
| `udp` | 2 mediators, one of which branches put to under three predicates, 2 rounds that end in every way | `DatagramsExact`, `NotDeafAfterSuccess` |
| `sockets` | 3 threads that receive, send, and open and close, on 2 descriptors and 1 address | `FdsAccounted`, `Lockstep`, `CallsReturn` |
| `typing` | some thousands of programs: every operation on every pair of operands, chains of assignments, all contexts, polymorphic calls (also mutually recursive), structs, unions and enums with an argument, channels, array literals of variables that are assigned to before and after | `AcceptedIsWellTyped`, `NoPanic`, `WorklistExact` |
| `programs` | some thousands of components: every pair of inner statements in six shapes of loops, blocks and sync blocks; blocks of all kinds that begin with a label; puts of what is a message and what is not; expressions of depth two; pairs of assignments to variables and their parts; casts at the limits of the types; patterns; components that create components | `NoPanic`, `SyncMatchesPosition`, `VariablesKept`, `HeapExact`, `EvaluationExact` |

**Bounds.** Two rounds are what it takes for a message to be early or late; a
third would only repeat this. Three connectors are enough for a path that is not
an edge of the tree (star) and for an inner connector (chain). Four connectors
with a chord give waves that meet on several cycles; the second network has all
the degenerate channels. Two values per variable are what ports use (silent or
firing). `SkipN` is 2 instead of 100 in `connector`: the stream's first
variable meets a component's new port when the gap is used up, and whether that
port names a channel depends only on the parity of the gap. Five port ids let
this happen from an even and from an odd counter. In `sync_round` the
situations are chosen so that branches of a component meet while they are fed,
while they run and when they end, and branches of a native with different
messages; each of these was seen to happen. Situations in which a component asks
and waits for an answer are not among them: there messages are repeated without
bound (finding 5). In `pairing` two calls of `connect` let one call meet the
remains of the last, and two connections of a channel let a stale one exist
beside its successor. With `MaxFd = 1` descriptors run out and are reused; one
address lets two sockets collide on it. `udp` needs two rounds for leftovers of
the first to matter and two datagrams to tell the first of a round from the
next: one in the buffer when the socket is drained, one after it. In `typing`
and `programs` the programs are enumerated from families of statements and
expressions; what a family is about is said next to it. `MaxRounds`,
`MaxAttempts`, `MaxConns`, `MaxArrived`, `MaxFd`, `MaxNative`, `MaxNet`,
`MaxPorts`, `MaxComps` and `MaxBatches` bound what the code leaves unbounded (or
bounds by the machine).

**Exceptions in `typing`.** `WorklistExact` and `AcceptedIsWellTyped` leave out
the first elements of array literals that have got a type from their literal and
have not been applied since (`untold`, a history component of the pass), and
nothing else; `AllSettled` and `AllWellTyped` have no exception and do not hold
(finding 8).

**Restrictions of `programs`.** `NoPanic` has two exceptions, and the programs
contain both: a jump past a declaration (finding 9), and a block that begins with
a label (finding 10, in the family `LabelFirst`); without either disjunct TLC
refutes it. What else is known to panic or to be unfinished (finding 12) the
programs avoid, and they assign to no variable of string type. Results of arithmetic fit their types:
Rust's overflow panics in one build and wraps in the other. Casts go to the
integer types `UInt8`, `SInt8` and `SInt16`, which have all relations of width
and sign. Division, remainder, shifts and bit operators are left out.

**Deadlock** is off where the modelled system stops: a round or a walk ends,
everybody is connected or has no attempt left, all `MaxRounds` calls are done,
ids are used up, the process was aborted, a program has ended or was refused, or
a connector waits for one that has left.

**Fairness.** `Pairing`: weak fairness of calling `connect`, of the
steps of the poll loop, and of the delivery by TCP; none for timeouts and
resets. `Election`: weak fairness of entering the election and of
handling some available message, which is what the polling loop does until it
returns; none for timeouts. `Rounds`: weak fairness of calling `sync` again, of
the decision loop's steps, and of a deadline passing; none for finding
solutions, for failing or for crashing. `SyncRound`: weak fairness of every
thread, which runs until it blocks on its endpoints. `PseudoSockets`: weak
fairness of every thread that can go on; neither lock is fair, and datagrams
need not arrive, so `CallsReturn` assumes that no more calls are made and that
every receive gets its datagram. `EveryonePairs`, `EveryoneConnects` and
`EverySyncReturns` promise nothing once a connector has failed or left: the code
waits for ever for such a neighbour unless it has a deadline of its own, and a
child's deadline does not help if the parent skipped the round.

**Mutants.** Next to an operation there is a comment `mutant` where a variation
of it models a plausible mistake; each property is violated by one of them.

## 4. Findings

Checked as a run:

1. `insert_branch_merging` keeps the older of two branches with one predicate
   and gives it the inbox of the newer one (`communication.rs`:1200-1203). While
   branches run, one may stop and wait for a message on k before another, which
   has received it, reaches the same predicate, ends and submits a solution. The
   waiting branch is kept: it now has the message but is not run again, and it
   has not ended. If the solution is decided, `collapse_with` finds no ended
   branch under it and panics (`communication.rs`:1222-1223), although its
   comment promises one (`communication.rs`:1208-1209). In the counterexample
   (`sync_round_lagging`) every thread has by then looked for solutions, and the
   only one there is has lost its branch. What does hold is `SolutionsRetained`.

Reproduced by a configuration of their own (module, property):

2. `MCSyncRoundExited.cfg` (`MCSyncRound`, `DeadChannelsSilent`): a message to a
   component that has exited is dropped because it "cannot be involved in a
   solution" (`communication.rs`:635-636); it can: nobody contradicts the branch
   that put it, and the round succeeds.
3. `MCConnectorUdpVar.cfg` (`MCConnector`, `OneVarPerChannelOfAll`):
   `new_udp_mediator_component` stores wrong peers (`setup.rs`:97 and 107). Its
   ports `uin` and `uout` share a speculative variable although they belong to
   different channels, against the comment in `spec_var_for` (`mod.rs`:478-480).
   `OneVarPerChannel`, which leaves the mediator's own ports out, holds.
4. `MCConnectorEarlyReturn.cfg` (`MCConnector`, `SyncResetsBatches`):
   `connected_sync` returns early when a component is inconsistent before its
   sync block (`communication.rs`:290); the batches are not reset, against the
   documentation of `sync` (`communication.rs`:199-200).
5. `MCSyncRoundAsking.cfg` (`MCSyncRound`, `DeadlineWatched` and
   `RoundDecidable`): two components of
   one connector may exchange the same messages for ever inside the loop over
   the payload inbox (`communication.rs`:564), so that neither solutions nor the
   deadline are looked at. c gets e, puts the question g, gets the answer k; d
   gets g and puts k. When k arrives, c has a branch that still waits for e and
   one that waits for k; fed with k, whose predicate says that e and g fire,
   both get the same predicate. If the former is visited first, it is kept, with
   both inboxes, and puts g again; d's first branch takes it and answers again.
   The documentation of `sync` (`communication.rs`:209-210) promises a best
   effort to return in time.
6. `MCPairingRetry.cfg` (`MCPairing`, `CompleteMeansExchanged`): a retry keeps
   `sent_local_port` and `recv_peer_port` of the connection it replaces
   (`setup.rs`:430-437), so that an endpoint counts as complete (comment at
   `setup.rs`:604) over a connection on which nothing was exchanged.
7. `MCUdpStale.cfg` (`MCUdpRounds`, `SentInItsRound`): the outbox survives a
   failed round; a later round may send an old payload, against the comment that
   the branch consistent with the decision is committed (`endpoints.rs`:397-401). `received_this_round`
   survives it likewise: a mediator that has received in a round that fails takes
   no datagram until a round succeeds, which is why `NotDeafAfterSuccess` speaks
   of rounds after a success only.
8. `MCTypingClaims.cfg` (`MCTyping`; leave one of the three to see each):
   * `LogicalOperandsAreBool`: the operands of `&&` and of `!` are not forced to
     be booleans (`pass_typing.rs`:1778-1785 against the comment in line 1779,
     1870-1875).
   * `AllSettled`: "Whenever a type is progressed we queue the related expressions
     for further type progression" (`pass_typing.rs`:15-16), but when the type of
     an array literal says something about its first element, the literal is
     queued and that element is not (`pass_typing.rs`:2417).
   * `AllWellTyped`: what that leads to. After `x = 5`, the program
     `u8[] z = {x + 1}` is accepted: the addition has the type `u8`, its operands
     were never told and become `s32`, and the array holds an `s32`.

Met while modelling:

9. `find_label` compares a declaration with the `relative_pos_in_parent` of the
   block it is in, not of the label, so that a `goto` may pass a declaration
   (against `pass_validation_linking.rs`:1611-1613) and read an unassigned slot.
   `checked_add_local` has the same confusion, and misses some shadowing.
10. `visit_labeled_stmt` links what comes before to the statement behind the label
    (`pass_validation_linking.rs`:232-237), so that a block that begins with a
    label fails the debug assertion on entering it (`executor.rs`:750).
11. An integer type that was still open becomes `s32` without its `is_done` being
    updated: casts of integer literals are never validated. A function `f<T>` that
    calls `f<T[]>` is never done; there is no occurs check.
12. Unfinished or panicking in the evaluator and in validation: `channel` inside
    `sync` of a primitive (accepted, then `unreachable!()`), `T x = x`, a
    conditional expression testing a variable, negation of unsigned numbers,
    `length` of a message, an expression statement that leaves a value, a function
    that ends without return. Assigning to a variable of string type leaks its
    region; `bool` to `char` is always `\x01`; signed to `char` compares with the
    address of `u8::max`; `char` to an integer wraps; slicing an empty array at 0
    is an error; a second `put` on a port in a round is dropped without a word.

## 5. Proofs

Everything is proved for all values of the constants that satisfy the named
assumptions; the bounds are arbitrary naturals.

* `Solutions_proofs`, of `PredicateUnion`: `WalkIsSound` (`WalkIInv`),
  `UnionExact` (`ResultExact`). Assumes variables are numbers and `Unassigned` is
  no value. `ResultExact` says nothing about the middle of the loop, so the
  inductive invariant `WalkIInv` adds: what an iterator has left behind is
  smaller than all that the other has to visit (otherwise an element that was
  noted as missing could still turn up), the two lists are exactly the
  one-sided keys so far, and the shared keys so far agree. `VerdictExact` turns
  this into the result.
* `Solutions_proofs`, of `SolutionStorage`: `TypeCorrect`, `StorageExact`
  (`LocalSolutionsExact`), `HandedUpOnce` (`NeverHandedUpTwice`),
  `DecisionIsCovered` (`DecisionCovered`). Assumes there is a subtree and
  candidates are predicates. The heart is the lemma `ElaborationIsIncrement`:
  the local solutions after a submission are those before it together with those
  that contain the submitted one. The invariant adds to the properties that what
  was handed up is old (`handedUp \subseteq storage.old_local`), without which a
  solution could become new a second time.
* `Connector_proofs`: `TypeCorrect`, `Ownership` (`OwnershipAgrees`),
  `BatchesOfNative` (`BatchesNative`), `AtomicSync` (`SyncIsAtomic`). The
  invariant adds that ids at and above the counters are unused in `map` and
  `owned`, in `ips` and in the copy (else a new port or component would take over
  an existing one); that known components have ids below the counter and differ
  from the native (else moving ports between components would touch the
  native's); that the copy gives the native the same ports as the original; and
  that before `connect` there are no ports of other connectors. There is one
  lemma per action.
  `VariablesOfChannels` (`OneVarPerChannel`) assumes that `SkipN`, which stands
  for the 100 of the code, is even. Its invariant adds that peers point back and
  no two putters share one, that only net ports lack a peer, and only before
  `connect`, and that the variables of the channels a sync call creates are at
  odd distances from the ids handed out before: the numbers the native's
  branches take are at even ones.
* `Pairing_proofs`: `PairingTypeCorrect`, `NothingIsStranded`
  (`NothingStranded`), `PairingIsRight` (`PairsRightly`). Assumes that every
  channel has two ends, and that only channels are mismatched. `TodoInv` relates
  the flags of an endpoint: who is not incomplete has sent and received, who has
  received and has bytes left is in `polled_undrained`, only active ends are
  retried, a listener has not talked to anybody. `NothingStranded` follows.
  The second part of `PairsRightly` is about the time until some `connect` has
  failed (`FirstTime`), and so is `FirstInv`: a channel then has at most one
  connection, known to both ends (`OneConnection`), a retry replaces only what
  was refused, and a `MyPortInfo` that counts as sent is in the stream, in the
  peer's inbox, or understood (`Told`). Finding 6 shows that this cannot be had
  for later calls.
* `Election_proofs`: `ElectionTypeCorrect`, `GreatestIsElected`
  (`GreatestLeads`), `TreeIsBuilt` (`ConsensusTree`), `NobodyMisbehaves`
  (`NoMisbehavior`), `EarlyMessagesAreKept` (`CommMsgsKept`), for every network,
  and `TreeIsASession`: once all connectors that are linked to each other are
  done, their parents satisfy what `Rounds` assumes of a session, and the
  endpoints a connector has for children lead to exactly the connectors that have
  it for parent, one each, so that `Rounds` may name children by connector.
  Assumes that the two ends of a channel are each other's `Peer`, that ids are
  distinct numbers and that the indices of a connector's endpoints are distinct.
  That the last reply to a connector's wave means that everybody has joined it
  depends on steps that the locals have forgotten since. `WavesInv` says that
  for the wave of every connector w there are sets that tell its history: J,
  those who have joined it; P, the endpoints through which they did; C, those
  who have heard it from all their neighbours. A wave has been sent through an
  endpoint of who has joined, to the parent only by those in C, and is at most
  once in a stream; those in J have grown from w along P. So when w itself is in
  C, C is closed under P and contains all of J, J is closed under channels, and
  as nobody joins a lesser wave w is the greatest (`CompleteWave`). `LeadersInv`
  carries this to those who learn of it by an announcement, `TreeInv` says of
  the second phase that each endpoint carries one message, a
  `YouAreMyParent` exactly to the parent, and what is known of a neighbour that
  is no longer awaited. Whoever leaves the election by an announcement takes
  for parent a connector that has left it before, whence `ParentsAcyclic`.
  `EarlyMessagesAreKept` counts the `CommMsg`s in a stream and in the two lists
  of its receiver.
* `Rounds_proofs`: `RoundsTypeCorrect`, `DecisionsAreJustified`
  (`DecisionsJustified`), `PayloadsAreKept` (`PayloadKept`), and `RoundsAgree`:
  `Rounds` implements `RoundAgreement` (`ImplementsAgreement`). Assumes that a
  session has at most one connector without parent, which is what
  `TreeIsASession` establishes for the connectors that are linked to each other;
  that the parents form no cycle is not needed. The
  invariant follows messages wherever they are, in a stream, delayed or
  undelayed: an `Announce` carries what was decided for its round, a request for
  failure has a cause in its round, and a solution that travels, up or down, or
  that a storage has taken up, is covered by a local solution of the connector
  below for as long as that one is in the round. A decision that is committed
  therefore has a branch. The step simulation needs only that the leader has
  left every decided round and that whoever has completed a round has left it.
* `SyncRound_proofs`: `MessagesAreUnambiguous` (`MessagesUnambiguous`),
  `SolutionsAreRetained` (`SolutionsRetained`), and `BranchesAreRuns` (`IInv`),
  which both follow from. Assumes what `Branches` states of the interpreter and of
  the batches, and nothing else of components and programs.
  `MessagesUnambiguous` says of messages that exist that they do not contradict
  each other; that the next one will not either needs to know where they come
  from. So the invariant says of every message that some single run from the
  start of the sync block, which had received only messages whose predicates the
  message's own predicate covers, came to that put (`Produced`), and of every
  branch that has not ended that it is where such a run would be, however it was
  forked, fed and merged (`Replays`). Two messages of one channel with consistent
  predicates then come from two runs of one component whose inboxes agree, for
  these are covered by consistent predicates and messages were unique so far; by
  `TwoRuns` such runs, put under the union of what they know, go the same way
  until one of them stops at something the other knows, and as neither can know
  of the put on this channel they stop at the same put with the same payload. The
  converse, that a merged branch which keeps the older state gets back to where the
  newer one was, is `Replays` again: it says where the branch would be if it knew
  more, and merging adds knowledge. `SolutionsRetained` holds between tasks only;
  `Kept` follows a branch that a solution needs through the maps `input`, `swap`
  and `output`: a branch under that predicate that has got all its messages goes on
  without a blocker that forks or drops it before it ends (`Retains`), as the
  run that gave the solution did (`Ended`), and merging leaves it all messages.
  There is a lemma per action.
* `UdpRounds_proofs`: `UdpTypeCorrect`, `OnlyDecisionsLeave` (`DatagramsExact`),
  `HearsAfterSuccess` (`NotDeafAfterSuccess`). Assumes that a put to a mediator
  lets the channel's port fire. The invariant says that everything in an outbox,
  the leftovers of failed rounds included, was put under such a predicate, and
  that the puts of the current round are there.
* `PseudoSockets_proofs`: `SocketsTypeCorrect`, `DescriptorsAccounted`
  (`FdsAccounted`), `PhasesInLockstep` (`Lockstep`) and `ConnectorsExclusive`: two
  threads never work on the same connector. The invariant says that the
  descriptors handed out so far are split between the open ones and the list of
  freed ones, which has no duplicates, and that a call that is past the reader
  lock holds it, has an open descriptor and, when it works on the connector,
  holds its mutex.

Only model-checked:

* liveness (`EveryonePairs`, `EveryoneConnects`, `EverySyncReturns`,
  `RoundDecidable`, `CallsReturn`), which is out of the prover's reach;
* what rests on recursion over data: `ElaborationExact`, `Typing`, `Statements`,
  `Store`, `Semantics` and `Evaluator` with all their properties;
* `SolutionsExact` and `GivesUpRightly` of `SyncRound`: their reference lets the
  components run turn by turn, a fold over the channels, and to say that
  speculation arrives where this fold does takes an induction over its length.

## 6. Not modelled

* Branches and decisions together: `Rounds` abstracts what components compute,
  `SyncRound` how the round is decided.
* The byte level of rounds: serialisation by bincode, partial writes, polling
  by mio. `Pairing` has streams of bytes; after it, a stream is a FIFO sequence
  of whole messages.
* Equal connector ids, which `Connector::new` leaves to the caller; exhaustion
  of 32-bit ids.
* `ffi/mod.rs`, which converts arguments and keeps the last error in a thread
  local.
* The tokenizer, the symbol table, imports and `build_base_types`: functions of
  the text, run once before anything else, without interleaving or lasting
  state; operator precedence and parser types of the definition parser likewise.
* Types with two and more polymorphic arguments, the layout of monomorphs in
  memory.
* The AST printer, the scoped buffer and the string pool (lifetimes and raw
  pointers), logging and error types.

## 7. Plan

Done: all modules of section 2 and the proofs of section 5. Next:

1. `SyncRound`: half of `SolutionsExact`, that what can be decided is possible, from
   `SolutionsExplained` and a relational form of `Possible`.
2. `Connector` and `SyncRound` together: that the batches and components of
   connected connectors are a situation of `SyncRound`, so that
   `BatchesAssumption` follows from `OwnershipAgrees`.
