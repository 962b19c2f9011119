------------------------------- MODULE Rounds -------------------------------
(***************************************************************************)
(* The rounds of a connected session: runtime/communication.rs, sync,        *)
(* connected_sync and sync_reach_decision, with the receiving side of         *)
(* runtime/endpoints.rs, try_recv_any_comms.                                  *)
(*                                                                           *)
(* The connectors form the consensus tree that Election builds.  In every     *)
(* round solutions travel up the tree (Suggest), the leader decides, and the  *)
(* decision travels down (Announce).  A connector that times out or cannot    *)
(* succeed asks its parent for failure, once.  Connectors need not be in the  *)
(* same round: messages of past rounds are dropped, those of future rounds    *)
(* are delayed.                                                               *)
(*                                                                           *)
(* What the components of a connector compute in a round is abstracted to     *)
(* the solutions they may submit, each after the payloads it needs have       *)
(* arrived.  Payloads also travel between connectors that are not neighbours  *)
(* in the tree.                                                               *)
(***************************************************************************)
EXTENDS Solutions, Naturals, Sequences, SequencesExt

CONSTANTS
    Nodes,         \* the connectors, numbered; children are announced to in order
    NoParent,      \* the leader's parent
    Candidates,    \* Candidates[n]: the solutions n's own components may find,
                   \* each with the connectors whose payload it needs
    PayloadTo,     \* PayloadTo[n]: the connectors n sends a payload to
    Sessions,      \* the sessions considered, see Session
    MaxRounds      \* bound: the number of sync calls of each connector

ASSUME NodesAssumption == Nodes \subseteq Nat
ASSUME NoParentAssumption == NoParent \notin Nodes

Session == [parent : [Nodes -> Nodes \cup {NoParent}],  \* the consensus tree
            timeouts : SUBSET Nodes,   \* the connectors that call sync with a timeout
            unsat : SUBSET Nodes,      \* whose native or component may be unsatisfiable
            exits : SUBSET Nodes,      \* whose components may be inconsistent before the round
            crashes : SUBSET Nodes]    \* whose process may end

\* connect() has left one leader (Election!GreatestLeads).
ASSUME SessionsAssumption ==
    /\ Sessions \subseteq Session
    /\ \A s \in Sessions : \A n \in Nodes : s.parent[n] # n
    /\ \A s \in Sessions : \A m, n \in Nodes :
            s.parent[m] = NoParent /\ s.parent[n] = NoParent => m = n
ASSUME RoundCandidatesAssumption ==
    Candidates \in [Nodes -> SUBSET [pred : Predicate, needs : SUBSET Nodes]]
ASSUME PayloadToAssumption == PayloadTo \in [Nodes -> SUBSET Nodes]
ASSUME MaxRoundsAssumption == MaxRounds \in Nat

VARIABLES
    session,     \* the tree that connect() has built and the faults; it does not change
    status,      \* idle (between syncs), running, broken (unrecoverable), crashed
    round,       \* comm.round_index
    storage,     \* rctx.solution_storage of the current or the last round
    gotten,      \* the connectors whose payload of this round has arrived
    requested,   \* already_requested_failure
    deadline,    \* rctx.deadline.is_some()
    delayed,     \* em.delayed_messages
    undelayed,   \* em.undelayed_messages
    chan,        \* chan[m][n]: the messages on their way from m to n
    decided,     \* history: the leader's decision of every round
    outcome,     \* history: how every connector completed every round
    excuse       \* history: the rounds in which somebody gave up

local == <<status, round, storage, gotten, requested, deadline>>
inbox == <<delayed, undelayed>>
history == <<decided, outcome, excuse>>
vars == <<session, local, inbox, chan, history>>

RoundIds == 0..(MaxRounds - 1)
Failure == [kind |-> "Failure"]
Success(p) == [kind |-> "Success", predicate |-> p]
Undecided == [kind |-> "Undecided"]
Decisions == {Failure} \cup [kind : {"Success"}, predicate : Predicate]
Suggest(r, d) == [type |-> "Suggest", round |-> r, decision |-> d]
Announce(r, d) == [type |-> "Announce", round |-> r, decision |-> d]
Payload(r) == [type |-> "Payload", round |-> r]
Msg == [type : {"Suggest", "Announce"}, round : RoundIds, decision : Decisions]
         \cup [type : {"Payload"}, round : RoundIds]

Parent(n) == session.parent[n]
Children(n) == {c \in Nodes : Parent(c) = n}
IsRoot(n) == Parent(n) = NoParent
\* SubtreeIds: n itself stands for its native and protocol components.
Subtrees(n) == {n} \cup Children(n)

TypeOK ==
    /\ session \in Sessions
    /\ status \in [Nodes -> {"idle", "running", "broken", "crashed"}]
    /\ round \in [Nodes -> 0..MaxRounds]
    /\ DOMAIN storage = Nodes
    /\ \A n \in Nodes : storage[n] \in Storage(Subtrees(n))
    /\ gotten \in [Nodes -> SUBSET Nodes]
    /\ requested \in [Nodes -> BOOLEAN]
    /\ deadline \in [Nodes -> BOOLEAN]
    /\ delayed \in [Nodes -> Seq(Nodes \X Msg)]
    /\ undelayed \in [Nodes -> Seq(Nodes \X Msg)]
    /\ chan \in [Nodes -> [Nodes -> Seq(Msg)]]
    /\ decided \in [RoundIds -> Decisions \cup {Undecided}]
    /\ outcome \in [Nodes -> [RoundIds -> Decisions \cup {Undecided}]]
    /\ excuse \subseteq RoundIds

Init ==
    /\ session \in Sessions
    /\ status = [n \in Nodes |-> "idle"]
    /\ round = [n \in Nodes |-> 0]
    /\ storage = [n \in Nodes |-> EmptyStorage(Subtrees(n))]
    /\ gotten = [n \in Nodes |-> {}]
    /\ requested = [n \in Nodes |-> FALSE]
    /\ deadline = [n \in Nodes |-> FALSE]
    /\ delayed = [n \in Nodes |-> <<>>]
    /\ undelayed = [n \in Nodes |-> <<>>]
    /\ chan = [m \in Nodes |-> [n \in Nodes |-> <<>>]]
    /\ decided = [r \in RoundIds |-> Undecided]
    /\ outcome = [n \in Nodes |-> [r \in RoundIds |-> Undecided]]
    /\ excuse = {}
-----------------------------------------------------------------------------
(* Ending a round *)

\* chan after n has sent msg to the connectors in `to`.
SendTo(ch, n, to, msg) ==
    [ch EXCEPT ![n] = [m \in Nodes |-> IF m \in to THEN Append(ch[n][m], msg) ELSE ch[n][m]]]

\* send_to_comms(..)? of msg to each of `to` in order, after which n is in
\* status st and round r.  If an endpoint is broken the `?` ends the sync call
\* with an unrecoverable error: the earlier ones have been told, the later ones
\* have not, and sync still advances round_index.
Sending(n, ch, to, msg, st, r) ==
    \/ /\ chan' = SendTo(ch, n, to, msg)
       /\ status' = [status EXCEPT ![n] = st]
       /\ round' = [round EXCEPT ![n] = r]
    \/ \E c \in to :
         /\ status[c] = "crashed"
         /\ chan' = SendTo(ch, n, {b \in to : b < c}, msg)
         /\ status' = [status EXCEPT ![n] = "broken"]
         /\ round' = [round EXCEPT ![n] = @ + 1]

\* The end of connected_sync: announce the decision to the children, then
\* commit or roll back.
EndRound(n, ch, d) ==
    /\ Sending(n, ch, Children(n), Announce(round[n], d), "idle", round[n] + 1)
    /\ outcome' = IF status'[n] = "idle"
                  THEN [outcome EXCEPT ![n][round[n]] = d] ELSE outcome

\* The leader ends the round with a decision of its own.
RootDecides(n, ch, d) ==
    /\ EndRound(n, ch, d)
    /\ decided' = [decided EXCEPT ![round[n]] = d]

\* A message to the parent.
SendUp(n, ch, msg) == Sending(n, ch, {Parent(n)}, msg, "running", round[n])

\* (mutant) the flag is set, the request is not sent
GiveUpQuietly(n, ch) ==
    IF IsRoot(n)
    THEN RootDecides(n, ch, Failure) /\ UNCHANGED requested
    ELSE /\ chan' = ch
         /\ requested' = [requested EXCEPT ![n] = TRUE]
         /\ UNCHANGED <<status, round, decided, outcome>>

\* "if already_requested_failure.replace_with_true() { request_failure }" at a
\* connector with a parent; Decision::Failure at the leader.
GiveUp(n, ch) ==
    IF IsRoot(n)
    THEN /\ RootDecides(n, ch, Failure)
         /\ UNCHANGED requested
    ELSE /\ IF requested[n]
            THEN chan' = ch /\ UNCHANGED <<status, round>>
            ELSE SendUp(n, ch, Suggest(round[n], Failure))
         /\ requested' = [requested EXCEPT ![n] = TRUE]
         /\ UNCHANGED <<decided, outcome>>
-----------------------------------------------------------------------------
(* Starting a round *)

\* sync() is called: the components enter their sync blocks, the delayed
\* messages get another chance, and the first payloads go out.
StartSync(n) ==
    /\ status[n] = "idle"
    /\ round[n] < MaxRounds
    /\ Sending(n, chan, PayloadTo[n], Payload(round[n]), "running", round[n])
    /\ storage' = [storage EXCEPT ![n] = EmptyStorage(Subtrees(n))]
    /\ gotten' = [gotten EXCEPT ![n] = {}]
    /\ requested' = [requested EXCEPT ![n] = FALSE]
    /\ deadline' = [deadline EXCEPT ![n] = n \in session.timeouts]
    /\ undelayed' = [undelayed EXCEPT ![n] = @ \o delayed[n]]      \* undelay_all
    /\ delayed' = [delayed EXCEPT ![n] = <<>>]
    /\ UNCHANGED history

\* A component is inconsistent before its sync block: connected_sync returns
\* InconsistentProtoComponent at once, and nobody is told.
ExitInconsistent(n) ==
    /\ n \in session.exits
    /\ status[n] = "idle"
    /\ round[n] < MaxRounds
    /\ round' = [round EXCEPT ![n] = @ + 1]
    /\ UNCHANGED <<status, storage, gotten, requested, deadline, inbox, chan, history>>
-----------------------------------------------------------------------------
(* The decision loop *)

\* A branch of the native or of a component ends.
LocalSolution(n, cand) ==
    /\ status[n] = "running"
    /\ cand.needs \subseteq gotten[n]
    /\ cand.pred \notin storage[n].subtree_solutions[n]
    /\ storage' = [storage EXCEPT ![n] = Digest(Subtrees(n), @, n, cand.pred)]
    /\ UNCHANGED <<status, round, gotten, requested, deadline, inbox, chan, history>>

\* The native has no branch, or a component has none left.
Unsatisfiable(n) ==
    /\ n \in session.unsat
    /\ status[n] = "running"
    /\ ~requested[n]
    /\ GiveUp(n, chan)
    /\ excuse' = excuse \cup {round[n]}
    /\ UNCHANGED <<storage, gotten, deadline, inbox>>

\* A new local solution goes to the parent ...
HandUp(n) ==
    /\ status[n] = "running"
    /\ ~IsRoot(n)
    /\ \E p \in storage[n].new_local :
         /\ storage' = [storage EXCEPT ![n].new_local = @ \ {p}, ![n].old_local = @ \cup {p}]
         /\ SendUp(n, chan, Suggest(round[n], Success(p)))
    /\ UNCHANGED <<gotten, requested, deadline, inbox, history>>

\* ... or is the leader's decision.
DecideSuccess(n) ==
    /\ status[n] = "running"
    /\ IsRoot(n)
    /\ \E p \in storage[n].new_local :
         /\ storage' = [storage EXCEPT ![n].new_local = {}, ![n].old_local = @ \cup {p}]
         /\ RootDecides(n, chan, Success(p))
    /\ UNCHANGED <<gotten, requested, deadline, inbox, excuse>>

\* try_recv_any_comms takes the last undelayed message if there is one,
\* otherwise the first message of any stream ...
Incoming(n) ==
    IF undelayed[n] # <<>>
    THEN {Last(undelayed[n])}
    ELSE {<<m, Head(chan[m][n])>> : m \in {k \in Nodes : chan[k][n] # <<>>}}

\* ... and this is what is left of the two.
UndelayedAfter(n) ==
    IF undelayed[n] # <<>> THEN [undelayed EXCEPT ![n] = Front(@)] ELSE undelayed
ChanAfter(n, m) ==
    IF undelayed[n] # <<>> THEN chan ELSE [chan EXCEPT ![m][n] = Tail(@)]

\* handle_msg, Ordering::Less: a message of a past round is discarded.
DropPast(n, m, msg) ==
    /\ msg.round < round[n]
    /\ chan' = ChanAfter(n, m)
    /\ UNCHANGED <<local, delayed, history>>

\* (mutant) a message of another round, past or future, is discarded
DelayFutureDrops(n, m, msg) ==
    /\ msg.round > round[n]
    /\ chan' = ChanAfter(n, m)
    /\ UNCHANGED <<local, delayed, history>>

\* handle_msg, Ordering::Greater: one of a future round is kept for later.
DelayFuture(n, m, msg) ==
    /\ msg.round > round[n]
    /\ chan' = ChanAfter(n, m)
    /\ delayed' = [delayed EXCEPT ![n] = Append(@, <<m, msg>>)]
    /\ UNCHANGED <<local, history>>

\* A payload of this round is buffered for its getter.
GetPayload(n, m, msg) ==
    /\ msg.round = round[n]
    /\ msg.type = "Payload"
    /\ gotten' = [gotten EXCEPT ![n] = @ \cup {m}]
    /\ chan' = ChanAfter(n, m)
    /\ UNCHANGED <<status, round, storage, requested, deadline, delayed, history>>

\* Suggest { Success } of a child: its solution joins the storage.
ChildSolution(n, m, msg) ==
    /\ msg.round = round[n]
    /\ msg.type = "Suggest" /\ msg.decision.kind = "Success"
    /\ m \in Children(n)
    /\ storage' = [storage EXCEPT ![n] = Digest(Subtrees(n), @, m, msg.decision.predicate)]
    /\ chan' = ChanAfter(n, m)
    /\ UNCHANGED <<status, round, gotten, requested, deadline, delayed, history>>

\* (mutant) failure requests are not checked against the round
ChildFailureAnyRound(n, m, msg) ==
    /\ msg.type = "Suggest" /\ msg.decision.kind = "Failure"
    /\ m \in Children(n)
    /\ GiveUp(n, ChanAfter(n, m))
    /\ UNCHANGED <<storage, gotten, deadline, delayed, excuse>>

\* Suggest { Failure } of a child: the leader decides, the others pass it on.
ChildFailure(n, m, msg) ==
    /\ msg.round = round[n]
    /\ msg.type = "Suggest" /\ msg.decision.kind = "Failure"
    /\ m \in Children(n)
    /\ GiveUp(n, ChanAfter(n, m))
    /\ UNCHANGED <<storage, gotten, deadline, delayed, excuse>>

\* (mutant) announcements are not checked against the round
AnnouncedAnyRound(n, m, msg) ==
    /\ msg.type = "Announce"
    /\ m = Parent(n)
    /\ EndRound(n, ChanAfter(n, m), msg.decision)
    /\ UNCHANGED <<storage, gotten, requested, deadline, delayed, decided, excuse>>

\* Announce of the parent: the round is over.
Announced(n, m, msg) ==
    /\ msg.round = round[n]
    /\ msg.type = "Announce"
    /\ m = Parent(n)
    /\ EndRound(n, ChanAfter(n, m), msg.decision)
    /\ UNCHANGED <<storage, gotten, requested, deadline, delayed, decided, excuse>>

\* The loop receives only when no new local solution is left to hand up.
Recv(n) ==
    /\ status[n] = "running"
    /\ storage[n].new_local = {}
    /\ \E fm \in Incoming(n) : LET m == fm[1]  msg == fm[2] IN
        \/ DropPast(n, m, msg)
        \/ DelayFuture(n, m, msg)
        \/ GetPayload(n, m, msg)
        \/ ChildSolution(n, m, msg)
        \/ ChildFailure(n, m, msg)
        \/ Announced(n, m, msg)
    /\ undelayed' = UndelayedAfter(n)

\* CommRecvOk::TimeoutWithoutNew.  Messages may be on their way; the undelayed
\* ones have been handled.  The deadline is disabled afterwards.
Timeout(n) ==
    /\ status[n] = "running"
    /\ deadline[n]
    /\ storage[n].new_local = {}
    /\ undelayed[n] = <<>>
    /\ GiveUp(n, chan)
    /\ deadline' = [deadline EXCEPT ![n] = FALSE]
    /\ excuse' = excuse \cup {round[n]}
    /\ UNCHANGED <<storage, gotten, inbox>>

\* The process of n ends.
Crash(n) ==
    /\ n \in session.crashes
    /\ status[n] \in {"idle", "running"}
    /\ status' = [status EXCEPT ![n] = "crashed"]
    /\ UNCHANGED <<round, storage, gotten, requested, deadline, inbox, chan, history>>

\* Reading from the endpoint of a crashed neighbour may fail: unrecoverable.
ReadBroken(n) ==
    /\ status[n] = "running"
    /\ storage[n].new_local = {}
    /\ \E m \in Nodes :
         /\ m \in Children(n) \/ m = Parent(n) \/ m \in PayloadTo[n] \/ n \in PayloadTo[m]
         /\ status[m] = "crashed"
    /\ status' = [status EXCEPT ![n] = "broken"]
    /\ round' = [round EXCEPT ![n] = @ + 1]
    /\ UNCHANGED <<storage, gotten, requested, deadline, inbox, chan, history>>

Step(n) ==
    \/ StartSync(n)
    \/ ExitInconsistent(n)
    \/ \E cand \in Candidates[n] : LocalSolution(n, cand)
    \/ Unsatisfiable(n)
    \/ HandUp(n)
    \/ DecideSuccess(n)
    \/ Recv(n)
    \/ Timeout(n)
    \/ Crash(n)
    \/ ReadBroken(n)

Next == (\E n \in Nodes : Step(n)) /\ UNCHANGED session

Spec == Init /\ [][Next]_vars

\* The applications keep calling sync, the decision loop keeps running, and
\* the clock reaches every deadline.
Fairness ==
    \A n \in Nodes :
        /\ WF_vars(StartSync(n) /\ UNCHANGED session)
        /\ WF_vars((HandUp(n) \/ DecideSuccess(n)) /\ UNCHANGED session)
        /\ WF_vars(Recv(n) /\ UNCHANGED session)
        /\ WF_vars(Timeout(n) /\ UNCHANGED session)

FairSpec == Spec /\ Fairness
-----------------------------------------------------------------------------
(* Properties *)

\* The session implements RoundAgreement: one decision per round, completed by
\* everybody who completes the round.
Agreement == INSTANCE RoundAgreement
    WITH Nodes <- Nodes, RoundIds <- RoundIds, Decisions <- Decisions,
         Undecided <- Undecided, decided <- decided, outcome <- outcome
ImplementsAgreement == Agreement!Spec

\* Whoever commits a decision has a branch to commit: it submitted, in that
\* round, a solution of its own that the decided predicate contains.
\* (collapse_with panics otherwise.)
CommitHasBranch ==
    \A n \in Nodes : status[n] = "idle" /\ round[n] > 0 =>
        LET d == outcome[n][round[n] - 1]
        IN  d.kind = "Success" =>
              \E q \in storage[n].subtree_solutions[n] : AssignsSubset(q, d.predicate)

\* A round fails only if somebody timed out or was unsatisfiable in that very
\* round; a failure request of an earlier round never ends a later one.
FailureHasCause ==
    \A r \in RoundIds : decided[r] = Failure => r \in excuse

\* What is decided is justified, a success at every connector that commits it
\* and a failure by its cause.
DecisionsJustified == CommitHasBranch /\ FailureHasCause

\* A payload of round r reaches its receiver in round r, however far ahead the
\* sender is: until the receiver has finished round r the payload is on its way,
\* delayed, undelayed, or has been gotten.  (handle_msg delays what is early.)
PayloadKept ==
    \A a, b \in Nodes : \A r \in RoundIds :
        /\ b \in PayloadTo[a] /\ status[a] \in {"idle", "running"} /\ a \notin session.exits
        /\ r < round[a] \/ (r = round[a] /\ status[a] = "running")
        /\ status[b] \in {"idle", "running"} /\ round[b] <= r
        => \/ \E i \in DOMAIN chan[a][b] : chan[a][b][i] = Payload(r)
           \/ \E i \in DOMAIN delayed[b] : delayed[b][i] = <<a, Payload(r)>>
           \/ \E i \in DOMAIN undelayed[b] : undelayed[b][i] = <<a, Payload(r)>>
           \/ status[b] = "running" /\ r = round[b] /\ a \in gotten[b]

\* A connector has left a round that its neighbours may wait in: it broke down,
\* or returned from sync without a decision.
Abandoned(n) ==
    \/ status[n] \in {"broken", "crashed"}
    \/ \E r \in RoundIds : r < round[n] /\ outcome[n][r] = Undecided

\* If somebody has a deadline in every round, every sync call of every connector
\* returns: one request for failure is enough (request_failure, rctx.deadline =
\* None).  This cannot be expected once somebody has abandoned a round.
EverySyncReturns ==
    <>(\/ \A n \in Nodes : status[n] = "idle" /\ round[n] = MaxRounds
       \/ \E n \in Nodes : Abandoned(n))
=============================================================================
