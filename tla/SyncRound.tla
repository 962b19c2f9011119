----------------------------- MODULE SyncRound ------------------------------
(***************************************************************************)
(* Speculative execution inside one synchronous round: the branches of the   *)
(* natives and of the protocol components of all connectors                  *)
(* (runtime/communication.rs, BranchingNative and BranchingProtoComponent,    *)
(* with the payload part of sync_reach_decision).                            *)
(*                                                                           *)
(* A component is run on every speculation about which channels fire; a       *)
(* message carries the predicate of the branch that put it and is fed to all  *)
(* branches that are consistent with it.  Branches are kept in hash maps, so   *)
(* they are visited in any order, and branches that meet under one predicate  *)
(* are merged.  Every connector is a thread; messages to other connectors     *)
(* travel over FIFO streams.                                                  *)
(*                                                                           *)
(* A connector is named by its native component.  PDL evaluation is the       *)
(* parameter Run.  How the solutions of components are combined is the         *)
(* subject of SolutionStorage, how the round is decided that of Rounds.       *)
(***************************************************************************)
EXTENDS Solutions, Naturals, FiniteSets, Sequences, SequencesExt

CONSTANTS
    Natives,       \* the connectors
    Leader,        \* the one without a parent
    Comps,         \* the protocol components in their sync blocks
    Home,          \* Home[c]: the connector that runs component c
    Channels,
    PutterOf,      \* the owners of the two ports of a channel
    GetterOf,
    Exited,        \* the owner of the ports of components that have exited
    Payloads,
    Situations,    \* what the round may begin with: [start, batches], where c enters
                   \* its sync block in start[c] and n has prepared batches[n]
    Run(_, _, _)   \* Run(c, branch, predicate): ComponentState::sync_run

Owners == Natives \cup Comps

ASSUME LeaderAssumption == Leader \in Natives
ASSUME HomeAssumption == Home \in [Comps -> Natives] /\ Natives \cap Comps = {}
ASSUME EndsAssumption ==
    /\ Exited \notin Owners
    /\ PutterOf \in [Channels -> Owners] /\ GetterOf \in [Channels -> Owners \cup {Exited}]
\* spec_var_for names a channel; every connector has one more variable
ASSUME SpecVarsAssumption == SpecVars = Channels \cup Natives

Silent == 0
Firing == 1
HomeOf(o) == IF o \in Natives THEN o ELSE Home[o]

VARIABLES
    start, batches,   \* what the components and natives enter the round with
    nbranches,        \* nbranches[n]: BranchingNative.branches of n
    cbranches,        \* cbranches[c]: BranchingProtoComponent.branches of c
    payload_inbox,    \* payload_inbox[n]: a stack of <<channel, message>>
    net,              \* net[ch]: messages on their way to another connector
    solutions,        \* solutions[o]: what owner o has submitted
    unrun,            \* unrun[n]: components that have not run to a blocker yet
    task,             \* task[n]: what the thread of n is doing, see Task
    failed,           \* failed[n]: n has asked for failure (or, leading, decided it)
    panicked,         \* an assertion failed
    sent              \* history: all messages put, as <<channel, message>>

branchVars == <<nbranches, cbranches>>
given == <<start, batches>>
vars == <<given, branchVars, payload_inbox, net, solutions, unrun, task, failed, panicked, sent>>

Message == [pred : Predicate, payload : Payloads]

\* What a thread is in the middle of: draining `input` into `swap` and `output`,
\* on behalf of component `comp`, having received <<chan, msg>>.
Task(kind, comp, cm, input) ==
    [kind |-> kind, comp |-> comp, cm |-> cm, input |-> input, swap |-> <<>>, output |-> <<>>]
Loop == Task("loop", "none", <<>>, <<>>)

\* ProtoComponentBranch with its state at SyncBlockStart, as in `initial`.
InitialBranch(s) == [state |-> s, inbox |-> <<>>, did_put_or_get |-> {}, ended |-> FALSE]
Initial(s) == [p \in {NoAssignments} |-> InitialBranch(s)]

Init ==
    /\ \E situation \in Situations :
         start = situation.start /\ batches = situation.batches
    /\ nbranches = [n \in Natives |-> <<>>]
    /\ cbranches = [c \in Comps |-> Initial(start[c])]
    /\ payload_inbox = [n \in Natives |-> <<>>]
    /\ net = [ch \in Channels |-> <<>>]
    /\ solutions = [o \in Owners |-> {}]
    /\ unrun = [n \in Natives |-> {c \in Comps : Home[c] = n}]
    /\ task = [n \in Natives |-> Task("begin", "none", <<>>, <<>>)]
    /\ failed = [n \in Natives |-> FALSE]
    /\ panicked = FALSE
    /\ sent = {}
-----------------------------------------------------------------------------
(* Maps of branches *)

With(m, k, v) == [j \in DOMAIN m \cup {k} |-> IF j = k THEN v ELSE m[j]]
Without(m, k) == [j \in DOMAIN m \ {k} |-> m[j]]
Override(f, g) == [j \in DOMAIN f \cup DOMAIN g |-> IF j \in DOMAIN f THEN f[j] ELSE g[j]]

\* (mutant) the newer branch replaces the older one
MergedReplacing(m, p, b) == With(m, p, b)

\* BranchingProtoComponent::insert_branch_merging: the older branch stays and
\* also gets the messages of the newer one.
Merged(m, p, b) ==
    IF p \in DOMAIN m THEN [m EXCEPT ![p].inbox = Override(b.inbox, @)] ELSE With(m, p, b)

\* (mutant) the messages are united, what remains to be gotten is not
NativeMergedWaiting(m, p, b) ==
    IF p \in DOMAIN m THEN [m EXCEPT ![p].gotten = Override(b.gotten, @)] ELSE With(m, p, b)

\* BranchingNative::insert_branch_merging
NativeMerged(m, p, b) ==
    IF p \in DOMAIN m
    THEN [m EXCEPT ![p].gotten = Override(b.gotten, @),
                   ![p].to_get = @ \ (DOMAIN b.gotten \ DOMAIN m[p].gotten)]
    ELSE With(m, p, b)

\* Ports of an owner, and the channels they are ports of.
Ports(o) ==
    {<<ch, "Putter">> : ch \in {k \in Channels : PutterOf[k] = o}}
        \cup {<<ch, "Getter">> : ch \in {k \in Channels : GetterOf[k] = o}}
ChannelsOf(o) == {port[1] : port \in Ports(o)}

\* A component has no branch left, or a native none to start with: the leader
\* decides on failure, the others ask for it and go on.
GiveUp(n) ==
    /\ failed' = [failed EXCEPT ![n] = TRUE]
    /\ task' = [task EXCEPT ![n] = [Loop EXCEPT !.kind = IF n = Leader THEN "decided" ELSE "loop"]]
-----------------------------------------------------------------------------
(* The native's batches become branches *)

FiringPorts(b) ==
    {<<ch, "Putter">> : ch \in DOMAIN b.to_put} \cup {<<ch, "Getter">> : ch \in b.to_get}

\* One end of a channel of the native fires, the other is silent.
Contradictory(n, b) ==
    \E port \in FiringPorts(b), other \in Ports(n) \ FiringPorts(b) : port[1] = other[1]

BatchPredicate(n, i) ==
    LET firing == {port[1] : port \in FiringPorts(batches[n][i])}
    IN  [v \in SpecVars |->
            IF v = n THEN i - 1
            ELSE IF v \in firing THEN Firing
            ELSE IF v \in ChannelsOf(n) THEN Silent ELSE Unassigned]

\* The indices of the batches that become branches.
Consistents(n) == {i \in DOMAIN batches[n] : ~Contradictory(n, batches[n][i])}

\* The messages that the batches put.
BatchPuts(n) ==
    UNION {{<<ch, [pred |-> BatchPredicate(n, i), payload |-> batches[n][i].to_put[ch]]>> :
                ch \in DOMAIN batches[n][i].to_put} : i \in Consistents(n)}

Begin(n) ==
    /\ task[n].kind = "begin"
    /\ nbranches' = [nbranches EXCEPT ![n] =
          [p \in {BatchPredicate(n, i) : i \in Consistents(n)} |->
             [index |-> p[n], gotten |-> <<>>, to_get |-> batches[n][p[n] + 1].to_get]]]
    /\ solutions' = [solutions EXCEPT ![n] =
          {BatchPredicate(n, i) : i \in {j \in Consistents(n) : batches[n][j].to_get = {}}}]
    /\ \E order \in SetToSeqs(BatchPuts(n)) :
         /\ \A i, j \in DOMAIN order : i < j => order[i][2].pred[n] <= order[j][2].pred[n]
         /\ payload_inbox' = [payload_inbox EXCEPT ![n] = order]
    /\ sent' = sent \cup BatchPuts(n)
    /\ IF Consistents(n) = {} THEN GiveUp(n)
       ELSE task' = [task EXCEPT ![n] = Loop] /\ UNCHANGED failed
    /\ UNCHANGED <<given, cbranches, net, unrun, panicked>>
-----------------------------------------------------------------------------
(* Running the branches of a component: drain_branches_to_blocked *)

\* The thread goes on with t; when `input` is drained, `swap` is next.
Cycle(n, t) ==
    task' = [task EXCEPT ![n] = IF t.input = <<>> THEN [t EXCEPT !.input = t.swap, !.swap = <<>>]
                                                  ELSE t]

\* The branch is inconsistent: it is dropped.
HitInconsistent(n, t, p, r) ==
    /\ r.blocker = "Inconsistent"
    /\ Cycle(n, t)
    /\ UNCHANGED <<payload_inbox, solutions, panicked, sent>>

\* CouldntReadMsg: the branch is blocked.
HitRead(n, t, p, r) ==
    /\ r.blocker = "CouldntReadMsg"
    /\ panicked' = (panicked \/ r.channel \in DOMAIN r.branch.inbox)
    /\ Cycle(n, [t EXCEPT !.output = Merged(@, p, r.branch)])
    /\ UNCHANGED <<payload_inbox, solutions, sent>>

\* (mutant) the branch is scheduled again without a speculation
HitFiringUnassigned(n, t, p, r) ==
    /\ r.blocker = "CouldntCheckFiring"
    /\ Cycle(n, [t EXCEPT !.swap = Merged(@, p, r.branch)])
    /\ UNCHANGED <<payload_inbox, solutions, panicked, sent>>

\* CouldntCheckFiring: both possibilities are pursued.
HitFiring(n, t, p, r) ==
    /\ r.blocker = "CouldntCheckFiring"
    /\ panicked' = (panicked \/ Query(p, r.channel) # Unassigned)
    /\ Cycle(n, [t EXCEPT !.swap =
                    Merged(Merged(@, Inserted(p, r.channel, Silent), r.branch),
                           Inserted(p, r.channel, Firing), r.branch)])
    /\ UNCHANGED <<payload_inbox, solutions, sent>>

\* (mutant) the message does not carry the branch's predicate
HitPutUnlabelled(n, t, p, r) ==
    /\ r.blocker = "PutMsg"
    /\ LET q == Inserted(p, r.channel, Firing)
           cm == <<r.channel, [pred |-> Singleton(r.channel, Firing), payload |-> r.payload]>>
       IN  IF p[r.channel] = Silent
           THEN Cycle(n, t) /\ UNCHANGED <<payload_inbox, sent>>
           ELSE /\ payload_inbox' = [payload_inbox EXCEPT ![n] = Append(@, cm)]
                /\ sent' = sent \cup {cm}
                /\ Cycle(n, [t EXCEPT !.swap =
                      Merged(@, q, [r.branch EXCEPT !.did_put_or_get = @ \cup {<<r.channel, "Putter">>}])])
    /\ UNCHANGED <<solutions, panicked>>

\* PutMsg: inconsistent if the port is speculated to be silent; otherwise the
\* message goes out with the predicate of the branch.
HitPut(n, t, p, r) ==
    /\ r.blocker = "PutMsg"
    /\ LET port == <<r.channel, "Putter">>
           q == Inserted(p, r.channel, Firing)
           cm == <<r.channel, [pred |-> q, payload |-> r.payload]>>
       IN  IF Query(p, r.channel) = Silent
           THEN Cycle(n, t) /\ UNCHANGED <<payload_inbox, sent, panicked>>
           ELSE /\ panicked' = (panicked \/ port \in r.branch.did_put_or_get)
                /\ payload_inbox' = [payload_inbox EXCEPT ![n] = Append(@, cm)]
                /\ sent' = sent \cup {cm}
                /\ Cycle(n, [t EXCEPT !.swap =
                      Merged(@, q, [r.branch EXCEPT !.did_put_or_get = @ \cup {port}])])
    /\ UNCHANGED solutions

\* The predicate of a branch that ends: ports it did not decide on are silent.
EndPredicate(c, p) ==
    [v \in SpecVars |-> IF v \in ChannelsOf(c) /\ p[v] = Unassigned THEN Silent ELSE p[v]]

\* SyncBlockEnd: a solution, unless the branch did not exchange exactly the
\* messages it speculated on.
HitEnd(n, t, p, r) ==
    /\ r.blocker = "SyncBlockEnd"
    /\ LET q == EndPredicate(t.comp, p)
           honest == \A port \in Ports(t.comp) :
                        port \in r.branch.did_put_or_get <=> q[port[1]] = Firing
       IN  IF honest
           THEN /\ solutions' = [solutions EXCEPT ![t.comp] = @ \cup {q}]
                /\ Cycle(n, [t EXCEPT !.output = Merged(@, q, [r.branch EXCEPT !.ended = TRUE])])
           ELSE Cycle(n, t) /\ UNCHANGED solutions
    /\ UNCHANGED <<payload_inbox, panicked, sent>>

\* Any branch of a hash map may be the next one to run.
RunBranch(n) ==
    /\ task[n].kind = "drain"
    /\ \E p \in DOMAIN task[n].input :
        LET r == Run(task[n].comp, task[n].input[p], p)
            t == [task[n] EXCEPT !.input = Without(@, p)]
        IN  \/ HitInconsistent(n, t, p, r)
            \/ HitRead(n, t, p, r)
            \/ HitFiring(n, t, p, r)
            \/ HitPut(n, t, p, r)
            \/ HitEnd(n, t, p, r)
    /\ UNCHANGED <<given, branchVars, net, unrun, failed>>

\* All branches are blocked or have ended.
Settle(n) ==
    /\ task[n].kind = "drain"
    /\ task[n].input = <<>>
    /\ cbranches' = [cbranches EXCEPT ![task[n].comp] = task[n].output]
    /\ IF task[n].output = <<>> THEN GiveUp(n)
       ELSE task' = [task EXCEPT ![n] = Loop] /\ UNCHANGED failed
    /\ UNCHANGED <<given, nbranches, payload_inbox, net, solutions, unrun, panicked, sent>>

\* Before the decision loop every component runs to its first blocker.
RunFirst(n) ==
    /\ task[n].kind = "loop"
    /\ \E c \in unrun[n] :
        /\ unrun' = [unrun EXCEPT ![n] = @ \ {c}]
        /\ task' = [task EXCEPT ![n] = Task("drain", c, <<>>, cbranches[c])]
    /\ UNCHANGED <<given, branchVars, payload_inbox, net, solutions, failed, panicked, sent>>
-----------------------------------------------------------------------------
(* Feeding messages to branches *)

\* When all branches have been visited the unblocked ones (kept in swap) run.
Visited(t) ==
    IF t.input = <<>> THEN [t EXCEPT !.kind = "drain", !.input = t.swap, !.swap = <<>>] ELSE t

\* The message on top of the stack is routed: to another connector, to the
\* native, to a component; if that one has exited the message is dropped.
Route(n) ==
    /\ task[n].kind \in {"loop", "recv"}
    /\ unrun[n] = {}
    /\ payload_inbox[n] # <<>>
    /\ payload_inbox' = [payload_inbox EXCEPT ![n] = Front(@)]
    /\ LET cm == Last(payload_inbox[n])
           getter == GetterOf[cm[1]]
       IN  IF getter \in Owners /\ HomeOf(getter) # n
           THEN /\ net' = [net EXCEPT ![cm[1]] = Append(@, cm[2])]
                /\ task' = [task EXCEPT ![n] = Loop]
           ELSE /\ task' = [task EXCEPT ![n] =
                      IF getter = n THEN Task("native", "none", cm, nbranches[n])
                      ELSE IF getter \in Comps THEN Visited(Task("feed", getter, cm, cbranches[getter]))
                      ELSE Loop]
                /\ UNCHANGED net
    /\ UNCHANGED <<given, branchVars, solutions, unrun, failed, panicked, sent>>

\* try_recv_any_comms: with nothing left to route, payloads are received.
Receive(n) ==
    /\ unrun[n] = {}
    /\ \/ task[n].kind = "loop" /\ payload_inbox[n] = <<>>
       \/ task[n].kind = "recv"
    /\ \E ch \in Channels :
        /\ GetterOf[ch] \in Owners /\ HomeOf(GetterOf[ch]) = n
        /\ net[ch] # <<>>
        /\ net' = [net EXCEPT ![ch] = Tail(@)]
        /\ payload_inbox' = [payload_inbox EXCEPT ![n] = Append(@, <<ch, Head(net[ch])>>)]
    /\ task' = [task EXCEPT ![n] = [Loop EXCEPT !.kind = "recv"]]
    /\ UNCHANGED <<given, branchVars, solutions, unrun, failed, panicked, sent>>

\* ProtoComponentBranch::feed_msg
Fed(b, cm) == [b EXCEPT !.inbox = With(@, cm[1], cm[2].payload)]
Conflicting(f, cm) == cm[1] \in DOMAIN f /\ f[cm[1]] # cm[2].payload

\* Whether a branch receives a message.
Receives(p, b, m) == ~b.ended /\ AssignmentUnion(p, m.pred) # "Nonexistant"

\* (mutant) the branch that did not get the message is not kept
FeedBranchMoves(t, p, b) ==
    IF Receives(p, b, t.cm[2])
    THEN [t EXCEPT !.swap = Merged(@, UnionWith(p, t.cm[2].pred), Fed(b, t.cm))]
    ELSE [t EXCEPT !.output = Merged(@, p, b)]

\* Equivalent, FormerNotLatter: the branch gets the message and is unblocked.
\* LatterNotFormer, New: it stays blocked, and a fork of it gets the message.
FeedBranch(t, p, b) ==
    CASE ~Receives(p, b, t.cm[2]) ->
           [t EXCEPT !.output = Merged(@, p, b)]
      [] Receives(p, b, t.cm[2]) /\ AssignmentUnion(p, t.cm[2].pred) \in {"Equivalent", "FormerNotLatter"} ->
           [t EXCEPT !.swap = Merged(@, p, Fed(b, t.cm))]
      [] OTHER ->
           [t EXCEPT !.output = Merged(@, p, b),
                     !.swap = Merged(@, UnionWith(p, t.cm[2].pred), Fed(b, t.cm))]

FeedComponent(n) ==
    /\ task[n].kind = "feed"
    /\ \E p \in DOMAIN task[n].input :
        LET b == task[n].input[p]
            t == [task[n] EXCEPT !.input = Without(@, p)]
        IN  /\ task' = [task EXCEPT ![n] = Visited(FeedBranch(t, p, b))]
            /\ panicked' = (panicked \/ (Receives(p, b, t.cm[2]) /\ Conflicting(b.inbox, t.cm)))
    /\ UNCHANGED <<given, branchVars, payload_inbox, net, solutions, unrun, failed, sent>>

\* feed_branch of the native: the message has arrived.
NativeFed(b, cm) ==
    [b EXCEPT !.to_get = @ \ {cm[1]}, !.gotten = With(@, cm[1], cm[2].payload)]

\* The same for the native, which only cares about ports it wants to fire; a
\* branch that has everything it waits for is a solution.
FeedNative(n) ==
    /\ task[n].kind = "native"
    /\ \E p \in DOMAIN task[n].input :
        LET b == task[n].input[p]
            cm == task[n].cm
            t == [task[n] EXCEPT !.input = Without(@, p)]
            wants == Query(p, cm[1]) = Firing /\ AssignmentUnion(p, cm[2].pred) # "Nonexistant"
            q == UnionWith(p, cm[2].pred)
            kept == IF wants /\ q = p THEN t.output ELSE NativeMerged(t.output, p, b)
        IN  /\ IF wants
               THEN /\ task' = [task EXCEPT ![n] =
                          [t EXCEPT !.output = NativeMerged(kept, q, NativeFed(b, cm))]]
                    /\ solutions' = [solutions EXCEPT ![n] =
                          @ \cup IF NativeFed(b, cm).to_get = {} THEN {q} ELSE {}]
                    /\ panicked' = (panicked \/ Conflicting(b.gotten, cm))
               ELSE /\ task' = [task EXCEPT ![n] = [t EXCEPT !.output = kept]]
                    /\ UNCHANGED <<solutions, panicked>>
    /\ UNCHANGED <<given, branchVars, payload_inbox, net, unrun, failed, sent>>

NativeDone(n) ==
    /\ task[n].kind = "native"
    /\ task[n].input = <<>>
    /\ nbranches' = [nbranches EXCEPT ![n] = task[n].output]
    /\ task' = [task EXCEPT ![n] = Loop]
    /\ UNCHANGED <<given, cbranches, payload_inbox, net, solutions, unrun, failed, panicked, sent>>

Step(n) ==
    \/ Begin(n)
    \/ RunFirst(n)
    \/ RunBranch(n)
    \/ Settle(n)
    \/ Route(n)
    \/ Receive(n)
    \/ FeedComponent(n)
    \/ FeedNative(n)
    \/ NativeDone(n)

Next == \E n \in Natives : Step(n)

Spec == Init /\ [][Next]_vars

\* No thread stops as long as there is something to run, route or receive.
FairSpec == Spec /\ \A n \in Natives : WF_vars(Step(n))
-----------------------------------------------------------------------------
(* The executions that speculation is meant to find.  `A` assigns a value to  *)
(* every variable: which channels fire, and the batch of every native.         *)

Assignments ==
    LET indices == [n \in Natives |-> {i - 1 : i \in Consistents(n)}]
    IN  {A \in [SpecVars -> SpecVals] :
            /\ \A ch \in Channels : A[ch] \in {Silent, Firing}
            /\ \A n \in Natives : A[n] \in indices[n]}

\* The components run side by side, each knowing A and the messages put so far:
\* how far they get when every channel has had its turn.
Joint(A) ==
    LET puts == {cm \in UNION {BatchPuts(n) : n \in Natives} : AssignsSubset(cm[2].pred, A)}
        Inbox(c, known) == [ch \in {x \in DOMAIN known : GetterOf[x] = c} |-> known[ch]]
        Put(c, known) == {<<ch, "Putter">> : ch \in {x \in DOMAIN known : PutterOf[x] = c}}
        Joined(branches, known) ==
            [known |-> known,
             runs |-> [c \in Comps |->
                Run(c, [branches[c] EXCEPT !.inbox = Inbox(c, known),
                                           !.did_put_or_get = @ \cup Put(c, known)], A)]]
        Turn(j, i) ==
            LET putting == {c \in Comps : j.runs[c].blocker = "PutMsg"
                                            /\ A[j.runs[c].channel] = Firing}
                new == [ch \in {j.runs[c].channel : c \in putting} |-> j.runs[PutterOf[ch]].payload]
            IN  Joined([c \in Comps |-> j.runs[c].branch], Override(j.known, new))
        native == [ch \in {cm[1] : cm \in puts} |-> (CHOOSE cm \in puts : cm[1] = ch)[2].payload]
    IN  FoldLeft(Turn, Joined([c \in Comps |-> InitialBranch(start[c])], native),
                 [i \in 1..(Cardinality(Channels) + 1) |-> i])

\* All of them reach the end, having exchanged exactly the messages A says.
Possible(A) ==
    LET j == Joint(A)
    IN  /\ \A c \in Comps :
             /\ j.runs[c].blocker = "SyncBlockEnd"
             /\ \A port \in Ports(c) :
                  port \in j.runs[c].branch.did_put_or_get <=> A[port[1]] = Firing
        /\ \A n \in Natives :
             /\ AssignsSubset(BatchPredicate(n, A[n] + 1), A)
             /\ batches[n][A[n] + 1].to_get \subseteq DOMAIN j.known

\* Every subtree has submitted a solution that A contains: A is among the
\* local solutions of the leader (SolutionStorage).
Solved ==
    IF \E o \in Owners : solutions[o] = {} THEN {}
    ELSE {A \in Assignments : \A o \in Owners : \E q \in solutions[o] : AssignsSubset(q, A)}

\* The thread of n has fed all it has: it looks for local solutions, and then
\* waits for the endpoints and for the deadline (or has already decided).
Awaiting(n) ==
    \/ task[n].kind = "decided"
    \/ task[n].kind \in {"loop", "recv"} /\ unrun[n] = {} /\ payload_inbox[n] = <<>>

\* Nobody has anything left to do but to wait for the decision.
Quiescent ==
    /\ \A n \in Natives : Awaiting(n)
    /\ \A ch \in Channels : GetterOf[ch] \in Owners =>
         net[ch] = <<>> \/ task[HomeOf(GetterOf[ch])].kind = "decided"
-----------------------------------------------------------------------------
(* Properties *)

\* The speculation finds exactly the possible executions: whatever could be
\* decided at any time is one, and when all messages have been fed, in whatever
\* order and however branches were forked and merged on the way, none is missing.
SolutionsExact ==
    /\ \A A \in Solved : Possible(A)
    /\ Quiescent /\ (\A n \in Natives : ~failed[n]) =>
         \A A \in Assignments : Possible(A) => A \in Solved

\* The branches that collapse_with may choose from when p is decided.
Collapses(o, p) ==
    IF o \in Natives
    THEN {q \in DOMAIN nbranches[o] : nbranches[o][q].to_get = {} /\ AssignsSubset(q, p)}
    ELSE {q \in DOMAIN cbranches[o] : cbranches[o][q].ended /\ AssignsSubset(q, p)}

\* collapse_with: "Given the predicate for the round's solution, collapse this
\* branching native to an ended branch whose predicate is consistent with it".
\* When all connectors have looked for solutions, whatever can be decided finds
\* an ended branch of everyone.
CollapseFindsBranch ==
    (\A n \in Natives : Awaiting(n) /\ ~failed[n]) =>
        \A A \in Solved, o \in Owners : Collapses(o, A) # {}

\* The channels that a solution has a message for o on.
Gotten(o, q) == {ch \in Channels : GetterOf[ch] = o /\ q[ch] = Firing}

\* insert_branch_merging: although branches are forked, merged and run again after
\* the submission, and a branch that has run less far may take the place of one
\* that has ended, no submitted solution is forgotten: the native has a branch
\* with nothing left to get, a component a branch under that very predicate that
\* has received every message of the solution.
SolutionsRetained ==
    \A o \in Owners : task[HomeOf(o)].kind \in {"loop", "recv"} =>
        \A q \in solutions[o] :
            IF o \in Natives THEN q \in Collapses(o, q)
            ELSE q \in DOMAIN cbranches[o] /\ Gotten(o, q) \subseteq DOMAIN cbranches[o][q].inbox

\* feed_msg, "Payload mapping (Predicate,Port) should be unique each round":
\* two messages of a channel that could be part of one solution are equal, and
\* what a branch has received is covered by its predicate.  So all who commit a
\* decision, whichever branch they collapse to, commit to the same messages,
\* and no assertion of feed_msg and drain_branches_to_blocked fails.
MessagesUnambiguous ==
    /\ ~panicked
    /\ \A cm, dm \in sent :
         cm[1] = dm[1] /\ Consistent(cm[2].pred, dm[2].pred) => cm[2].payload = dm[2].payload
    /\ \A c \in Comps : \A q \in DOMAIN cbranches[c] : \A ch \in DOMAIN cbranches[c][q].inbox :
         \E cm \in sent : /\ cm[1] = ch /\ cm[2].payload = cbranches[c][q].inbox[ch]
                          /\ AssignsSubset(cm[2].pred, q)

\* A connector gives up because of an inconsistent component or an unsatisfiable
\* native only if the round could not have succeeded.
GivesUpRightly ==
    [][\A n \in Natives : failed'[n] /\ ~failed[n] => \A A \in Assignments : ~Possible(A)]_vars

\* Speculation comes to an end: sooner or later every message has been fed, every
\* branch has run as far as it can, and every thread has got past its payload
\* inbox to look for solutions and at the deadline, whether it decides then or
\* not.  The loop over the inbox (communication.rs:564) gives no such guarantee of
\* its own: where components answer each other for ever it does not hold, see
\* DeadlineWatched.
RoundDecidable == <>Quiescent

\* sync, of its timeout: "a duration in which the connector will make a best
\* effort to fail the round and return control flow to the caller".  The deadline
\* is looked at when the payload inbox has been drained.
DeadlineWatched == \A n \in Natives : []<>Awaiting(n)

\* sync_reach_decision, of a message to a component that has exited: "it cannot
\* be involved in a solution (requires sending a message over a dead channel!)".
DeadChannelsSilent ==
    \A A \in Solved, ch \in Channels : GetterOf[ch] = Exited => A[ch] = Silent
=============================================================================
