------------------------------ MODULE Branches ------------------------------
(***************************************************************************)
(* What SyncRound relies on in the interpreter, ComponentState::sync_run      *)
(* (protocol/mod.rs, with the context of runtime/communication.rs), and the    *)
(* inductive invariant of SyncRound that follows from it.                     *)
(***************************************************************************)
EXTENDS SyncRound

CONSTANT States   \* States[c]: the states that component c may be in

\* The predicates of a round: the variable of a channel tells whether it fires.
Speculation == {p \in Predicate : \A ch \in Channels : p[ch] \in {Silent, Firing, Unassigned}}

PutPorts(c) == {<<ch, "Putter">> : ch \in {k \in Channels : PutterOf[k] = c}}
GetChannels(o) == {ch \in Channels : GetterOf[ch] = o}

\* Messages by channel, of the channels that o gets from.
Inboxes(o) == UNION {[D -> Payloads] : D \in SUBSET GetChannels(o)}

\* The branches that may be run: those that have not ended.
Runnable(c) ==
    [state : States[c], inbox : Inboxes(c), did_put_or_get : SUBSET Ports(c), ended : {FALSE}]

\* j has all messages of i.
Extends(i, j) == DOMAIN i \subseteq DOMAIN j /\ \A ch \in DOMAIN i : j[ch] = i[ch]

\* The branch b if it has the messages i and has also made the puts d.
Knowing(b, i, d) == [b EXCEPT !.inbox = i, !.did_put_or_get = @ \cup d]

Blockers == {"Inconsistent", "CouldntReadMsg", "CouldntCheckFiring", "PutMsg", "SyncBlockEnd"}

\* sync_run returns where the component stands, having noted the ports it has
\* gotten from; its ports are the ones it owns.
RunTyped(c, b, r) ==
    /\ DOMAIN r = {"blocker", "channel", "payload", "branch"}
    /\ r.blocker \in Blockers
    /\ r.branch \in Runnable(c)
    /\ r.branch.inbox = b.inbox
    /\ b.did_put_or_get \subseteq r.branch.did_put_or_get
    /\ \A port \in r.branch.did_put_or_get \ b.did_put_or_get :
         port[2] = "Getter" /\ port[1] \in DOMAIN b.inbox
    /\ r.blocker = "CouldntCheckFiring" => r.channel \in ChannelsOf(c)
    /\ r.blocker = "PutMsg" =>
         r.channel \in Channels /\ PutterOf[r.channel] = c /\ r.payload \in Payloads

\* What a branch has stopped at still stops it when it has messages i, has made
\* the puts d, and has the predicate q.
Stopped(r, i, d, q) ==
    /\ r.blocker = "CouldntReadMsg" => r.channel \notin DOMAIN i
    /\ r.blocker = "CouldntCheckFiring" => q[r.channel] = Unassigned
    /\ r.blocker = "PutMsg" => <<r.channel, "Putter">> \notin d

\* The interpreter looks at nothing but the branch and its predicate.  So a run
\* that knows more goes the same way as long as what it knows makes no
\* difference, and a run that is resumed at a blocker with more knowledge ends up
\* where it would have with that knowledge from the start.
Deterministic(c, b, p, i, d, q) ==
    LET r == Run(c, b, p)
    IN  /\ Stopped(r, i, d, q) =>
             Run(c, Knowing(b, i, d), q) = [r EXCEPT !.branch = Knowing(@, i, d)]
        /\ r.blocker \in {"CouldntReadMsg", "CouldntCheckFiring", "PutMsg"} =>
             Run(c, Knowing(r.branch, i, d), q) = Run(c, Knowing(b, i, d), q)

Extensions == [p \in Predicate |-> {q \in Predicate : AssignsSubset(p, q)}]

\* sync_run asks only for what it does not have (BlockGet, BlockFires, and Put if
\* !did_put), and is deterministic.
ASSUME RunAssumption ==
    \A c \in Comps : \A b \in Runnable(c) : \A p \in Predicate :
        /\ RunTyped(c, b, Run(c, b, p))
        /\ Stopped(Run(c, b, p), b.inbox, b.did_put_or_get, p)
        /\ \A i \in {j \in Inboxes(c) : Extends(b.inbox, j)} :
             \A d \in SUBSET PutPorts(c) : \A q \in Extensions[p] :
                Deterministic(c, b, p, i, d, q)

\* The connector puts and gets through ports that it owns, a port is silent or
\* fires, and a batch is named by its index.
ASSUME BatchesAssumption ==
    /\ IsFiniteSet(Channels)
    /\ {Silent, Firing} \subseteq SpecVals
    /\ Channels \cap Natives = {}
    /\ \A s \in Situations :
         /\ DOMAIN s.start = Comps /\ \A c \in Comps : s.start[c] \in States[c]
         /\ DOMAIN s.batches = Natives
         /\ \A n \in Natives :
              /\ DOMAIN s.batches[n] = 1..Len(s.batches[n]) /\ Len(s.batches[n]) \in Nat
              /\ \A i \in DOMAIN s.batches[n] :
                   /\ i - 1 \in SpecVals
                   /\ DOMAIN s.batches[n][i].to_put \subseteq {ch \in Channels : PutterOf[ch] = n}
                   /\ \A ch \in DOMAIN s.batches[n][i].to_put : s.batches[n][i].to_put[ch] \in Payloads
                   /\ s.batches[n][i].to_get \subseteq GetChannels(n)
-----------------------------------------------------------------------------
(* What is known of a branch of component c under predicate p, when c has       *)
(* entered its sync block in s and the messages S have been put.                *)

\* Every message in the inbox was put by someone who assumed no more than p.
Covered(inbox, S, p) ==
    \A ch \in DOMAIN inbox :
        \E cm \in S : cm[1] = ch /\ cm[2].payload = inbox[ch] /\ AssignsSubset(cm[2].pred, p)

\* A message was put to `port` by someone who assumed no more than p.
PutUnder(port, S, p) == \E cm \in S : cm[1] = port[1] /\ AssignsSubset(cm[2].pred, p)

ExchangesNoted(b, S, p) ==
    \A port \in b.did_put_or_get :
        /\ port[2] = "Getter" => port[1] \in DOMAIN b.inbox
        /\ port[2] = "Putter" => PutUnder(port, S, p)

\* However the branch came about: if it knew more, it would be where a single
\* run from the start of the sync block that knows as much would be.
Replays(c, s, b, p) ==
    \A i \in {j \in Inboxes(c) : Extends(b.inbox, j)} : \A d \in SUBSET PutPorts(c) :
        b.did_put_or_get \cap PutPorts(c) \subseteq d =>
            \A q \in Extensions[p] :
                Run(c, Knowing(b, i, d), q) = Run(c, Knowing(InitialBranch(s), i, d), q)

BranchKnown(c, s, S, p, b) ==
    /\ p \in Speculation
    /\ b \in [state : States[c], inbox : Inboxes(c), did_put_or_get : SUBSET Ports(c), ended : BOOLEAN]
    /\ Covered(b.inbox, S, p)
    /\ ExchangesNoted(b, S, p)
    /\ ~b.ended => Replays(c, s, b, p)

BranchesKnown(c, s, S, m) == \A p \in DOMAIN m : BranchKnown(c, s, S, p, m[p])
NoneEnded(m) == \A p \in DOMAIN m : ~m[p].ended

\* The branches of a native with the batches bs: what is left to get is what the
\* batch gets and has not been gotten.
NativeBranchKnown(n, bs, S, p, b) ==
    /\ p \in Speculation
    /\ p[n] # Unassigned /\ p[n] + 1 \in DOMAIN bs
    /\ b \in [index : {p[n]}, gotten : Inboxes(n), to_get : SUBSET Channels]
    /\ b.to_get = bs[p[n] + 1].to_get \ DOMAIN b.gotten
    /\ Covered(b.gotten, S, p)

NativeBranchesKnown(n, bs, S, m) == \A p \in DOMAIN m : NativeBranchKnown(n, bs, S, p, m[p])

Kinds == {"begin", "loop", "recv", "decided", "drain", "feed", "native"}

\* The maps of a task that is about a component of n.
CompMapsKnown(n, t, st, S) ==
    /\ t.comp \in Comps /\ Home[t.comp] = n
    /\ NoneEnded(t.swap)
    /\ BranchesKnown(t.comp, st[t.comp], S, t.input)
    /\ BranchesKnown(t.comp, st[t.comp], S, t.swap)
    /\ BranchesKnown(t.comp, st[t.comp], S, t.output)

\* A task that is about the native n.
NativeMapsKnown(n, t, bs, S) ==
    /\ t.cm \in S /\ GetterOf[t.cm[1]] = n
    /\ t.swap = <<>>
    /\ NativeBranchesKnown(n, bs[n], S, t.input)
    /\ NativeBranchesKnown(n, bs[n], S, t.output)

\* The task t of n.
TaskKnown(n, t, st, bs, S) ==
    /\ DOMAIN t = {"kind", "comp", "cm", "input", "swap", "output"}
    /\ t.kind \in Kinds
    /\ t.kind = "native" => NativeMapsKnown(n, t, bs, S)
    /\ t.kind \in {"feed", "drain"} => CompMapsKnown(n, t, st, S)
    /\ t.kind = "feed" => t.cm \in S /\ GetterOf[t.cm[1]] = t.comp
    /\ t.kind = "drain" => NoneEnded(t.input) /\ (t.input = <<>> => t.swap = <<>>)

\* Task t is about the branches of o.
WorksOn(t, o) ==
    IF o \in Natives THEN t.kind = "native" ELSE t.kind \in {"feed", "drain"} /\ t.comp = o

\* A branch in m that keeps solution q of o alive.
Keeps(o, q, m) ==
    /\ q \in DOMAIN m
    /\ IF o \in Natives THEN m[q].to_get = {} ELSE Gotten(o, q) \subseteq DOMAIN m[q].inbox

\* The same while the branches of o are on their way through the maps of task t,
\* m being the map they were taken from.
Somewhere(o, q, t) == Keeps(o, q, t.input) \/ Keeps(o, q, t.swap) \/ Keeps(o, q, t.output)
Kept(o, q, t, m) == IF WorksOn(t, o) THEN Somewhere(o, q, t) ELSE Keeps(o, q, m)

\* The message was put by a run of component c that knew no more than the
\* message tells.
Produced(c, s, S, cm) ==
    \E i \in Inboxes(c), d \in SUBSET PutPorts(c) :
        LET r == Run(c, Knowing(InitialBranch(s), i, d), cm[2].pred)
        IN  /\ Covered(i, S, cm[2].pred)
            /\ <<cm[1], "Putter">> \notin d
            /\ r.blocker = "PutMsg" /\ r.channel = cm[1] /\ r.payload = cm[2].payload

\* A solution of component c: a run that knew no more than the solution tells
\* came to its end, having exchanged exactly the messages it says.
Ended(c, s, S, q) ==
    /\ q \in Speculation
    /\ \A ch \in ChannelsOf(c) : q[ch] # Unassigned
    /\ \E i \in Inboxes(c), d \in SUBSET PutPorts(c) :
         LET r == Run(c, Knowing(InitialBranch(s), i, d), q)
         IN  /\ Covered(i, S, q)
             /\ \A port \in d : PutUnder(port, S, q)
             /\ r.blocker = "SyncBlockEnd"
             /\ \A port \in Ports(c) : port \in r.branch.did_put_or_get <=> q[port[1]] = Firing
-----------------------------------------------------------------------------
(* The inductive invariant *)

GivenTyped == \E s \in Situations : start = s.start /\ batches = s.batches

Indexed ==
    /\ DOMAIN nbranches = Natives /\ DOMAIN cbranches = Comps
    /\ DOMAIN payload_inbox = Natives /\ DOMAIN net = Channels
    /\ DOMAIN solutions = Owners
    /\ DOMAIN unrun = Natives /\ DOMAIN task = Natives /\ DOMAIN failed = Natives

\* A message says that its channel fires.
Messages(S) ==
    /\ S \subseteq Channels \X [pred : Speculation, payload : Payloads]
    /\ \A cm \in S : cm[2].pred[cm[1]] = Firing

SentExplained ==
    /\ \A n \in Natives : \A cm \in sent : PutterOf[cm[1]] = n => cm \in BatchPuts(n)
    /\ \A c \in Comps : \A cm \in sent : PutterOf[cm[1]] = c => Produced(c, start[c], sent, cm)

\* feed_msg: "Payload mapping (Predicate,Port) should be unique each round"
PayloadsUnique(S) ==
    \A cm, dm \in S :
        cm[1] = dm[1] /\ Consistent(cm[2].pred, dm[2].pred) => cm[2].payload = dm[2].payload

\* Nothing travels that has not been put.
On(ch, S) == {dm[2] : dm \in {cm \in S : cm[1] = ch}}
StreamsSent ==
    /\ \A n \in Natives : payload_inbox[n] \in Seq(sent)
    /\ \A ch \in Channels : net[ch] \in Seq(On(ch, sent))

BranchesOfAllKnown ==
    /\ \A n \in Natives : NativeBranchesKnown(n, batches[n], sent, nbranches[n])
    /\ \A c \in Comps : BranchesKnown(c, start[c], sent, cbranches[c])
    /\ \A n \in Natives : TaskKnown(n, task[n], start, batches, sent)

\* A component that has not run yet has its first branch only.
UnrunFresh ==
    \A n \in Natives : \A c \in unrun[n] :
        /\ c \in Comps /\ Home[c] = n
        /\ cbranches[c] = Initial(start[c]) /\ ~WorksOn(task[n], c)

SolutionsExplained == \A c \in Comps : \A q \in solutions[c] : Ended(c, start[c], sent, q)

BranchesOf(o) == IF o \in Natives THEN nbranches[o] ELSE cbranches[o]

\* SolutionsRetained, also while branches are on their way through the maps.
SolutionsKept ==
    \A o \in Owners : \A q \in solutions[o] : Kept(o, q, task[HomeOf(o)], BranchesOf(o))

\* drain_branches_to_blocked, feed_msg and insert_branch_merging: every branch that
\* has not ended is where one run from the start of the sync block would be that
\* knows as much (BranchesOfAllKnown), every message was put by such a run that
\* knew no more than the message tells (SentExplained) and every solution comes
\* from one (SolutionsExplained); so messages are unique, and no branch that a
\* solution needs is lost, be it in a loop that moves branches between maps.
IInv ==
    /\ GivenTyped
    /\ Indexed
    /\ Messages(sent)
    /\ SentExplained
    /\ PayloadsUnique(sent)
    /\ StreamsSent
    /\ BranchesOfAllKnown
    /\ UnrunFresh
    /\ SolutionsExplained
    /\ SolutionsKept
    /\ ~panicked
=============================================================================
