-------------------------- MODULE SyncRound_proofs --------------------------
(***************************************************************************)
(* Speculative execution is consistent: in every round, for any components     *)
(* and batches, however branches are forked, merged and interleaved, two        *)
(* messages of a channel that could be part of one solution are equal, and no   *)
(* solution that was submitted is forgotten.                                  *)
(***************************************************************************)
EXTENDS Branches, FiniteSetTheorems, SequenceTheorems, TLAPS

-----------------------------------------------------------------------------
(* Predicates *)

LEMMA SpecVarsTyped ==
    /\ Channels \subseteq SpecVars /\ Natives \subseteq SpecVars
    /\ Silent \in SpecVals /\ Firing \in SpecVals
    /\ Silent # Firing /\ Silent # Unassigned /\ Firing # Unassigned
BY SpecVarsAssumption, BatchesAssumption, UnassignedAssumption DEF Silent, Firing

LEMMA SpeculationTyped == ASSUME NEW p \in Speculation PROVE p \in Predicate
BY DEF Speculation

\* In a speculation a channel is silent, fires or is undecided.
LEMMA ChannelDecided ==
    ASSUME NEW p \in Speculation, NEW ch \in Channels, p[ch] # Unassigned, p[ch] # Silent
    PROVE  p[ch] = Firing
BY DEF Speculation

LEMMA SubsetTransitive ==
    ASSUME NEW p, NEW q, NEW w, AssignsSubset(p, q), AssignsSubset(q, w)
    PROVE  AssignsSubset(p, w)
BY DEF AssignsSubset

LEMMA SubsetReflexive == ASSUME NEW p PROVE AssignsSubset(p, p)
BY DEF AssignsSubset

\* What a predicate covers is consistent.
LEMMA CommonExtension ==
    ASSUME NEW p, NEW q, NEW w, AssignsSubset(p, w), AssignsSubset(q, w)
    PROVE  Consistent(p, q)
BY DEF AssignsSubset, Consistent

\* The union of consistent predicates covers both.
LEMMA UnionCovers ==
    ASSUME NEW p \in Speculation, NEW q \in Speculation, Consistent(p, q)
    PROVE  /\ UnionWith(p, q) \in Speculation
           /\ AssignsSubset(p, UnionWith(p, q)) /\ AssignsSubset(q, UnionWith(p, q))
<1>1. UnionWith(p, q) \in Predicate
  BY DEF UnionWith, Predicate, Speculation
<1>2. \A ch \in Channels : UnionWith(p, q)[ch] \in {Silent, Firing, Unassigned}
  BY SpecVarsTyped DEF UnionWith, Speculation
<1> QED
  BY <1>1, <1>2 DEF UnionWith, AssignsSubset, Consistent, Speculation

\* Nothing changes for a predicate that already covers the other.
LEMMA UnionCovered ==
    ASSUME NEW p \in Predicate, NEW q \in Predicate, AssignsSubset(q, p)
    PROVE  UnionWith(p, q) = p
BY DEF UnionWith, AssignsSubset, Predicate

LEMMA InsertedCovers ==
    ASSUME NEW p \in Speculation, NEW ch \in Channels, NEW val \in {Silent, Firing},
           p[ch] \in {Unassigned, val}
    PROVE  /\ Inserted(p, ch, val) \in Speculation
           /\ AssignsSubset(p, Inserted(p, ch, val))
           /\ Inserted(p, ch, val)[ch] = val
<1>1. Inserted(p, ch, val) \in Predicate
  BY SpecVarsTyped DEF Inserted, Speculation, Predicate
<1>2. \A v \in SpecVars : Inserted(p, ch, val)[v] = IF v = ch THEN val ELSE p[v]
  BY DEF Inserted, Speculation, Predicate
<1> QED
  BY <1>1, <1>2, SpecVarsTyped DEF AssignsSubset, Speculation

\* Inserting what is already assigned changes nothing.
LEMMA InsertedAgain ==
    ASSUME NEW p \in Predicate, NEW ch \in Channels, NEW val, p[ch] = val
    PROVE  Inserted(p, ch, val) = p
BY SpecVarsTyped DEF Inserted, Predicate

LEMMA EndCovers ==
    ASSUME NEW c \in Comps, NEW p \in Speculation
    PROVE  /\ EndPredicate(c, p) \in Speculation
           /\ AssignsSubset(p, EndPredicate(c, p))
           /\ \A ch \in ChannelsOf(c) : EndPredicate(c, p)[ch] # Unassigned
<1>1. ChannelsOf(c) \subseteq Channels
  BY DEF ChannelsOf, Ports
<1>2. EndPredicate(c, p) \in Predicate
  BY SpecVarsTyped DEF EndPredicate, Predicate, Speculation
<1> QED
  BY <1>1, <1>2, SpecVarsTyped DEF EndPredicate, AssignsSubset, Speculation

LEMMA EndOfDecided ==
    ASSUME NEW c \in Comps, NEW p \in Predicate, \A ch \in ChannelsOf(c) : p[ch] # Unassigned
    PROVE  EndPredicate(c, p) = p
BY DEF EndPredicate, Predicate

\* assignment_union finds an assignment iff the two are consistent, and the first
\* is kept as it is iff it covers the second.
LEMMA UnionVerdict ==
    ASSUME NEW p \in Predicate, NEW q \in Predicate
    PROVE  /\ AssignmentUnion(p, q) # "Nonexistant" <=> Consistent(p, q)
           /\ AssignmentUnion(p, q) \in {"Equivalent", "FormerNotLatter"} => AssignsSubset(q, p)
<1>a. (AssignsSubset(p, q) => Consistent(p, q)) /\ (AssignsSubset(q, p) => Consistent(p, q))
  BY DEF AssignsSubset, Consistent
<1>1. CASE ~Consistent(p, q)
  BY <1>1, <1>a DEF AssignmentUnion
<1>2. CASE Consistent(p, q) /\ AssignsSubset(q, p)
  <2>1. AssignmentUnion(p, q) # "Nonexistant"
    BY <1>2 DEF AssignmentUnion
  <2> QED
    BY <1>2, <2>1
<1>3. CASE Consistent(p, q) /\ ~AssignsSubset(q, p) /\ AssignsSubset(p, q)
  BY <1>3 DEF AssignmentUnion
<1>4. CASE Consistent(p, q) /\ ~AssignsSubset(q, p) /\ ~AssignsSubset(p, q)
  BY <1>4 DEF AssignmentUnion
<1> QED
  BY <1>1, <1>2, <1>3, <1>4

-----------------------------------------------------------------------------
(* Messages by channel *)

LEMMA InboxTyped ==
    ASSUME NEW o, NEW i
    PROVE  i \in Inboxes(o) <=> i \in [DOMAIN i -> Payloads] /\ DOMAIN i \subseteq GetChannels(o)
BY DEF Inboxes

LEMMA EmptyMap == DOMAIN <<>> = {}
OBVIOUS

LEMMA EmptyInbox == ASSUME NEW o PROVE <<>> \in Inboxes(o)
<1>1. <<>> \in [{} -> Payloads]
  OBVIOUS
<1> QED
  BY <1>1 DEF Inboxes

\* Two inboxes agree where both have a message.
Agree(i, j) == \A ch \in DOMAIN i \cap DOMAIN j : i[ch] = j[ch]

LEMMA OverrideExtends ==
    ASSUME NEW o, NEW i \in Inboxes(o), NEW j \in Inboxes(o), Agree(i, j)
    PROVE  /\ Override(i, j) \in Inboxes(o)
           /\ Extends(i, Override(i, j)) /\ Extends(j, Override(i, j))
<1>1. /\ i \in [DOMAIN i -> Payloads] /\ DOMAIN i \subseteq GetChannels(o)
      /\ j \in [DOMAIN j -> Payloads] /\ DOMAIN j \subseteq GetChannels(o)
  BY InboxTyped
<1> DEFINE u == Override(i, j)
<1>2. DOMAIN u = DOMAIN i \cup DOMAIN j
  BY DEF Override
<1>3. \A ch \in DOMAIN u : u[ch] = IF ch \in DOMAIN i THEN i[ch] ELSE j[ch]
  BY DEF Override
<1>4. u \in [DOMAIN u -> Payloads]
  <2>1. \A ch \in DOMAIN u : u[ch] \in Payloads
    BY <1>1, <1>2, <1>3
  <2>2. u = [ch \in DOMAIN u |-> u[ch]]
    BY DEF Override
  <2> QED
    BY <2>1, <2>2
<1>5. u \in Inboxes(o)
  BY <1>1, <1>2, <1>4, InboxTyped
<1> QED
  BY <1>2, <1>3, <1>5 DEF Extends, Agree

LEMMA WithInbox ==
    ASSUME NEW o, NEW i \in Inboxes(o), NEW ch \in GetChannels(o), NEW m \in Payloads
    PROVE  /\ With(i, ch, m) \in Inboxes(o)
           /\ DOMAIN With(i, ch, m) = DOMAIN i \cup {ch}
           /\ With(i, ch, m)[ch] = m
<1>1. i \in [DOMAIN i -> Payloads] /\ DOMAIN i \subseteq GetChannels(o)
  BY InboxTyped
<1> DEFINE u == With(i, ch, m)
<1>2. DOMAIN u = DOMAIN i \cup {ch}
  BY DEF With
<1>3. \A k \in DOMAIN u : u[k] = IF k = ch THEN m ELSE i[k]
  BY DEF With
<1>4. u \in [DOMAIN u -> Payloads]
  <2>1. \A k \in DOMAIN u : u[k] \in Payloads
    BY <1>1, <1>2, <1>3
  <2>2. u = [k \in DOMAIN u |-> u[k]]
    BY DEF With
  <2> QED
    BY <2>1, <2>2
<1>5. u \in Inboxes(o)
  BY <1>1, <1>2, <1>4, InboxTyped
<1> QED
  BY <1>2, <1>3, <1>5

\* Inboxes that are covered by one predicate agree.
LEMMA CoveredAgree ==
    ASSUME NEW S, PayloadsUnique(S), NEW w, NEW i, NEW j, Covered(i, S, w), Covered(j, S, w)
    PROVE  Agree(i, j)
<1> SUFFICES ASSUME NEW ch \in DOMAIN i, ch \in DOMAIN j PROVE i[ch] = j[ch]
  BY DEF Agree
<1>1. PICK cm \in S : cm[1] = ch /\ cm[2].payload = i[ch] /\ AssignsSubset(cm[2].pred, w)
  BY DEF Covered
<1>2. PICK dm \in S : dm[1] = ch /\ dm[2].payload = j[ch] /\ AssignsSubset(dm[2].pred, w)
  BY DEF Covered
<1>3. Consistent(cm[2].pred, dm[2].pred)
  BY <1>1, <1>2, CommonExtension
<1> QED
  BY <1>1, <1>2, <1>3 DEF PayloadsUnique

LEMMA CoveredMonotone ==
    ASSUME NEW S, NEW T, S \subseteq T, NEW p, NEW q, AssignsSubset(p, q), NEW i, Covered(i, S, p)
    PROVE  Covered(i, T, q)
BY SubsetTransitive DEF Covered

LEMMA PutUnderMonotone ==
    ASSUME NEW S, NEW T, S \subseteq T, NEW p, NEW q, AssignsSubset(p, q), NEW port, PutUnder(port, S, p)
    PROVE  PutUnder(port, T, q)
BY SubsetTransitive DEF PutUnder

-----------------------------------------------------------------------------
(* Runs of a component *)

LEMMA RunFacts ==
    ASSUME NEW c \in Comps, NEW b \in Runnable(c), NEW p \in Predicate
    PROVE  /\ RunTyped(c, b, Run(c, b, p))
           /\ Stopped(Run(c, b, p), b.inbox, b.did_put_or_get, p)
BY RunAssumption

LEMMA RunDeterministic ==
    ASSUME NEW c \in Comps, NEW b \in Runnable(c), NEW p \in Predicate, NEW q \in Predicate,
           NEW i \in Inboxes(c), NEW d \in SUBSET PutPorts(c),
           Extends(b.inbox, i), AssignsSubset(p, q)
    PROVE  Deterministic(c, b, p, i, d, q)
<1>1. q \in Extensions[p]
  BY DEF Extensions
<1>2. i \in {j \in Inboxes(c) : Extends(b.inbox, j)}
  OBVIOUS
<1> QED
  BY <1>1, <1>2, RunAssumption

\* A branch is told by its fields.
LEMMA BranchFields ==
    ASSUME NEW s, NEW i, NEW d, NEW e,
           NEW b \in [state : {s}, inbox : {i}, did_put_or_get : {d}, ended : {e}]
    PROVE  b = [state |-> s, inbox |-> i, did_put_or_get |-> d, ended |-> e]
OBVIOUS

LEMMA KnowingIs ==
    ASSUME NEW c \in Comps, NEW b \in Runnable(c), NEW i, NEW d
    PROVE  Knowing(b, i, d) =
              [state |-> b.state, inbox |-> i, did_put_or_get |-> b.did_put_or_get \cup d, ended |-> FALSE]
<1>1. b \in [state : States[c], inbox : Inboxes(c), did_put_or_get : SUBSET Ports(c), ended : {FALSE}]
  BY DEF Runnable
<1>2. b.ended = FALSE
  BY <1>1
<1>3. Knowing(b, i, d) \in [state : {b.state}, inbox : {i},
                            did_put_or_get : {b.did_put_or_get \cup d}, ended : {FALSE}]
  BY <1>1, <1>2 DEF Knowing
<1> QED
  BY <1>3, BranchFields

\* The branch that enters the sync block in state s, with the messages i, having
\* made the puts d.
Start(s, i, d) == Knowing(InitialBranch(s), i, d)

LEMMA StartIs ==
    ASSUME NEW s, NEW i, NEW d
    PROVE  Start(s, i, d) = [state |-> s, inbox |-> i, did_put_or_get |-> d, ended |-> FALSE]
<1> DEFINE b == InitialBranch(s)
<1>1. {} \cup d = d
  OBVIOUS
<1>2. /\ b \in [state : {s}, inbox : {<<>>}, did_put_or_get : {{}}, ended : {FALSE}]
      /\ b.state = s /\ b.did_put_or_get = {} /\ b.ended = FALSE
  BY DEF InitialBranch
<1> HIDE DEF b
<1>3. Knowing(b, i, d) \in [state : {s}, inbox : {i}, did_put_or_get : {d}, ended : {FALSE}]
  BY <1>1, <1>2 DEF Knowing
<1>4. Knowing(b, i, d) = [state |-> s, inbox |-> i, did_put_or_get |-> d, ended |-> FALSE]
  BY <1>3, BranchFields
<1> QED
  BY <1>4 DEF Start, b

LEMMA StartRunnable ==
    ASSUME NEW c \in Comps, NEW s \in States[c], NEW i \in Inboxes(c), NEW d \in SUBSET PutPorts(c)
    PROVE  Start(s, i, d) \in Runnable(c)
<1>1. d \in SUBSET Ports(c)
  BY DEF Ports, PutPorts
<1> QED
  BY <1>1, StartIs DEF Runnable

\* A run from the start that stays where it is when it knows u, d and w.
LEMMA RunsOn ==
    ASSUME NEW c \in Comps, NEW s \in States[c],
           NEW i \in Inboxes(c), NEW u \in Inboxes(c), Extends(i, u),
           NEW e \in SUBSET PutPorts(c), NEW d \in SUBSET PutPorts(c), e \subseteq d,
           NEW p \in Predicate, NEW w \in Predicate, AssignsSubset(p, w),
           NEW r, r = Run(c, Start(s, i, e), p), Stopped(r, u, d, w)
    PROVE  Run(c, Start(s, u, d), w) = [r EXCEPT !.branch = Knowing(@, u, d)]
<1>1. Start(s, i, e) \in Runnable(c) /\ Start(s, i, e).inbox = i
  BY StartRunnable, StartIs
<1>2. Deterministic(c, Start(s, i, e), p, u, d, w)
  BY <1>1, RunDeterministic
<1>3. Knowing(Start(s, i, e), u, d) = Start(s, u, d)
  <2>1. e \cup d = d
    OBVIOUS
  <2>2. Knowing(Start(s, i, e), u, d)
          = [state |-> Start(s, i, e).state, inbox |-> u,
             did_put_or_get |-> Start(s, i, e).did_put_or_get \cup d, ended |-> FALSE]
    BY <1>1, KnowingIs
  <2>3. Start(s, i, e).state = s /\ Start(s, i, e).did_put_or_get = e
    BY StartIs
  <2> QED
    BY <2>1, <2>2, <2>3, StartIs
<1> QED
  BY <1>2, <1>3 DEF Deterministic

\* Two results stand at the same point, as far as they know the puts d.
SamePoint(r1, r2, d) ==
    /\ r1.blocker = r2.blocker /\ r1.channel = r2.channel /\ r1.payload = r2.payload
    /\ r1.branch.did_put_or_get \cup d = r2.branch.did_put_or_get \cup d

\* Two runs from the start whose knowledge is compatible, and that know nothing
\* that would have made the other go on, end up at the same point.
LEMMA TwoRuns ==
    ASSUME NEW c \in Comps, NEW s \in States[c],
           NEW i1 \in Inboxes(c), NEW i2 \in Inboxes(c), Agree(i1, i2),
           NEW d1 \in SUBSET PutPorts(c), NEW d2 \in SUBSET PutPorts(c),
           NEW p1 \in Predicate, NEW p2 \in Predicate, NEW w \in Predicate,
           AssignsSubset(p1, w), AssignsSubset(p2, w),
           NEW r1, r1 = Run(c, Start(s, i1, d1), p1),
           NEW r2, r2 = Run(c, Start(s, i2, d2), p2),
           Stopped(r1, Override(i1, i2), d1 \cup d2, w),
           Stopped(r2, Override(i1, i2), d1 \cup d2, w)
    PROVE  SamePoint(r1, r2, d1 \cup d2)
<1> DEFINE u == Override(i1, i2)
           d == d1 \cup d2
<1>1. u \in Inboxes(c) /\ Extends(i1, u) /\ Extends(i2, u)
  BY OverrideExtends
<1>2. /\ Run(c, Start(s, u, d), w) = [r1 EXCEPT !.branch = Knowing(@, u, d)]
      /\ Run(c, Start(s, u, d), w) = [r2 EXCEPT !.branch = Knowing(@, u, d)]
  <2>1. d \in SUBSET PutPorts(c) /\ d1 \subseteq d /\ d2 \subseteq d
    OBVIOUS
  <2> HIDE DEF d, u
  <2>2. Stopped(r1, u, d, w) /\ Stopped(r2, u, d, w)
    BY DEF d, u
  <2> QED
    BY <1>1, <2>1, <2>2, RunsOn
<1>3. RunTyped(c, Start(s, i1, d1), r1) /\ RunTyped(c, Start(s, i2, d2), r2)
  BY RunFacts, StartRunnable
<1>4. /\ DOMAIN r1 = {"blocker", "channel", "payload", "branch"} /\ r1.branch \in Runnable(c)
      /\ DOMAIN r2 = {"blocker", "channel", "payload", "branch"} /\ r2.branch \in Runnable(c)
  BY <1>3 DEF RunTyped
<1> HIDE DEF d, u
<1>5. [r1 EXCEPT !.branch = Knowing(@, u, d)] = [r2 EXCEPT !.branch = Knowing(@, u, d)]
  BY <1>2
<1>6. Knowing(r1.branch, u, d) = Knowing(r2.branch, u, d)
  <2>1. [r1 EXCEPT !.branch = Knowing(@, u, d)].branch = Knowing(r1.branch, u, d)
    BY <1>4
  <2>2. [r2 EXCEPT !.branch = Knowing(@, u, d)].branch = Knowing(r2.branch, u, d)
    BY <1>4
  <2> QED
    BY <1>5, <2>1, <2>2
<1>7. r1.branch.did_put_or_get \cup d = r2.branch.did_put_or_get \cup d
  BY <1>4, <1>6, KnowingIs
<1>8. r1.blocker = r2.blocker /\ r1.channel = r2.channel /\ r1.payload = r2.payload
  <2>1. ASSUME NEW f \in {"blocker", "channel", "payload"}
        PROVE  /\ [r1 EXCEPT !.branch = Knowing(@, u, d)][f] = r1[f]
               /\ [r2 EXCEPT !.branch = Knowing(@, u, d)][f] = r2[f]
    BY <1>4
  <2>2. ASSUME NEW f \in {"blocker", "channel", "payload"} PROVE r1[f] = r2[f]
    BY <1>5, <2>1
  <2> QED
    BY <2>2
<1> QED
  BY <1>7, <1>8 DEF SamePoint, d
-----------------------------------------------------------------------------
(* Branches of components *)

LEMMA KnownRunnable ==
    ASSUME NEW c \in Comps, NEW s, NEW S, NEW p, NEW b, BranchKnown(c, s, S, p, b), ~b.ended
    PROVE  b \in Runnable(c)
<1>1. b \in [state : States[c], inbox : Inboxes(c), did_put_or_get : SUBSET Ports(c), ended : BOOLEAN]
  BY DEF BranchKnown
<1>2. b.ended = FALSE
  BY <1>1
<1> QED
  BY <1>1, <1>2 DEF Runnable

PutsOf(c, b) == b.did_put_or_get \cap PutPorts(c)

\* A branch that has not ended is where a single run from the start would be that
\* has its messages and has made its puts.
LEMMA AsFromStart ==
    ASSUME NEW c \in Comps, NEW s, NEW S, NEW p, NEW b, BranchKnown(c, s, S, p, b), ~b.ended,
           NEW q \in Predicate, AssignsSubset(p, q)
    PROVE  /\ b.inbox \in Inboxes(c) /\ PutsOf(c, b) \in SUBSET PutPorts(c)
           /\ Run(c, Start(s, b.inbox, PutsOf(c, b)), q) = Run(c, b, q)
<1>1. b \in Runnable(c)
  BY KnownRunnable
<1>2. b.inbox \in Inboxes(c) /\ PutsOf(c, b) \in SUBSET PutPorts(c)
  BY <1>1 DEF Runnable, PutsOf
<1>3. Knowing(b, b.inbox, PutsOf(c, b)) = b
  <2>1. b.did_put_or_get \cup PutsOf(c, b) = b.did_put_or_get
    BY DEF PutsOf
  <2>2. b.ended = FALSE
    BY <1>1 DEF Runnable
  <2>3. b = [state |-> b.state, inbox |-> b.inbox, did_put_or_get |-> b.did_put_or_get, ended |-> FALSE]
    <3>1. b \in [state : {b.state}, inbox : {b.inbox}, did_put_or_get : {b.did_put_or_get}, ended : {FALSE}]
      BY <1>1, <2>2 DEF Runnable
    <3> QED
      BY <3>1, BranchFields
  <2>4. Knowing(b, b.inbox, PutsOf(c, b)) =
           [state |-> b.state, inbox |-> b.inbox,
            did_put_or_get |-> b.did_put_or_get \cup PutsOf(c, b), ended |-> FALSE]
    BY <1>1, KnowingIs
  <2> QED
    BY <2>1, <2>3, <2>4
<1>4. Replays(c, s, b, p)
  BY DEF BranchKnown
<1>5. Extends(b.inbox, b.inbox) /\ PutsOf(c, b) \subseteq PutsOf(c, b) /\ p \in Predicate
  BY SpeculationTyped DEF Extends, BranchKnown
<1>6. q \in Extensions[p]
  BY <1>5 DEF Extensions
<1>7. Run(c, Knowing(b, b.inbox, PutsOf(c, b)), q)
        = Run(c, Knowing(InitialBranch(s), b.inbox, PutsOf(c, b)), q)
  BY <1>2, <1>4, <1>5, <1>6 DEF Replays, PutsOf
<1> QED
  BY <1>2, <1>3, <1>7 DEF Start

\* What is known of a branch stays known when more has been sent and under a
\* stronger predicate.
LEMMA BranchMonotone ==
    ASSUME NEW c \in Comps, NEW s, NEW S, NEW T, S \subseteq T,
           NEW p, NEW q \in Speculation, AssignsSubset(p, q), NEW b, BranchKnown(c, s, S, p, b)
    PROVE  BranchKnown(c, s, T, q, b)
<1>1. Covered(b.inbox, T, q)
  BY CoveredMonotone DEF BranchKnown
<1>2. ExchangesNoted(b, T, q)
  BY PutUnderMonotone DEF BranchKnown, ExchangesNoted
<1>3. p \in Predicate /\ q \in Predicate
  BY SpeculationTyped DEF BranchKnown
<1>4. \A w \in Extensions[q] : w \in Extensions[p]
  BY <1>3, SubsetTransitive DEF Extensions
<1>5. ~b.ended => Replays(c, s, b, q)
  BY <1>4 DEF Replays, BranchKnown
<1> QED
  BY <1>1, <1>2, <1>5 DEF BranchKnown

\* A branch may be given messages that its predicate covers.
LEMMA InboxGrows ==
    ASSUME NEW c \in Comps, NEW s, NEW S, NEW p, NEW b, BranchKnown(c, s, S, p, b),
           NEW i \in Inboxes(c), Extends(b.inbox, i), Covered(i, S, p)
    PROVE  BranchKnown(c, s, S, p, [b EXCEPT !.inbox = i])
<1> DEFINE f == [b EXCEPT !.inbox = i]
<1>1. b \in [state : States[c], inbox : Inboxes(c), did_put_or_get : SUBSET Ports(c), ended : BOOLEAN]
  BY DEF BranchKnown
<1>2. /\ f \in [state : States[c], inbox : Inboxes(c), did_put_or_get : SUBSET Ports(c), ended : BOOLEAN]
      /\ f.state = b.state /\ f.inbox = i /\ f.did_put_or_get = b.did_put_or_get /\ f.ended = b.ended
  BY <1>1
<1> HIDE DEF f
<1>3. ExchangesNoted(f, S, p)
  BY <1>2 DEF ExchangesNoted, BranchKnown, Extends
<1>4. ASSUME ~f.ended PROVE Replays(c, s, f, p)
  <2>1. b \in Runnable(c) /\ f \in Runnable(c)
    <3>1. b.ended = FALSE /\ f.ended = FALSE
      BY <1>1, <1>2, <1>4
    <3> QED
      BY <1>1, <1>2, <3>1 DEF Runnable
  <2>2. ASSUME NEW j, NEW d PROVE Knowing(f, j, d) = Knowing(b, j, d)
    <3>1. Knowing(f, j, d) =
            [state |-> f.state, inbox |-> j, did_put_or_get |-> f.did_put_or_get \cup d, ended |-> FALSE]
      BY <2>1, KnowingIs
    <3>2. Knowing(b, j, d) =
            [state |-> b.state, inbox |-> j, did_put_or_get |-> b.did_put_or_get \cup d, ended |-> FALSE]
      BY <2>1, KnowingIs
    <3> QED
      BY <1>2, <3>1, <3>2
  <2>3. Replays(c, s, b, p)
    BY <1>2, <1>4 DEF BranchKnown
  <2>4. \A j : Extends(f.inbox, j) => Extends(b.inbox, j)
    BY <1>2 DEF Extends
  <2> QED
    BY <1>2, <2>2, <2>3, <2>4 DEF Replays
<1>5. BranchKnown(c, s, S, p, f)
  BY <1>2, <1>3, <1>4 DEF BranchKnown
<1> QED
  BY <1>5 DEF f

-----------------------------------------------------------------------------
(* Maps of branches *)

LEMMA WithMap ==
    ASSUME NEW m, NEW p, NEW b
    PROVE  /\ DOMAIN With(m, p, b) = DOMAIN m \cup {p}
           /\ With(m, p, b)[p] = b
           /\ \A q \in DOMAIN m : q # p => With(m, p, b)[q] = m[q]
BY DEF With

LEMMA WithoutMap ==
    ASSUME NEW m, NEW p
    PROVE  /\ DOMAIN Without(m, p) = DOMAIN m \ {p}
           /\ \A q \in DOMAIN Without(m, p) : Without(m, p)[q] = m[q]
BY DEF Without

\* Only the branch that is merged into changes, and only its inbox.
LEMMA MergedDomain ==
    ASSUME NEW m, NEW p, NEW b
    PROVE  DOMAIN Merged(m, p, b) = DOMAIN m \cup {p}
<1>1. CASE p \in DOMAIN m
  <2>1. DOMAIN m \cup {p} = DOMAIN m
    BY <1>1
  <2>2. DOMAIN Merged(m, p, b) = DOMAIN m
    BY <1>1 DEF Merged
  <2> QED
    BY <2>1, <2>2
<1>2. CASE p \notin DOMAIN m
  BY <1>2 DEF Merged, With
<1> QED
  BY <1>1, <1>2

LEMMA MergedOther ==
    ASSUME NEW m, NEW p, NEW b, NEW q \in DOMAIN m, q # p
    PROVE  Merged(m, p, b)[q] = m[q]
<1>1. CASE p \in DOMAIN m
  BY <1>1 DEF Merged
<1>2. CASE p \notin DOMAIN m
  BY <1>2 DEF Merged, With
<1> QED
  BY <1>1, <1>2

LEMMA MergedInto ==
    ASSUME NEW m, NEW p \in DOMAIN m, NEW b
    PROVE  Merged(m, p, b)[p] = [m[p] EXCEPT !.inbox = Override(b.inbox, @)]
BY DEF Merged

LEMMA MergedNew ==
    ASSUME NEW m, NEW p, p \notin DOMAIN m, NEW b
    PROVE  Merged(m, p, b)[p] = b
BY DEF Merged, With

\* Branches of one predicate have inboxes that agree.
LEMMA MergedBranch ==
    ASSUME NEW c \in Comps, NEW s, NEW S, PayloadsUnique(S), NEW p,
           NEW a, BranchKnown(c, s, S, p, a), NEW b, BranchKnown(c, s, S, p, b)
    PROVE  BranchKnown(c, s, S, p, [a EXCEPT !.inbox = Override(b.inbox, @)])
<1>1. /\ a.inbox \in Inboxes(c) /\ Covered(a.inbox, S, p)
      /\ b.inbox \in Inboxes(c) /\ Covered(b.inbox, S, p)
  BY DEF BranchKnown
<1> DEFINE u == Override(b.inbox, a.inbox)
<1>2. u \in Inboxes(c) /\ Extends(a.inbox, u)
  BY <1>1, CoveredAgree, OverrideExtends
<1>3. Covered(u, S, p)
  BY <1>1 DEF Covered, Override
<1> HIDE DEF u
<1>4. BranchKnown(c, s, S, p, [a EXCEPT !.inbox = u])
  BY <1>2, <1>3, InboxGrows
<1> QED
  BY <1>4 DEF u

LEMMA MergedKnown ==
    ASSUME NEW c \in Comps, NEW s, NEW S, PayloadsUnique(S),
           NEW m, BranchesKnown(c, s, S, m), NEW p, NEW b, BranchKnown(c, s, S, p, b)
    PROVE  BranchesKnown(c, s, S, Merged(m, p, b))
<1> SUFFICES ASSUME NEW q \in DOMAIN Merged(m, p, b)
             PROVE  BranchKnown(c, s, S, q, Merged(m, p, b)[q])
  BY DEF BranchesKnown
<1>1. CASE q # p
  <2>1. q \in DOMAIN m \cup {p}
    BY MergedDomain
  <2>2. q \in DOMAIN m /\ BranchKnown(c, s, S, q, m[q])
    BY <1>1, <2>1 DEF BranchesKnown
  <2>3. Merged(m, p, b)[q] = m[q]
    BY <1>1, <2>2, MergedOther
  <2> QED
    BY <2>2, <2>3
<1>2. CASE q = p /\ p \in DOMAIN m
  <2>1. BranchKnown(c, s, S, p, m[p])
    BY <1>2 DEF BranchesKnown
  <2> DEFINE g == [m[p] EXCEPT !.inbox = Override(b.inbox, @)]
  <2>2. BranchKnown(c, s, S, p, g)
    BY <2>1, MergedBranch
  <2>3. Merged(m, p, b)[p] = g
    BY <1>2, MergedInto
  <2> HIDE DEF g
  <2> QED
    BY <1>2, <2>2, <2>3
<1>3. CASE q = p /\ p \notin DOMAIN m
  BY <1>3, MergedNew
<1> QED
  BY <1>1, <1>2, <1>3

LEMMA BranchesMonotone ==
    ASSUME NEW c \in Comps, NEW s, NEW S, NEW T, S \subseteq T, NEW m, BranchesKnown(c, s, S, m)
    PROVE  BranchesKnown(c, s, T, m)
<1> SUFFICES ASSUME NEW p \in DOMAIN m PROVE BranchKnown(c, s, T, p, m[p])
  BY DEF BranchesKnown
<1>1. BranchKnown(c, s, S, p, m[p])
  BY DEF BranchesKnown
<1>2. p \in Speculation /\ AssignsSubset(p, p)
  BY <1>1, SubsetReflexive DEF BranchKnown
<1> QED
  BY <1>1, <1>2, BranchMonotone

LEMMA WithoutKnown ==
    ASSUME NEW c, NEW s, NEW S, NEW m, BranchesKnown(c, s, S, m), NEW p
    PROVE  BranchesKnown(c, s, S, Without(m, p))
BY DEF BranchesKnown, Without

LEMMA WithoutNoneEnded == ASSUME NEW m, NoneEnded(m), NEW p PROVE NoneEnded(Without(m, p))
BY DEF NoneEnded, Without

LEMMA EmptyMaps ==
    ASSUME NEW c, NEW s, NEW S
    PROVE  BranchesKnown(c, s, S, <<>>) /\ NoneEnded(<<>>)
BY EmptyMap DEF BranchesKnown, NoneEnded

LEMMA MergedNoneEnded ==
    ASSUME NEW c, NEW s, NEW S, NEW m, BranchesKnown(c, s, S, m),
           NoneEnded(m), NEW p, NEW b, ~b.ended
    PROVE  NoneEnded(Merged(m, p, b))
<1> SUFFICES ASSUME NEW q \in DOMAIN Merged(m, p, b) PROVE ~Merged(m, p, b)[q].ended
  BY DEF NoneEnded
<1>0. q \in DOMAIN m \cup {p}
  BY MergedDomain
<1>1. CASE q # p
  <2>1. q \in DOMAIN m
    BY <1>0, <1>1
  <2>2. Merged(m, p, b)[q] = m[q]
    BY <1>1, <2>1, MergedOther
  <2> QED
    BY <2>1, <2>2 DEF NoneEnded
<1>2. CASE q = p /\ p \in DOMAIN m
  <2>1. "ended" \in DOMAIN m[p]
    BY <1>2 DEF BranchesKnown, BranchKnown
  <2>2. Merged(m, p, b)[p].ended = m[p].ended
    BY <1>2, <2>1 DEF Merged
  <2> QED
    BY <1>2, <2>2 DEF NoneEnded
<1>3. CASE q = p /\ p \notin DOMAIN m
  BY <1>3, MergedNew
<1> QED
  BY <1>0, <1>1, <1>2, <1>3

\* The branch under p after b has been merged into it.
LEMMA MergedInbox ==
    ASSUME NEW c, NEW s, NEW S, NEW m, BranchesKnown(c, s, S, m), NEW p \in DOMAIN m, NEW b
    PROVE  DOMAIN Merged(m, p, b)[p].inbox = DOMAIN b.inbox \cup DOMAIN m[p].inbox
<1>1. "inbox" \in DOMAIN m[p]
  BY DEF BranchesKnown, BranchKnown
<1>2. Merged(m, p, b)[p].inbox = Override(b.inbox, m[p].inbox)
  BY <1>1 DEF Merged
<1> QED
  BY <1>2 DEF Override

LEMMA KeepsMerged ==
    ASSUME NEW c \in Comps, NEW s, NEW S, NEW m, BranchesKnown(c, s, S, m),
           NEW q, Keeps(c, q, m), NEW p, NEW b
    PROVE  Keeps(c, q, Merged(m, p, b))
<1>1. c \notin Natives
  BY HomeAssumption
<1>2. q \in DOMAIN m /\ Gotten(c, q) \subseteq DOMAIN m[q].inbox
  BY <1>1 DEF Keeps
<1>3. q \in DOMAIN Merged(m, p, b)
  <2>1. DOMAIN Merged(m, p, b) = DOMAIN m \cup {p}
    BY MergedDomain
  <2> QED
    BY <1>2, <2>1
<1>4. DOMAIN m[q].inbox \subseteq DOMAIN Merged(m, p, b)[q].inbox
  <2>1. CASE p = q
    BY <1>2, <2>1, MergedInbox
  <2>2. CASE p # q
    BY <1>2, <2>2, MergedOther
  <2> QED
    BY <2>1, <2>2
<1> QED
  BY <1>1, <1>2, <1>3, <1>4 DEF Keeps

\* A branch under q that has all messages of q keeps q when it is merged.
LEMMA KeepsNew ==
    ASSUME NEW c \in Comps, NEW s, NEW S, NEW m, BranchesKnown(c, s, S, m),
           NEW q, NEW b, Gotten(c, q) \subseteq DOMAIN b.inbox
    PROVE  Keeps(c, q, Merged(m, q, b))
<1>1. c \notin Natives
  BY HomeAssumption
<1>3. q \in DOMAIN Merged(m, q, b)
  <2>1. DOMAIN Merged(m, q, b) = DOMAIN m \cup {q}
    BY MergedDomain
  <2> QED
    BY <2>1
<1>4. DOMAIN b.inbox \subseteq DOMAIN Merged(m, q, b)[q].inbox
  <2>1. CASE q \in DOMAIN m
    BY <2>1, MergedInbox
  <2>2. CASE q \notin DOMAIN m
    BY <2>2, MergedNew
  <2> QED
    BY <2>1, <2>2
<1> QED
  BY <1>1, <1>3, <1>4 DEF Keeps

LEMMA KeepsWithout ==
    ASSUME NEW o, NEW q, NEW m, Keeps(o, q, m), NEW p, p # q
    PROVE  Keeps(o, q, Without(m, p))
BY DEF Keeps, Without

LEMMA KeepsEmpty == ASSUME NEW o, NEW q PROVE ~Keeps(o, q, <<>>)
BY EmptyMap DEF Keeps

-----------------------------------------------------------------------------
(* Branches of natives *)

LEMMA NativeMergedDomain ==
    ASSUME NEW m, NEW p, NEW b
    PROVE  DOMAIN NativeMerged(m, p, b) = DOMAIN m \cup {p}
<1>1. CASE p \in DOMAIN m
  <2>1. DOMAIN m \cup {p} = DOMAIN m
    BY <1>1
  <2>2. DOMAIN NativeMerged(m, p, b) = DOMAIN m
    BY <1>1 DEF NativeMerged
  <2> QED
    BY <2>1, <2>2
<1>2. CASE p \notin DOMAIN m
  BY <1>2 DEF NativeMerged, With
<1> QED
  BY <1>1, <1>2

LEMMA NativeMergedOther ==
    ASSUME NEW m, NEW p, NEW b, NEW q \in DOMAIN m, q # p
    PROVE  NativeMerged(m, p, b)[q] = m[q]
<1>1. CASE p \in DOMAIN m
  BY <1>1 DEF NativeMerged
<1>2. CASE p \notin DOMAIN m
  BY <1>2 DEF NativeMerged, With
<1> QED
  BY <1>1, <1>2

LEMMA NativeMergedNew ==
    ASSUME NEW m, NEW p, p \notin DOMAIN m, NEW b
    PROVE  NativeMerged(m, p, b)[p] = b
BY DEF NativeMerged, With

LEMMA NativeMergedInto ==
    ASSUME NEW n, NEW m, NEW p \in DOMAIN m, NEW b,
           m[p] \in [index : {p[n]}, gotten : Inboxes(n), to_get : SUBSET Channels]
    PROVE  NativeMerged(m, p, b)[p] \in
              [index : {m[p].index}, gotten : {Override(b.gotten, m[p].gotten)},
               to_get : {m[p].to_get \ (DOMAIN b.gotten \ DOMAIN m[p].gotten)}]
BY DEF NativeMerged

\* What is left to get of a merged branch is what is left to get of both.
LEMMA NativeMergedBranch ==
    ASSUME NEW n \in Natives, NEW bs, NEW S, PayloadsUnique(S), NEW m, NEW p \in DOMAIN m,
           NativeBranchKnown(n, bs, S, p, m[p]),
           NEW b, NativeBranchKnown(n, bs, S, p, b)
    PROVE  /\ NativeBranchKnown(n, bs, S, p, NativeMerged(m, p, b)[p])
           /\ NativeMerged(m, p, b)[p].to_get = m[p].to_get \cap b.to_get
<1> DEFINE f == NativeMerged(m, p, b)[p]
           a == m[p]
<1>1. /\ a \in [index : {p[n]}, gotten : Inboxes(n), to_get : SUBSET Channels]
      /\ b \in [index : {p[n]}, gotten : Inboxes(n), to_get : SUBSET Channels]
  BY DEF NativeBranchKnown
<1>2. f \in [index : {a.index}, gotten : {Override(b.gotten, a.gotten)},
             to_get : {a.to_get \ (DOMAIN b.gotten \ DOMAIN a.gotten)}]
  BY <1>1, NativeMergedInto
<1> HIDE DEF f, a
<1>3. /\ f.index = p[n] /\ f.gotten = Override(b.gotten, a.gotten)
      /\ f.to_get = a.to_get \ (DOMAIN b.gotten \ DOMAIN a.gotten)
  BY <1>1, <1>2
<1>4. /\ Covered(a.gotten, S, p) /\ Covered(b.gotten, S, p)
      /\ a.to_get = bs[p[n] + 1].to_get \ DOMAIN a.gotten
      /\ b.to_get = bs[p[n] + 1].to_get \ DOMAIN b.gotten
  BY DEF NativeBranchKnown, a
<1>5. f.gotten \in Inboxes(n) /\ DOMAIN f.gotten = DOMAIN a.gotten \cup DOMAIN b.gotten
  <2>1. Override(b.gotten, a.gotten) \in Inboxes(n)
    BY <1>1, <1>4, CoveredAgree, OverrideExtends
  <2>2. DOMAIN Override(b.gotten, a.gotten) = DOMAIN a.gotten \cup DOMAIN b.gotten
    BY DEF Override
  <2> QED
    BY <1>3, <2>1, <2>2
<1>6. Covered(f.gotten, S, p)
  BY <1>3, <1>4 DEF Covered, Override
<1>7. /\ f.to_get = bs[p[n] + 1].to_get \ DOMAIN f.gotten
      /\ f.to_get = a.to_get \cap b.to_get
  BY <1>3, <1>4, <1>5
<1>8. f \in [index : {p[n]}, gotten : Inboxes(n), to_get : SUBSET Channels]
  BY <1>1, <1>2, <1>3, <1>5
<1>9. NativeBranchKnown(n, bs, S, p, f)
  <2>1. NativeBranchKnown(n, bs, S, p, a)
    BY DEF a
  <2> QED
    BY <1>6, <1>7, <1>8, <2>1 DEF NativeBranchKnown
<1> QED
  BY <1>7, <1>9 DEF f, a

LEMMA NativeMergedKnown ==
    ASSUME NEW n \in Natives, NEW bs, NEW S, PayloadsUnique(S),
           NEW m, NativeBranchesKnown(n, bs, S, m), NEW p, NEW b, NativeBranchKnown(n, bs, S, p, b)
    PROVE  NativeBranchesKnown(n, bs, S, NativeMerged(m, p, b))
<1> SUFFICES ASSUME NEW q \in DOMAIN NativeMerged(m, p, b)
             PROVE  NativeBranchKnown(n, bs, S, q, NativeMerged(m, p, b)[q])
  BY DEF NativeBranchesKnown
<1>0. q \in DOMAIN m \cup {p}
  BY NativeMergedDomain
<1>1. CASE q # p
  <2>1. q \in DOMAIN m /\ NativeBranchKnown(n, bs, S, q, m[q])
    BY <1>0, <1>1 DEF NativeBranchesKnown
  <2>2. NativeMerged(m, p, b)[q] = m[q]
    BY <1>1, <2>1, NativeMergedOther
  <2> QED
    BY <2>1, <2>2
<1>2. CASE q = p /\ p \in DOMAIN m
  <2>1. NativeBranchKnown(n, bs, S, p, m[p])
    BY <1>2 DEF NativeBranchesKnown
  <2> QED
    BY <1>2, <2>1, NativeMergedBranch
<1>3. CASE q = p /\ p \notin DOMAIN m
  BY <1>3, NativeMergedNew
<1> QED
  BY <1>0, <1>1, <1>2, <1>3

LEMMA NativeKeepsMerged ==
    ASSUME NEW n \in Natives, NEW bs, NEW S, PayloadsUnique(S),
           NEW m, NativeBranchesKnown(n, bs, S, m), NEW p, NEW b, NativeBranchKnown(n, bs, S, p, b),
           NEW q, Keeps(n, q, m) \/ (q = p /\ b.to_get = {})
    PROVE  Keeps(n, q, NativeMerged(m, p, b))
<1>0. q \in DOMAIN NativeMerged(m, p, b)
  <2>1. DOMAIN NativeMerged(m, p, b) = DOMAIN m \cup {p}
    BY NativeMergedDomain
  <2> QED
    BY <2>1 DEF Keeps
<1>1. CASE q # p
  <2>1. q \in DOMAIN m /\ m[q].to_get = {}
    BY <1>1 DEF Keeps
  <2>2. NativeMerged(m, p, b)[q] = m[q]
    BY <1>1, <2>1, NativeMergedOther
  <2> QED
    BY <1>0, <2>1, <2>2 DEF Keeps
<1>2. CASE q = p /\ p \in DOMAIN m
  <2>1. NativeBranchKnown(n, bs, S, p, m[p])
    BY <1>2 DEF NativeBranchesKnown
  <2>2. NativeMerged(m, p, b)[p].to_get = m[p].to_get \cap b.to_get
    BY <1>2, <2>1, NativeMergedBranch
  <2> QED
    BY <1>0, <1>2, <2>2 DEF Keeps
<1>3. CASE q = p /\ p \notin DOMAIN m
  <2>1. b.to_get = {}
    BY <1>3 DEF Keeps
  <2> QED
    BY <1>0, <1>3, <2>1, NativeMergedNew DEF Keeps
<1> QED
  BY <1>1, <1>2, <1>3

LEMMA NativeMonotone ==
    ASSUME NEW n, NEW bs, NEW S, NEW T, S \subseteq T, NEW m, NativeBranchesKnown(n, bs, S, m)
    PROVE  NativeBranchesKnown(n, bs, T, m)
<1>1. \A p \in DOMAIN m : Covered(m[p].gotten, T, p)
  BY DEF NativeBranchesKnown, NativeBranchKnown, Covered
<1> QED
  BY <1>1 DEF NativeBranchesKnown, NativeBranchKnown

LEMMA NativeWithoutKnown ==
    ASSUME NEW n, NEW bs, NEW S, NEW m, NativeBranchesKnown(n, bs, S, m), NEW p
    PROVE  NativeBranchesKnown(n, bs, S, Without(m, p))
BY DEF NativeBranchesKnown, Without

LEMMA NativeEmptyKnown == ASSUME NEW n, NEW bs, NEW S PROVE NativeBranchesKnown(n, bs, S, <<>>)
BY EmptyMap DEF NativeBranchesKnown

-----------------------------------------------------------------------------
(* Feeding a message *)

LEMMA MessageTyped ==
    ASSUME NEW S, Messages(S), NEW cm \in S
    PROVE  /\ cm[1] \in Channels /\ cm[2].pred \in Speculation /\ cm[2].payload \in Payloads
           /\ cm[2].pred[cm[1]] = Firing /\ cm = <<cm[1], cm[2]>>
BY DEF Messages

\* A message that is consistent with what covers an inbox agrees with the inbox.
LEMMA NoConflict ==
    ASSUME NEW S, PayloadsUnique(S), NEW cm \in S,
           NEW p \in Predicate, Consistent(p, cm[2].pred), NEW i, Covered(i, S, p)
    PROVE  cm[1] \in DOMAIN i => i[cm[1]] = cm[2].payload
<1> SUFFICES ASSUME cm[1] \in DOMAIN i PROVE i[cm[1]] = cm[2].payload
  OBVIOUS
<1>1. PICK dm \in S : dm[1] = cm[1] /\ dm[2].payload = i[cm[1]] /\ AssignsSubset(dm[2].pred, p)
  BY DEF Covered
<1>2. Consistent(dm[2].pred, cm[2].pred)
  BY <1>1 DEF Consistent, AssignsSubset
<1> QED
  BY <1>1, <1>2 DEF PayloadsUnique

LEMMA WithCovered ==
    ASSUME NEW S, Messages(S), PayloadsUnique(S), NEW cm \in S, NEW o, GetterOf[cm[1]] = o,
           NEW p \in Speculation, NEW q \in Speculation, Consistent(p, cm[2].pred),
           AssignsSubset(p, q), AssignsSubset(cm[2].pred, q),
           NEW i \in Inboxes(o), Covered(i, S, p)
    PROVE  /\ With(i, cm[1], cm[2].payload) \in Inboxes(o)
           /\ Extends(i, With(i, cm[1], cm[2].payload))
           /\ DOMAIN With(i, cm[1], cm[2].payload) = DOMAIN i \cup {cm[1]}
           /\ Covered(With(i, cm[1], cm[2].payload), S, q)
<1> DEFINE j == With(i, cm[1], cm[2].payload)
<1>1. cm[1] \in GetChannels(o) /\ cm[2].payload \in Payloads
  BY MessageTyped DEF GetChannels
<1>2. /\ j \in Inboxes(o) /\ DOMAIN j = DOMAIN i \cup {cm[1]} /\ j[cm[1]] = cm[2].payload
      /\ \A k \in DOMAIN i : k # cm[1] => j[k] = i[k]
  <2> DEFINE ch == cm[1]
             m == cm[2].payload
  <2>1. ch \in GetChannels(o) /\ m \in Payloads
    BY <1>1
  <2> HIDE DEF ch, m
  <2>2. With(i, ch, m) \in Inboxes(o)
    BY <2>1, WithInbox
  <2>3. /\ DOMAIN With(i, ch, m) = DOMAIN i \cup {ch} /\ With(i, ch, m)[ch] = m
        /\ \A k \in DOMAIN i : k # ch => With(i, ch, m)[k] = i[k]
    BY DEF With
  <2> QED
    BY <2>2, <2>3 DEF ch, m
<1>3. cm[1] \in DOMAIN i => i[cm[1]] = cm[2].payload
  <2>1. p \in Predicate
    BY SpeculationTyped
  <2> QED
    BY <2>1, NoConflict
<1> HIDE DEF j
<1>4. Extends(i, j)
  BY <1>2, <1>3 DEF Extends
<1>5. Covered(i, S, q)
  BY CoveredMonotone
<1>6. Covered(j, S, q)
  <2> SUFFICES ASSUME NEW ch \in DOMAIN j
               PROVE  \E dm \in S : dm[1] = ch /\ dm[2].payload = j[ch] /\ AssignsSubset(dm[2].pred, q)
    BY DEF Covered
  <2>1. CASE ch = cm[1]
    BY <1>2, <2>1
  <2>2. CASE ch # cm[1]
    <3>1. ch \in DOMAIN i /\ j[ch] = i[ch]
      BY <1>2, <2>2
    <3> QED
      BY <1>5, <3>1 DEF Covered
  <2> QED
    BY <2>1, <2>2
<1> QED
  BY <1>2, <1>4, <1>6 DEF j

LEMMA FedKnown ==
    ASSUME NEW c \in Comps, NEW s, NEW S, Messages(S), PayloadsUnique(S),
           NEW cm \in S, GetterOf[cm[1]] = c,
           NEW p, NEW b, BranchKnown(c, s, S, p, b), ~b.ended,
           NEW q \in Speculation, Consistent(p, cm[2].pred),
           AssignsSubset(p, q), AssignsSubset(cm[2].pred, q)
    PROVE  /\ BranchKnown(c, s, S, q, Fed(b, cm)) /\ ~Fed(b, cm).ended
           /\ DOMAIN b.inbox \subseteq DOMAIN Fed(b, cm).inbox
<1>1. /\ p \in Speculation /\ b.inbox \in Inboxes(c) /\ Covered(b.inbox, S, p)
      /\ b \in [state : States[c], inbox : Inboxes(c), did_put_or_get : SUBSET Ports(c), ended : BOOLEAN]
  BY DEF BranchKnown
<1> DEFINE j == With(b.inbox, cm[1], cm[2].payload)
<1>2. /\ j \in Inboxes(c) /\ Extends(b.inbox, j) /\ DOMAIN j = DOMAIN b.inbox \cup {cm[1]}
      /\ Covered(j, S, q)
  BY <1>1, WithCovered
<1>3. BranchKnown(c, s, S, q, b)
  BY BranchMonotone
<1> HIDE DEF j
<1>4. BranchKnown(c, s, S, q, [b EXCEPT !.inbox = j])
  BY <1>2, <1>3, InboxGrows
<1>5. Fed(b, cm) = [b EXCEPT !.inbox = j]
  BY DEF Fed, j
<1>6. [b EXCEPT !.inbox = j].inbox = j /\ [b EXCEPT !.inbox = j].ended = b.ended
  BY <1>1
<1> QED
  BY <1>2, <1>4, <1>5, <1>6

LEMMA NativeFedKnown ==
    ASSUME NEW n \in Natives, NEW bs, NEW S, Messages(S), PayloadsUnique(S),
           NEW cm \in S, GetterOf[cm[1]] = n,
           NEW p, NEW b, NativeBranchKnown(n, bs, S, p, b),
           NEW q \in Speculation, Consistent(p, cm[2].pred),
           AssignsSubset(p, q), AssignsSubset(cm[2].pred, q)
    PROVE  NativeBranchKnown(n, bs, S, q, NativeFed(b, cm))
<1>1. /\ p \in Speculation /\ b.gotten \in Inboxes(n) /\ Covered(b.gotten, S, p)
      /\ b \in [index : {p[n]}, gotten : Inboxes(n), to_get : SUBSET Channels]
      /\ b.to_get = bs[p[n] + 1].to_get \ DOMAIN b.gotten
      /\ p[n] # Unassigned /\ p[n] + 1 \in DOMAIN bs
  BY DEF NativeBranchKnown
<1> DEFINE j == With(b.gotten, cm[1], cm[2].payload)
           f == NativeFed(b, cm)
<1>2. /\ j \in Inboxes(n) /\ Extends(b.gotten, j) /\ DOMAIN j = DOMAIN b.gotten \cup {cm[1]}
      /\ Covered(j, S, q)
  BY <1>1, WithCovered
<1>3. q[n] = p[n]
  BY <1>1, SpecVarsTyped DEF AssignsSubset
<1> HIDE DEF j
<1>4. f = [b EXCEPT !.to_get = @ \ {cm[1]}, !.gotten = j]
  BY DEF NativeFed, j
<1>5. /\ f \in [index : {p[n]}, gotten : Inboxes(n), to_get : SUBSET Channels]
      /\ f.gotten = j /\ f.to_get = b.to_get \ {cm[1]}
  BY <1>1, <1>2, <1>4
<1> HIDE DEF f
<1>6. f.to_get = bs[q[n] + 1].to_get \ DOMAIN f.gotten
  BY <1>1, <1>2, <1>3, <1>5
<1>7. NativeBranchKnown(n, bs, S, q, f)
  BY <1>1, <1>2, <1>3, <1>5, <1>6 DEF NativeBranchKnown
<1> QED
  BY <1>7 DEF f

-----------------------------------------------------------------------------
(* Running a branch to its blocker *)

LEMMA RunNotes ==
    ASSUME NEW c \in Comps, NEW s, NEW S, NEW p, NEW b, BranchKnown(c, s, S, p, b), ~b.ended,
           NEW r, r = Run(c, b, p)
    PROVE  /\ b \in Runnable(c) /\ r.branch \in Runnable(c) /\ r.branch.inbox = b.inbox
           /\ ExchangesNoted(r.branch, S, p) /\ ~r.branch.ended
           /\ PutsOf(c, r.branch) = PutsOf(c, b)
<1>1. b \in Runnable(c) /\ p \in Predicate
  BY KnownRunnable, SpeculationTyped DEF BranchKnown
<1>2. RunTyped(c, b, r)
  BY <1>1, RunFacts
<1>3. /\ r.branch \in Runnable(c) /\ r.branch.inbox = b.inbox
      /\ b.did_put_or_get \subseteq r.branch.did_put_or_get
      /\ \A port \in r.branch.did_put_or_get \ b.did_put_or_get :
           port[2] = "Getter" /\ port[1] \in DOMAIN b.inbox
  BY <1>2 DEF RunTyped
<1>4. ~r.branch.ended
  BY <1>3 DEF Runnable
<1>5. \A port \in PutPorts(c) : port[2] # "Getter"
  BY DEF PutPorts
<1>6. PutsOf(c, r.branch) = PutsOf(c, b)
  BY <1>3, <1>5 DEF PutsOf
<1>7. ExchangesNoted(r.branch, S, p)
  <2>1. ExchangesNoted(b, S, p)
    BY DEF BranchKnown
  <2> SUFFICES ASSUME NEW port \in r.branch.did_put_or_get
               PROVE  /\ port[2] = "Getter" => port[1] \in DOMAIN r.branch.inbox
                      /\ port[2] = "Putter" => PutUnder(port, S, p)
    BY DEF ExchangesNoted
  <2>2. CASE port \in b.did_put_or_get
    BY <1>3, <2>1, <2>2 DEF ExchangesNoted
  <2>3. CASE port \notin b.did_put_or_get
    BY <1>3, <2>3
  <2> QED
    BY <2>2, <2>3
<1> QED
  BY <1>1, <1>3, <1>4, <1>6, <1>7

\* The branch that a run leaves behind at a blocker is known like the one it began with.
LEMMA RunKeeps ==
    ASSUME NEW c \in Comps, NEW s, NEW S, NEW p, NEW b, BranchKnown(c, s, S, p, b), ~b.ended,
           NEW r, r = Run(c, b, p), r.blocker \in {"CouldntReadMsg", "CouldntCheckFiring", "PutMsg"}
    PROVE  BranchKnown(c, s, S, p, r.branch)
<1>1. /\ b \in Runnable(c) /\ r.branch \in Runnable(c) /\ r.branch.inbox = b.inbox
      /\ ExchangesNoted(r.branch, S, p) /\ PutsOf(c, r.branch) = PutsOf(c, b)
  BY RunNotes
<1>2. p \in Speculation /\ p \in Predicate /\ Covered(b.inbox, S, p) /\ Replays(c, s, b, p)
  BY SpeculationTyped DEF BranchKnown
<1>3. Replays(c, s, r.branch, p)
  <2> SUFFICES ASSUME NEW i \in Inboxes(c), Extends(r.branch.inbox, i),
                      NEW d \in SUBSET PutPorts(c), PutsOf(c, r.branch) \subseteq d,
                      NEW q \in Extensions[p]
               PROVE  Run(c, Knowing(r.branch, i, d), q) = Run(c, Knowing(InitialBranch(s), i, d), q)
    BY DEF Replays, PutsOf
  <2>1. q \in Predicate /\ AssignsSubset(p, q)
    BY <1>2 DEF Extensions
  <2>2. Extends(b.inbox, i) /\ PutsOf(c, b) \subseteq d
    BY <1>1
  <2>3. Deterministic(c, b, p, i, d, q)
    BY <1>1, <1>2, <2>1, <2>2, RunDeterministic
  <2>4. Run(c, Knowing(r.branch, i, d), q) = Run(c, Knowing(b, i, d), q)
    BY <2>3 DEF Deterministic
  <2>5. Run(c, Knowing(b, i, d), q) = Run(c, Knowing(InitialBranch(s), i, d), q)
    BY <1>2, <2>2 DEF Replays, PutsOf
  <2> QED
    BY <2>4, <2>5
<1>4. r.branch \in [state : States[c], inbox : Inboxes(c), did_put_or_get : SUBSET Ports(c), ended : BOOLEAN]
  BY <1>1 DEF Runnable
<1> QED
  BY <1>1, <1>2, <1>3, <1>4 DEF BranchKnown

\* Noting a put that the predicate covers.
LEMMA PutNoted ==
    ASSUME NEW c \in Comps, NEW s, NEW S, NEW q, NEW a, BranchKnown(c, s, S, q, a), ~a.ended,
           NEW port \in PutPorts(c), PutUnder(port, S, q),
           NEW f, f = [a EXCEPT !.did_put_or_get = @ \cup {port}]
    PROVE  BranchKnown(c, s, S, q, f) /\ ~f.ended /\ f.inbox = a.inbox
<1>1. a \in Runnable(c) /\ port \in Ports(c) /\ port[2] = "Putter"
  BY KnownRunnable DEF PutPorts, Ports
<1>2. /\ f \in Runnable(c) /\ f.state = a.state /\ f.inbox = a.inbox
      /\ f.did_put_or_get = a.did_put_or_get \cup {port}
  BY <1>1 DEF Runnable
<1>3. ExchangesNoted(f, S, q)
  BY <1>1, <1>2 DEF ExchangesNoted, BranchKnown
<1>4. Replays(c, s, f, q)
  <2> SUFFICES ASSUME NEW i \in Inboxes(c), Extends(f.inbox, i),
                      NEW d \in SUBSET PutPorts(c), f.did_put_or_get \cap PutPorts(c) \subseteq d,
                      NEW w \in Extensions[q]
               PROVE  Run(c, Knowing(f, i, d), w) = Run(c, Knowing(InitialBranch(s), i, d), w)
    BY DEF Replays
  <2>1. f.did_put_or_get \cup d = a.did_put_or_get \cup d
    BY <1>2
  <2>2. Knowing(f, i, d) =
           [state |-> f.state, inbox |-> i, did_put_or_get |-> f.did_put_or_get \cup d, ended |-> FALSE]
    BY <1>2, KnowingIs
  <2>3. Knowing(a, i, d) =
           [state |-> a.state, inbox |-> i, did_put_or_get |-> a.did_put_or_get \cup d, ended |-> FALSE]
    BY <1>1, KnowingIs
  <2>4. Knowing(f, i, d) = Knowing(a, i, d)
    BY <1>2, <2>1, <2>2, <2>3
  <2>5. Extends(a.inbox, i) /\ a.did_put_or_get \cap PutPorts(c) \subseteq d
    BY <1>2
  <2>6. Replays(c, s, a, q)
    BY DEF BranchKnown
  <2> QED
    BY <2>4, <2>5, <2>6 DEF Replays
<1>5. f \in [state : States[c], inbox : Inboxes(c), did_put_or_get : SUBSET Ports(c), ended : BOOLEAN]
  BY <1>2 DEF Runnable
<1>6. ~f.ended
  BY <1>2 DEF Runnable
<1> QED
  BY <1>2, <1>3, <1>4, <1>5, <1>6 DEF BranchKnown

\* The assertions of drain_branches_to_blocked hold: a branch is not asked for what
\* it has.
LEMMA BlockersHonest ==
    ASSUME NEW c \in Comps, NEW s, NEW S, NEW p, NEW b, BranchKnown(c, s, S, p, b), ~b.ended,
           NEW r, r = Run(c, b, p)
    PROVE  /\ r.blocker \in Blockers
           /\ r.blocker = "CouldntReadMsg" => r.channel \notin DOMAIN r.branch.inbox
           /\ r.blocker = "PutMsg" =>
                /\ r.channel \in Channels /\ PutterOf[r.channel] = c /\ r.payload \in Payloads
                /\ <<r.channel, "Putter">> \in PutPorts(c)
                /\ <<r.channel, "Putter">> \notin r.branch.did_put_or_get
<1>1. b \in Runnable(c) /\ p \in Predicate
  BY KnownRunnable, SpeculationTyped DEF BranchKnown
<1>2. RunTyped(c, b, r) /\ Stopped(r, b.inbox, b.did_put_or_get, p)
  BY <1>1, RunFacts
<1>3. r.blocker = "PutMsg" => <<r.channel, "Putter">> \in PutPorts(c)
  BY <1>2 DEF RunTyped, PutPorts
<1>4. r.blocker = "PutMsg" => <<r.channel, "Putter">> \notin r.branch.did_put_or_get
  BY <1>2 DEF RunTyped, Stopped
<1> QED
  BY <1>2, <1>3, <1>4 DEF RunTyped, Stopped

LEMMA FiringAsked ==
    ASSUME NEW c \in Comps, NEW s, NEW S, NEW p, NEW b, BranchKnown(c, s, S, p, b), ~b.ended,
           NEW r, r = Run(c, b, p), r.blocker = "CouldntCheckFiring"
    PROVE  r.channel \in ChannelsOf(c) /\ p[r.channel] = Unassigned
<1>1. b \in Runnable(c) /\ p \in Predicate
  BY KnownRunnable, SpeculationTyped DEF BranchKnown
<1>2. RunTyped(c, b, r) /\ Stopped(r, b.inbox, b.did_put_or_get, p)
  BY <1>1, RunFacts
<1> QED
  BY <1>2 DEF RunTyped, Stopped

-----------------------------------------------------------------------------
(* What a message and a solution tell of the run that they come from *)

LEMMA PutProduced ==
    ASSUME NEW c \in Comps, NEW s, NEW S, NEW p, NEW b, BranchKnown(c, s, S, p, b), ~b.ended,
           NEW r, r = Run(c, b, p), r.blocker = "PutMsg",
           NEW q \in Predicate, AssignsSubset(p, q),
           NEW cm, cm = <<r.channel, [pred |-> q, payload |-> r.payload]>>
    PROVE  Produced(c, s, S, cm)
<1> DEFINE i == b.inbox
           d == PutsOf(c, b)
<1>1. b \in Runnable(c) /\ p \in Predicate /\ Covered(i, S, p)
  BY KnownRunnable, SpeculationTyped DEF BranchKnown
<1>2. /\ i \in Inboxes(c) /\ d \in SUBSET PutPorts(c)
      /\ Run(c, Start(s, i, d), p) = Run(c, b, p) /\ Run(c, Start(s, i, d), q) = Run(c, b, q)
  BY <1>1, AsFromStart, SubsetReflexive
<1>3. /\ <<r.channel, "Putter">> \notin r.branch.did_put_or_get
      /\ PutsOf(c, r.branch) = d
  BY BlockersHonest, RunNotes
<1>4. <<r.channel, "Putter">> \notin d
  BY <1>3 DEF PutsOf
<1>5. Stopped(r, i, d, q)
  BY <1>4 DEF Stopped
<1>7. Deterministic(c, b, p, i, d, q)
  <2>1. Extends(b.inbox, i)
    BY DEF Extends
  <2> QED
    BY <1>1, <1>2, <2>1, RunDeterministic
<1>8. Run(c, Knowing(b, i, d), q) = [r EXCEPT !.branch = Knowing(@, i, d)]
  BY <1>5, <1>7 DEF Deterministic
<1>9. Run(c, Knowing(b, i, d), q) = Run(c, Start(s, i, d), q)
  <2>1. Replays(c, s, b, p) /\ q \in Extensions[p] /\ Extends(b.inbox, i)
    BY <1>1 DEF BranchKnown, Extensions, Extends
  <2> QED
    BY <1>2, <2>1 DEF Replays, Start, PutsOf
<1> DEFINE t == Run(c, Start(s, i, d), q)
<1>10. t.blocker = "PutMsg" /\ t.channel = r.channel /\ t.payload = r.payload
  <2>1. DOMAIN r = {"blocker", "channel", "payload", "branch"}
    BY <1>1, RunFacts DEF RunTyped
  <2>2. t = [r EXCEPT !.branch = Knowing(@, i, d)]
    BY <1>8, <1>9
  <2> HIDE DEF t
  <2> QED
    BY <2>1, <2>2
<1>11. Covered(i, S, q)
  BY <1>1, CoveredMonotone
<1>12. cm[1] = r.channel /\ cm[2].pred = q /\ cm[2].payload = r.payload
  OBVIOUS
<1> HIDE DEF i, d
<1> QED
  BY <1>2, <1>4, <1>10, <1>11, <1>12 DEF Produced, Start

LEMMA ProducedMonotone ==
    ASSUME NEW c, NEW s, NEW S, NEW T, S \subseteq T, NEW cm, Produced(c, s, S, cm)
    PROVE  Produced(c, s, T, cm)
<1>1. \A i, p : Covered(i, S, p) => Covered(i, T, p)
  BY DEF Covered
<1> QED
  BY <1>1 DEF Produced

\* "Payload mapping (Predicate,Port) should be unique": runs that put to a channel
\* under consistent predicates are the same run as far as they know the same.
LEMMA ProducedUnique ==
    ASSUME NEW c \in Comps, NEW s \in States[c], NEW S, PayloadsUnique(S),
           NEW cm, Produced(c, s, S, cm), cm[2].pred \in Speculation,
           NEW dm, Produced(c, s, S, dm), dm[2].pred \in Speculation,
           cm[1] = dm[1], Consistent(cm[2].pred, dm[2].pred)
    PROVE  cm[2].payload = dm[2].payload
<1>1. PICK i1 \in Inboxes(c), d1 \in SUBSET PutPorts(c) :
         /\ Covered(i1, S, cm[2].pred) /\ <<cm[1], "Putter">> \notin d1
         /\ Run(c, Start(s, i1, d1), cm[2].pred).blocker = "PutMsg"
         /\ Run(c, Start(s, i1, d1), cm[2].pred).channel = cm[1]
         /\ Run(c, Start(s, i1, d1), cm[2].pred).payload = cm[2].payload
  BY DEF Produced, Start
<1>2. PICK i2 \in Inboxes(c), d2 \in SUBSET PutPorts(c) :
         /\ Covered(i2, S, dm[2].pred) /\ <<dm[1], "Putter">> \notin d2
         /\ Run(c, Start(s, i2, d2), dm[2].pred).blocker = "PutMsg"
         /\ Run(c, Start(s, i2, d2), dm[2].pred).channel = dm[1]
         /\ Run(c, Start(s, i2, d2), dm[2].pred).payload = dm[2].payload
  BY DEF Produced, Start
<1> DEFINE w == UnionWith(cm[2].pred, dm[2].pred)
<1>3. /\ w \in Predicate /\ cm[2].pred \in Predicate /\ dm[2].pred \in Predicate
      /\ AssignsSubset(cm[2].pred, w) /\ AssignsSubset(dm[2].pred, w)
  BY UnionCovers, SpeculationTyped
<1> HIDE DEF w
<1>4. Covered(i1, S, w) /\ Covered(i2, S, w)
  BY <1>1, <1>2, <1>3, CoveredMonotone
<1>5. Agree(i1, i2)
  BY <1>4, CoveredAgree
<1> DEFINE r1 == Run(c, Start(s, i1, d1), cm[2].pred)
           r2 == Run(c, Start(s, i2, d2), dm[2].pred)
<1>6. /\ Stopped(r1, Override(i1, i2), d1 \cup d2, w)
      /\ Stopped(r2, Override(i1, i2), d1 \cup d2, w)
  BY <1>1, <1>2 DEF Stopped
<1>7. r1.payload = r2.payload
  <2> DEFINE p1 == cm[2].pred
             p2 == dm[2].pred
  <2>1. p1 \in Predicate /\ p2 \in Predicate /\ AssignsSubset(p1, w) /\ AssignsSubset(p2, w)
    BY <1>3
  <2>2. r1 = Run(c, Start(s, i1, d1), p1) /\ r2 = Run(c, Start(s, i2, d2), p2)
    OBVIOUS
  <2> HIDE DEF p1, p2, r1, r2
  <2>3. SamePoint(r1, r2, d1 \cup d2)
    BY <1>3, <1>5, <1>6, <2>1, <2>2, TwoRuns
  <2> QED
    BY <2>3 DEF SamePoint
<1> QED
  BY <1>1, <1>2, <1>7

LEMMA EndedMonotone ==
    ASSUME NEW c, NEW s, NEW S, NEW T, S \subseteq T, NEW q, Ended(c, s, S, q)
    PROVE  Ended(c, s, T, q)
<1>1. \A i, p : Covered(i, S, p) => Covered(i, T, p)
  BY DEF Covered
<1>2. \A port, p : PutUnder(port, S, p) => PutUnder(port, T, p)
  BY DEF PutUnder
<1> QED
  BY <1>1, <1>2 DEF Ended

\* The ports of c that branch b has exchanged a message through are the ones that
\* q says fire.
Honest(c, b, q) == \A port \in Ports(c) : port \in b.did_put_or_get <=> q[port[1]] = Firing

LEMMA EndEnded ==
    ASSUME NEW c \in Comps, NEW s, NEW S, NEW p, NEW b, BranchKnown(c, s, S, p, b), ~b.ended,
           NEW r, r = Run(c, b, p), r.blocker = "SyncBlockEnd",
           NEW q, q = EndPredicate(c, p), Honest(c, r.branch, q)
    PROVE  /\ Ended(c, s, S, q)
           /\ BranchKnown(c, s, S, q, [r.branch EXCEPT !.ended = TRUE])
           /\ Gotten(c, q) \subseteq DOMAIN [r.branch EXCEPT !.ended = TRUE].inbox
<1> DEFINE i == b.inbox
           d == PutsOf(c, b)
<1>1. /\ b \in Runnable(c) /\ p \in Predicate /\ p \in Speculation /\ Covered(i, S, p)
  BY KnownRunnable, SpeculationTyped DEF BranchKnown
<1>2. /\ q \in Speculation /\ q \in Predicate /\ AssignsSubset(p, q)
      /\ \A ch \in ChannelsOf(c) : q[ch] # Unassigned
  BY <1>1, EndCovers, SpeculationTyped
<1>3. /\ r.branch \in Runnable(c) /\ r.branch.inbox = i
      /\ ExchangesNoted(r.branch, S, p) /\ PutsOf(c, r.branch) = d
  BY RunNotes
<1>4. i \in Inboxes(c) /\ d \in SUBSET PutPorts(c)
  BY <1>1 DEF Runnable, PutsOf
<1>5. Covered(i, S, q) /\ \A port \in r.branch.did_put_or_get : PutUnder(port, S, p) => PutUnder(port, S, q)
  BY <1>1, <1>2, CoveredMonotone, PutUnderMonotone
<1>6. Ended(c, s, S, q)
  <2>1. Deterministic(c, b, p, i, d, q)
    <3>1. Extends(b.inbox, i)
      BY DEF Extends
    <3> QED
      BY <1>1, <1>2, <1>4, <3>1, RunDeterministic
  <2>2. Stopped(r, i, d, q)
    BY DEF Stopped
  <2>3. Run(c, Knowing(b, i, d), q) = [r EXCEPT !.branch = Knowing(@, i, d)]
    BY <2>1, <2>2 DEF Deterministic
  <2>4. Run(c, Knowing(b, i, d), q) = Run(c, Start(s, i, d), q)
    <3>1. Replays(c, s, b, p) /\ q \in Extensions[p] /\ Extends(b.inbox, i)
      BY <1>1, <1>2 DEF BranchKnown, Extensions, Extends
    <3> QED
      BY <1>4, <3>1 DEF Replays, Start, PutsOf
  <2> DEFINE t == Run(c, Start(s, i, d), q)
  <2>5. t.blocker = "SyncBlockEnd" /\ t.branch = Knowing(r.branch, i, d)
    <3>1. DOMAIN r = {"blocker", "channel", "payload", "branch"}
      BY <1>1, RunFacts DEF RunTyped
    <3>2. t = [r EXCEPT !.branch = Knowing(@, i, d)]
      BY <2>3, <2>4
    <3> HIDE DEF t, i, d
    <3> QED
      BY <3>1, <3>2
  <2>6. t.branch.did_put_or_get = r.branch.did_put_or_get
    <3>1. Knowing(r.branch, i, d) =
            [state |-> r.branch.state, inbox |-> i,
             did_put_or_get |-> r.branch.did_put_or_get \cup d, ended |-> FALSE]
      BY <1>3, KnowingIs
    <3>2. r.branch.did_put_or_get \cup d = r.branch.did_put_or_get
      BY <1>3 DEF PutsOf
    <3> QED
      BY <2>5, <3>1, <3>2
  <2>7. \A port \in d : PutUnder(port, S, q)
    BY <1>3, <1>5 DEF ExchangesNoted, PutsOf, PutPorts
  <2>8. \A port \in Ports(c) : port \in t.branch.did_put_or_get <=> q[port[1]] = Firing
    BY <2>6 DEF Honest
  <2> HIDE DEF i, d
  <2> QED
    BY <1>2, <1>4, <1>5, <2>5, <2>7, <2>8 DEF Ended, Start
<1> DEFINE f == [r.branch EXCEPT !.ended = TRUE]
<1>7. /\ f \in [state : States[c], inbox : Inboxes(c), did_put_or_get : SUBSET Ports(c), ended : BOOLEAN]
      /\ f.inbox = i /\ f.did_put_or_get = r.branch.did_put_or_get /\ f.ended
  BY <1>3 DEF Runnable
<1> HIDE DEF f
<1>8. ExchangesNoted(f, S, q)
  BY <1>3, <1>5, <1>7 DEF ExchangesNoted
<1>9. BranchKnown(c, s, S, q, f)
  BY <1>2, <1>5, <1>7, <1>8 DEF BranchKnown
<1>10. ASSUME NEW ch \in Gotten(c, q) PROVE ch \in DOMAIN i
  <2>1. ch \in Channels /\ GetterOf[ch] = c /\ q[ch] = Firing
    BY <1>10 DEF Gotten
  <2>2. <<ch, "Getter">> \in Ports(c)
    BY <2>1 DEF Ports
  <2>3. <<ch, "Getter">> \in r.branch.did_put_or_get
    BY <2>1, <2>2 DEF Honest
  <2> QED
    BY <1>3, <2>3 DEF ExchangesNoted
<1> QED
  BY <1>6, <1>7, <1>9, <1>10 DEF f

\* A port that is put to under q fires in q.
LEMMA PutFires ==
    ASSUME NEW S, Messages(S), NEW q \in Predicate, NEW port, PutUnder(port, S, q)
    PROVE  q[port[1]] = Firing
<1>1. PICK cm \in S : cm[1] = port[1] /\ AssignsSubset(cm[2].pred, q)
  BY DEF PutUnder
<1>2. cm[1] \in SpecVars /\ cm[2].pred[cm[1]] = Firing
  BY MessageTyped, SpecVarsTyped
<1> QED
  BY <1>1, <1>2, SpecVarsTyped DEF AssignsSubset

\* A run that came to its end did not stand before a put that was made under its
\* predicate: it has made it.
LEMMA PutMade ==
    ASSUME NEW c \in Comps, NEW s \in States[c], NEW S, Messages(S), PayloadsUnique(S),
           \A cm \in S : PutterOf[cm[1]] = c => Produced(c, s, S, cm),
           NEW q \in Predicate, NEW i \in Inboxes(c), Covered(i, S, q), NEW d \in SUBSET PutPorts(c),
           NEW r, r = Run(c, Start(s, i, d), q), r.blocker = "SyncBlockEnd",
           NEW port \in PutPorts(c), PutUnder(port, S, q)
    PROVE  port \in d
<1> SUFFICES ASSUME port \notin d PROVE FALSE
  OBVIOUS
<1>1. PICK cm \in S : cm[1] = port[1] /\ AssignsSubset(cm[2].pred, q)
  BY DEF PutUnder
<1>2. PutterOf[cm[1]] = c /\ port = <<cm[1], "Putter">>
  BY <1>1 DEF PutPorts
<1>3. Produced(c, s, S, cm)
  BY <1>2
<1>4. PICK j \in Inboxes(c), e \in SUBSET PutPorts(c) :
         /\ Covered(j, S, cm[2].pred) /\ <<cm[1], "Putter">> \notin e
         /\ Run(c, Start(s, j, e), cm[2].pred).blocker = "PutMsg"
         /\ Run(c, Start(s, j, e), cm[2].pred).channel = cm[1]
  BY <1>3 DEF Produced, Start
<1> DEFINE p == cm[2].pred
           t == Run(c, Start(s, j, e), p)
<1>5. p \in Predicate /\ AssignsSubset(p, q) /\ AssignsSubset(q, q)
  BY <1>1, MessageTyped, SpeculationTyped, SubsetReflexive
<1>6. Covered(j, S, q)
  BY <1>1, <1>4, CoveredMonotone
<1>7. Agree(i, j)
  BY <1>6, CoveredAgree
<1>8. Stopped(r, Override(i, j), d \cup e, q) /\ Stopped(t, Override(i, j), d \cup e, q)
  BY <1>2, <1>4 DEF Stopped
<1>9. t = Run(c, Start(s, j, e), p) /\ t.blocker = "PutMsg"
  BY <1>4
<1> HIDE DEF p, t
<1>10. SamePoint(r, t, d \cup e)
  BY <1>5, <1>7, <1>8, <1>9, TwoRuns
<1> QED
  BY <1>9, <1>10 DEF SamePoint

\* A branch under the predicate of a solution is on its way to that solution.
LEMMA Retains ==
    ASSUME NEW c \in Comps, NEW s \in States[c], NEW S, Messages(S), PayloadsUnique(S),
           \A cm \in S : PutterOf[cm[1]] = c => Produced(c, s, S, cm),
           NEW q, Ended(c, s, S, q),
           NEW b, BranchKnown(c, s, S, q, b), ~b.ended,
           NEW r, r = Run(c, b, q)
    PROVE  /\ r.blocker # "Inconsistent" /\ r.blocker # "CouldntCheckFiring"
           /\ r.blocker = "PutMsg" => q[r.channel] = Firing
           /\ r.blocker = "SyncBlockEnd" => Honest(c, r.branch, q) /\ EndPredicate(c, q) = q
<1>0. /\ q \in Speculation /\ q \in Predicate /\ AssignsSubset(q, q)
      /\ \A ch \in ChannelsOf(c) : q[ch] # Unassigned
  BY SpeculationTyped, SubsetReflexive DEF Ended
<1>1. PICK i1 \in Inboxes(c), d1 \in SUBSET PutPorts(c) :
         /\ Covered(i1, S, q) /\ \A port \in d1 : PutUnder(port, S, q)
         /\ Run(c, Start(s, i1, d1), q).blocker = "SyncBlockEnd"
         /\ Honest(c, Run(c, Start(s, i1, d1), q).branch, q)
  BY DEF Ended, Start, Honest
<1> DEFINE r1 == Run(c, Start(s, i1, d1), q)
           i2 == b.inbox
           d2 == PutsOf(c, b)
<1>2. /\ i2 \in Inboxes(c) /\ d2 \in SUBSET PutPorts(c) /\ Covered(i2, S, q)
      /\ r = Run(c, Start(s, i2, d2), q)
  BY <1>0, AsFromStart DEF BranchKnown
<1>3. Agree(i1, i2)
  BY <1>1, <1>2, CoveredAgree
<1>4. r1 = Run(c, Start(s, i1, d1), q) /\ r1.blocker = "SyncBlockEnd" /\ Honest(c, r1.branch, q)
  BY <1>1
<1>5. /\ PutsOf(c, r.branch) = d2 /\ \A port \in d2 : PutUnder(port, S, q)
  BY RunNotes DEF BranchKnown, ExchangesNoted, PutsOf, PutPorts
<1> HIDE DEF r1, i2, d2
<1>6. Stopped(r1, Override(i1, i2), d1 \cup d2, q)
  BY <1>4 DEF Stopped
<1>7. ASSUME Stopped(r, Override(i1, i2), d1 \cup d2, q) PROVE SamePoint(r1, r, d1 \cup d2)
  BY <1>0, <1>2, <1>3, <1>4, <1>6, <1>7, TwoRuns
<1>8. r.blocker # "Inconsistent"
  <2> SUFFICES ASSUME r.blocker = "Inconsistent" PROVE FALSE
    OBVIOUS
  <2>1. Stopped(r, Override(i1, i2), d1 \cup d2, q)
    BY DEF Stopped
  <2> QED
    BY <1>4, <1>7, <2>1 DEF SamePoint
<1>9. r.blocker # "CouldntCheckFiring"
  BY <1>0, FiringAsked
<1>10. ASSUME r.blocker = "PutMsg", q[r.channel] # Firing PROVE FALSE
  <2> DEFINE port == <<r.channel, "Putter">>
  <2>1. port \in PutPorts(c) /\ port \notin r.branch.did_put_or_get
    BY <1>10, BlockersHonest
  <2>2. port \notin d2
    BY <1>5, <2>1 DEF PutsOf
  <2>3. port \notin d1
    BY <1>0, <1>1, <1>10, PutFires
  <2>4. Stopped(r, Override(i1, i2), d1 \cup d2, q)
    BY <1>10, <2>2, <2>3 DEF Stopped
  <2> QED
    BY <1>4, <1>7, <1>10, <2>4 DEF SamePoint
<1>11. ASSUME r.blocker = "SyncBlockEnd" PROVE Honest(c, r.branch, q)
  <2>1. Stopped(r, Override(i1, i2), d1 \cup d2, q)
    BY <1>11 DEF Stopped
  <2>2. r1.branch.did_put_or_get \cup (d1 \cup d2) = r.branch.did_put_or_get \cup (d1 \cup d2)
    BY <1>7, <2>1 DEF SamePoint
  <2> SUFFICES ASSUME NEW port \in Ports(c)
               PROVE  port \in r.branch.did_put_or_get <=> q[port[1]] = Firing
    BY DEF Honest
  <2>3. port \in r1.branch.did_put_or_get <=> q[port[1]] = Firing
    BY <1>4 DEF Honest
  <2>4. CASE port \notin PutPorts(c)
    <3>1. port \notin d1 \cup d2
      BY <1>2, <2>4
    <3> QED
      BY <2>2, <2>3, <3>1
  <2>5. CASE port \in PutPorts(c)
    <3>1. port \in r.branch.did_put_or_get <=> port \in d2
      BY <1>5, <2>5 DEF PutsOf
    <3>2. port \in d2 => q[port[1]] = Firing
      BY <1>0, <1>5, PutFires
    <3>3. ASSUME q[port[1]] = Firing PROVE port \in d2
      <4>1. port \in d1 \/ port \in d2
        <5>1. RunTyped(c, Start(s, i1, d1), r1)
          BY <1>0, <1>4, RunFacts, StartRunnable
        <5>2. Start(s, i1, d1).did_put_or_get = d1
          BY StartIs
        <5>3. \A x \in r1.branch.did_put_or_get \ d1 : x[2] = "Getter"
          BY <5>1, <5>2 DEF RunTyped
        <5>4. port[2] = "Putter"
          BY <2>5 DEF PutPorts
        <5> QED
          BY <2>3, <3>3, <5>3, <5>4
      <4>2. ASSUME port \in d1 PROVE port \in d2
        <5>1. PutUnder(port, S, q)
          BY <1>1, <4>2
        <5> QED
          BY <1>0, <1>2, <1>11, <2>5, <5>1, PutMade
      <4> QED
        BY <4>1, <4>2
    <3> QED
      BY <3>1, <3>2, <3>3
  <2> QED
    BY <2>4, <2>5
<1>12. EndPredicate(c, q) = q
  BY <1>0, EndOfDecided
<1> QED
  BY <1>8, <1>9, <1>10, <1>11, <1>12

-----------------------------------------------------------------------------
(* The maps of a task *)

LEMMA TaskMonotone ==
    ASSUME NEW n, NEW t, NEW st, NEW bs, NEW S, NEW T, S \subseteq T, TaskKnown(n, t, st, bs, S)
    PROVE  TaskKnown(n, t, st, bs, T)
<1>1. ASSUME t.kind = "native" PROVE NativeMapsKnown(n, t, bs, T)
  <2>1. NativeMapsKnown(n, t, bs, S)
    BY <1>1 DEF TaskKnown
  <2> QED
    BY <2>1, NativeMonotone DEF NativeMapsKnown
<1>2. ASSUME t.kind \in {"feed", "drain"} PROVE CompMapsKnown(n, t, st, T)
  <2>1. CompMapsKnown(n, t, st, S)
    BY <1>2 DEF TaskKnown
  <2> QED
    BY <2>1, BranchesMonotone DEF CompMapsKnown
<1> QED
  BY <1>1, <1>2 DEF TaskKnown

TaskFields == {"kind", "comp", "cm", "input", "swap", "output"}

\* What becomes of a task: a branch is taken from the input, one is put into the
\* output, or into the map that is drained next.
Taken(t, p) == [t EXCEPT !.input = Without(@, p)]
IntoOutput(t, p, f) == [t EXCEPT !.output = Merged(@, p, f)]
IntoSwap(t, p, f) == [t EXCEPT !.swap = Merged(@, p, f)]

\* The task without the branch under p, which may have been the one that keeps p.
Departed(n, t, p, u, st, S) ==
    /\ DOMAIN u = TaskFields /\ CompMapsKnown(n, u, st, S)
    /\ u.kind = t.kind /\ u.comp = t.comp /\ u.cm = t.cm
    /\ NoneEnded(t.input) => NoneEnded(u.input)
    /\ \A q : Somewhere(t.comp, q, t) =>
         Somewhere(t.comp, q, u) \/ (q = p /\ Gotten(t.comp, p) \subseteq DOMAIN t.input[p].inbox)

LEMMA BranchTaken ==
    ASSUME NEW n, NEW t, DOMAIN t = TaskFields, NEW st, NEW S, CompMapsKnown(n, t, st, S), NEW p
    PROVE  Departed(n, t, p, Taken(t, p), st, S)
<1> DEFINE u == Taken(t, p)
<1>1. /\ DOMAIN u = TaskFields
      /\ u.kind = t.kind /\ u.comp = t.comp /\ u.cm = t.cm
      /\ u.input = Without(t.input, p) /\ u.swap = t.swap /\ u.output = t.output
  BY DEF TaskFields, Taken
<1> HIDE DEF u
<1>2. CompMapsKnown(n, u, st, S)
  BY <1>1, WithoutKnown DEF CompMapsKnown
<1>3. NoneEnded(t.input) => NoneEnded(u.input)
  BY <1>1, WithoutNoneEnded
<1>4. ASSUME NEW q, Somewhere(t.comp, q, t)
      PROVE  Somewhere(t.comp, q, u) \/ (q = p /\ Gotten(t.comp, p) \subseteq DOMAIN t.input[p].inbox)
  <2>1. t.comp \notin Natives
    BY HomeAssumption DEF CompMapsKnown
  <2>2. CASE Keeps(t.comp, q, t.input) /\ q # p
    BY <1>1, <2>2, KeepsWithout DEF Somewhere
  <2>3. CASE Keeps(t.comp, q, t.input) /\ q = p
    BY <2>1, <2>3 DEF Keeps
  <2>4. CASE Keeps(t.comp, q, t.swap) \/ Keeps(t.comp, q, t.output)
    BY <1>1, <2>4 DEF Somewhere
  <2> QED
    BY <1>4, <2>2, <2>3, <2>4 DEF Somewhere
<1>5. Departed(n, t, p, u, st, S)
  BY <1>1, <1>2, <1>3, <1>4 DEF Departed
<1> QED
  BY <1>5 DEF u

\* The task goes on with maps that are known and that keep what t keeps.
Onward(n, t, u, st, S) ==
    /\ DOMAIN u = TaskFields /\ CompMapsKnown(n, u, st, S)
    /\ u.kind = t.kind /\ u.comp = t.comp /\ u.cm = t.cm
    /\ NoneEnded(t.input) => NoneEnded(u.input)
    /\ \A q : Somewhere(t.comp, q, t) => Somewhere(t.comp, q, u)

LEMMA OnwardTransitive ==
    ASSUME NEW n, NEW st, NEW S, NEW t, NEW u, NEW v, Onward(n, t, u, st, S), Onward(n, u, v, st, S)
    PROVE  Onward(n, t, v, st, S)
BY DEF Onward

LEMMA OutputGrows ==
    ASSUME NEW n, NEW t, DOMAIN t = TaskFields, NEW st, NEW S, PayloadsUnique(S),
           CompMapsKnown(n, t, st, S),
           NEW p, NEW f, BranchKnown(t.comp, st[t.comp], S, p, f)
    PROVE  Onward(n, t, IntoOutput(t, p, f), st, S)
<1> DEFINE u == IntoOutput(t, p, f)
           c == t.comp
<1>1. /\ DOMAIN u = TaskFields
      /\ u.kind = t.kind /\ u.comp = c /\ u.cm = t.cm
      /\ u.input = t.input /\ u.swap = t.swap /\ u.output = Merged(t.output, p, f)
  BY DEF TaskFields, IntoOutput
<1>2. c \in Comps /\ BranchesKnown(c, st[c], S, t.output) /\ BranchKnown(c, st[c], S, p, f)
  BY DEF CompMapsKnown
<1> HIDE DEF u
<1>3. CompMapsKnown(n, u, st, S)
  <2>1. BranchesKnown(c, st[c], S, u.output)
    <3> HIDE DEF c
    <3> QED
      BY <1>1, <1>2, MergedKnown
  <2> QED
    BY <1>1, <2>1 DEF CompMapsKnown
<1>4. ASSUME NEW q, Somewhere(c, q, t) PROVE Somewhere(c, q, u)
  <2> HIDE DEF c
  <2> QED
    BY <1>1, <1>2, <1>4, KeepsMerged DEF Somewhere
<1>5. Onward(n, t, u, st, S)
  BY <1>1, <1>3, <1>4 DEF Onward
<1> QED
  BY <1>5 DEF u

LEMMA OutputKeeps ==
    ASSUME NEW n, NEW t, DOMAIN t = TaskFields, NEW st, NEW S, CompMapsKnown(n, t, st, S),
           NEW p, NEW f, Gotten(t.comp, p) \subseteq DOMAIN f.inbox
    PROVE  Somewhere(t.comp, p, IntoOutput(t, p, f))
<1>1. IntoOutput(t, p, f).output = Merged(t.output, p, f)
  BY DEF TaskFields, IntoOutput
<1>2. t.comp \in Comps /\ BranchesKnown(t.comp, st[t.comp], S, t.output)
  BY DEF CompMapsKnown
<1> QED
  BY <1>1, <1>2, KeepsNew DEF Somewhere

LEMMA SwapGrows ==
    ASSUME NEW n, NEW t, DOMAIN t = TaskFields, NEW st, NEW S, PayloadsUnique(S),
           CompMapsKnown(n, t, st, S),
           NEW p, NEW f, BranchKnown(t.comp, st[t.comp], S, p, f), ~f.ended
    PROVE  Onward(n, t, IntoSwap(t, p, f), st, S)
<1> DEFINE u == IntoSwap(t, p, f)
           c == t.comp
<1>1. /\ DOMAIN u = TaskFields
      /\ u.kind = t.kind /\ u.comp = c /\ u.cm = t.cm
      /\ u.input = t.input /\ u.output = t.output /\ u.swap = Merged(t.swap, p, f)
  BY DEF TaskFields, IntoSwap
<1>2. /\ c \in Comps /\ BranchesKnown(c, st[c], S, t.swap) /\ NoneEnded(t.swap)
      /\ BranchKnown(c, st[c], S, p, f)
  BY DEF CompMapsKnown
<1> HIDE DEF u
<1>3. CompMapsKnown(n, u, st, S)
  <2>1. BranchesKnown(c, st[c], S, u.swap)
    <3> HIDE DEF c
    <3> QED
      BY <1>1, <1>2, MergedKnown
  <2>2. NoneEnded(u.swap)
    <3> HIDE DEF c
    <3> QED
      BY <1>1, <1>2, MergedNoneEnded
  <2> QED
    BY <1>1, <2>1, <2>2 DEF CompMapsKnown
<1>4. ASSUME NEW q, Somewhere(c, q, t) PROVE Somewhere(c, q, u)
  <2> HIDE DEF c
  <2> QED
    BY <1>1, <1>2, <1>4, KeepsMerged DEF Somewhere
<1>5. Onward(n, t, u, st, S)
  BY <1>1, <1>3, <1>4 DEF Onward
<1> QED
  BY <1>5 DEF u

LEMMA SwapKeeps ==
    ASSUME NEW n, NEW t, DOMAIN t = TaskFields, NEW st, NEW S, CompMapsKnown(n, t, st, S),
           NEW p, NEW f, Gotten(t.comp, p) \subseteq DOMAIN f.inbox
    PROVE  Somewhere(t.comp, p, IntoSwap(t, p, f))
<1>1. IntoSwap(t, p, f).swap = Merged(t.swap, p, f)
  BY DEF TaskFields, IntoSwap
<1>2. t.comp \in Comps /\ BranchesKnown(t.comp, st[t.comp], S, t.swap)
  BY DEF CompMapsKnown
<1> QED
  BY <1>1, <1>2, KeepsNew DEF Somewhere

\* The task of a thread is known again, with the next map to drain.
Resumed(n, t, u, st, bs, S) ==
    /\ TaskKnown(n, u, st, bs, S) /\ u.kind \in {"feed", "drain"} /\ u.comp = t.comp
    /\ \A q : Somewhere(t.comp, q, t) => Somewhere(t.comp, q, u)

\* Cycle, and Visited, on the task of a thread.
Cycled(t) == IF t.input = <<>> THEN [t EXCEPT !.input = t.swap, !.swap = <<>>] ELSE t

LEMMA CycledKnown ==
    ASSUME NEW n, NEW t, DOMAIN t = TaskFields, t.kind = "drain", NoneEnded(t.input),
           NEW st, NEW bs, NEW S, CompMapsKnown(n, t, st, S),
           NEW u, u = Cycled(t)
    PROVE  Resumed(n, t, u, st, bs, S)
<1>1. CASE t.input = <<>>
  <2>1. /\ DOMAIN u = TaskFields
        /\ u.kind = t.kind /\ u.comp = t.comp /\ u.cm = t.cm
        /\ u.input = t.swap /\ u.swap = <<>> /\ u.output = t.output
    BY <1>1 DEF Cycled, TaskFields
  <2>2. CompMapsKnown(n, u, st, S) /\ NoneEnded(u.input)
    BY <2>1, EmptyMaps DEF CompMapsKnown
  <2>3. TaskKnown(n, u, st, bs, S)
    BY <2>1, <2>2 DEF TaskKnown, TaskFields, Kinds
  <2>4. ASSUME NEW q, Somewhere(t.comp, q, t) PROVE Somewhere(t.comp, q, u)
    BY <1>1, <2>1, <2>4, KeepsEmpty DEF Somewhere
  <2> QED
    BY <2>1, <2>3, <2>4 DEF Resumed
<1>2. CASE t.input # <<>>
  <2>1. u = t
    BY <1>2 DEF Cycled
  <2>2. TaskKnown(n, t, st, bs, S)
    BY <1>2 DEF TaskKnown, TaskFields, Kinds
  <2> QED
    BY <2>1, <2>2 DEF Resumed
<1> QED
  BY <1>1, <1>2

LEMMA VisitedKnown ==
    ASSUME NEW n, NEW t, DOMAIN t = TaskFields, t.kind = "feed",
           NEW st, NEW bs, NEW S, CompMapsKnown(n, t, st, S),
           t.cm \in S, GetterOf[t.cm[1]] = t.comp,
           NEW u, u = Visited(t)
    PROVE  Resumed(n, t, u, st, bs, S)
<1>1. CASE t.input = <<>>
  <2>1. /\ DOMAIN u = TaskFields
        /\ u.kind = "drain" /\ u.comp = t.comp /\ u.cm = t.cm
        /\ u.input = t.swap /\ u.swap = <<>> /\ u.output = t.output
    BY <1>1 DEF Visited, TaskFields
  <2>2. CompMapsKnown(n, u, st, S) /\ NoneEnded(u.input)
    BY <2>1, EmptyMaps DEF CompMapsKnown
  <2>3. TaskKnown(n, u, st, bs, S)
    BY <2>1, <2>2 DEF TaskKnown, TaskFields, Kinds
  <2>4. ASSUME NEW q, Somewhere(t.comp, q, t) PROVE Somewhere(t.comp, q, u)
    BY <1>1, <2>1, <2>4, KeepsEmpty DEF Somewhere
  <2> QED
    BY <2>1, <2>3, <2>4 DEF Resumed
<1>2. CASE t.input # <<>>
  <2>1. u = t
    BY <1>2 DEF Visited
  <2>2. TaskKnown(n, t, st, bs, S)
    BY <1>2 DEF TaskKnown, TaskFields, Kinds
  <2> QED
    BY <2>1, <2>2 DEF Resumed
<1> QED
  BY <1>1, <1>2

-----------------------------------------------------------------------------
(* Frames *)

LEMMA StartTyped ==
    ASSUME GivenTyped
    PROVE  DOMAIN batches = Natives /\ \A c \in Comps : start[c] \in States[c]
BY BatchesAssumption DEF GivenTyped

\* Only thread n changes its task.
LEMMA TasksStep ==
    ASSUME IInv, NEW n \in Natives, NEW t, task' = [task EXCEPT ![n] = t],
           UNCHANGED given, sent \subseteq sent', TaskKnown(n, t, start, batches, sent')
    PROVE  \A m \in Natives : TaskKnown(m, task'[m], start', batches', sent')
<1> SUFFICES ASSUME NEW m \in Natives PROVE TaskKnown(m, task'[m], start', batches', sent')
  OBVIOUS
<1>1. DOMAIN task = Natives /\ TaskKnown(m, task[m], start, batches, sent)
  BY DEF IInv, Indexed, BranchesOfAllKnown
<1>2. start' = start /\ batches' = batches
  BY DEF given
<1>3. CASE m = n
  BY <1>1, <1>2, <1>3
<1>4. CASE m # n
  <2>1. task'[m] = task[m]
    BY <1>1, <1>4
  <2> QED
    BY <1>1, <1>2, <2>1, TaskMonotone
<1> QED
  BY <1>3, <1>4

\* Nothing is put.
LEMMA QuietStep ==
    ASSUME IInv, UNCHANGED <<given, sent>>
    PROVE  GivenTyped' /\ Messages(sent)' /\ SentExplained' /\ PayloadsUnique(sent)'
<1>1. start' = start /\ batches' = batches /\ sent' = sent
  BY DEF given
<1>2. GivenTyped'
  BY <1>1 DEF IInv, GivenTyped
<1>3. Messages(sent)' /\ PayloadsUnique(sent)'
  BY <1>1 DEF IInv
<1>4. SentExplained'
  BY <1>1 DEF IInv, SentExplained, BatchPuts, BatchPredicate, Consistents, Contradictory
<1> QED
  BY <1>2, <1>3, <1>4

LEMMA NativesStep ==
    ASSUME IInv, UNCHANGED <<given, nbranches>>, sent \subseteq sent'
    PROVE  \A n \in Natives : NativeBranchesKnown(n, batches[n], sent, nbranches[n])'
<1> SUFFICES ASSUME NEW n \in Natives
             PROVE  NativeBranchesKnown(n, batches'[n], sent', nbranches'[n])
  OBVIOUS
<1>1. NativeBranchesKnown(n, batches[n], sent, nbranches[n])
  BY DEF IInv, BranchesOfAllKnown
<1>2. batches' = batches /\ nbranches' = nbranches
  BY DEF given
<1> QED
  BY <1>1, <1>2, NativeMonotone

LEMMA CompsStep ==
    ASSUME IInv, UNCHANGED <<given, cbranches>>, sent \subseteq sent'
    PROVE  \A c \in Comps : BranchesKnown(c, start[c], sent, cbranches[c])'
<1> SUFFICES ASSUME NEW c \in Comps
             PROVE  BranchesKnown(c, start'[c], sent', cbranches'[c])
  OBVIOUS
<1>1. BranchesKnown(c, start[c], sent, cbranches[c])
  BY DEF IInv, BranchesOfAllKnown
<1>2. start' = start /\ cbranches' = cbranches
  BY DEF given
<1> QED
  BY <1>1, <1>2, BranchesMonotone

\* Thread n does not turn to a component that is yet to be run.
LEMMA UnrunStep ==
    ASSUME IInv, NEW n \in Natives, NEW t, task' = [task EXCEPT ![n] = t],
           UNCHANGED <<given, cbranches>>, \A m \in Natives : unrun'[m] \subseteq unrun[m],
           \A c \in unrun'[n] : ~WorksOn(t, c)
    PROVE  UnrunFresh'
<1> SUFFICES ASSUME NEW m \in Natives, NEW c \in unrun'[m]
             PROVE  /\ c \in Comps /\ Home[c] = m
                    /\ cbranches'[c] = Initial(start'[c]) /\ ~WorksOn(task'[m], c)
  BY DEF UnrunFresh, Initial, InitialBranch, WorksOn, NoAssignments
<1>1. /\ c \in Comps /\ Home[c] = m /\ cbranches[c] = Initial(start[c]) /\ ~WorksOn(task[m], c)
      /\ DOMAIN task = Natives
  BY DEF IInv, UnrunFresh, Indexed
<1>2. start' = start /\ cbranches' = cbranches
  BY DEF given
<1>3. ~WorksOn(task'[m], c)
  BY <1>1
<1> QED
  BY <1>1, <1>2, <1>3

\* Only solutions of thread n's owners and their branches change.
LEMMA KeptStep ==
    ASSUME IInv, NEW n \in Natives, NEW t, task' = [task EXCEPT ![n] = t],
           \A o \in Owners : HomeOf(o) # n => solutions'[o] = solutions[o] /\ BranchesOf(o)' = BranchesOf(o),
           \A o \in Owners : HomeOf(o) = n => \A q \in solutions'[o] : Kept(o, q, t, BranchesOf(o)')
    PROVE  SolutionsKept'
<1> SUFFICES ASSUME NEW o \in Owners, NEW q \in solutions'[o]
             PROVE  Kept(o, q, task'[HomeOf(o)], BranchesOf(o)')
  BY DEF SolutionsKept, HomeOf
<1>1. HomeOf(o) \in Natives /\ DOMAIN task = Natives
  BY HomeAssumption DEF HomeOf, Owners, IInv, Indexed
<1>2. CASE HomeOf(o) = n
  BY <1>1, <1>2
<1>3. CASE HomeOf(o) # n
  <2>1. task'[HomeOf(o)] = task[HomeOf(o)]
    BY <1>1, <1>3
  <2>2. Kept(o, q, task[HomeOf(o)], BranchesOf(o))
    BY <1>3 DEF IInv, SolutionsKept
  <2> QED
    BY <1>3, <2>1, <2>2
<1> QED
  BY <1>2, <1>3

-----------------------------------------------------------------------------
(* Steps that run or feed the branches of a component *)

\* What such a step of thread n, on behalf of c, must establish.
LEMMA CompStep ==
    ASSUME IInv, NEW n \in Natives, NEW t, task' = [task EXCEPT ![n] = t],
           UNCHANGED <<given, branchVars, net, failed>>, sent \subseteq sent',
           Messages(sent'), PayloadsUnique(sent'), SentExplained', StreamsSent', ~panicked',
           DOMAIN payload_inbox' = Natives, DOMAIN unrun' = Natives, DOMAIN solutions' = Owners,
           \A m \in Natives : unrun'[m] \subseteq unrun[m],
           NEW c \in Comps, Home[c] = n, c \notin unrun'[n],
           t.kind \in {"feed", "drain"}, t.comp = c, TaskKnown(n, t, start, batches, sent'),
           \A o \in Owners : o # c => solutions'[o] = solutions[o] /\ ~WorksOn(task[n], o),
           \A q \in solutions'[c] : Ended(c, start[c], sent', q) /\ Somewhere(c, q, t)
    PROVE  IInv'
<1>1. /\ start' = start /\ batches' = batches
      /\ nbranches' = nbranches /\ cbranches' = cbranches
  BY DEF given, branchVars
<1>2. GivenTyped'
  BY <1>1 DEF IInv, GivenTyped
<1>3. Indexed'
  BY <1>1 DEF IInv, Indexed
<1>4. \A m \in Natives : TaskKnown(m, task'[m], start', batches', sent')
  BY TasksStep
<1>5. BranchesOfAllKnown'
  BY <1>1, <1>4, NativesStep, CompsStep DEF BranchesOfAllKnown
<1>6. /\ WorksOn(t, c) /\ c \notin Natives
      /\ \A o \in Owners : o # c => ~WorksOn(t, o)
  BY HomeAssumption DEF WorksOn
<1>7. UnrunFresh'
  <2>1. \A d \in unrun'[n] : ~WorksOn(t, d)
    <3>1. \A d \in unrun'[n] : d \in Comps /\ d # c
      BY DEF IInv, UnrunFresh
    <3> QED
      BY <1>6, <3>1 DEF Owners
  <2> QED
    BY <1>1, <2>1, UnrunStep
<1>8. SolutionsExplained'
  <2> SUFFICES ASSUME NEW d \in Comps, NEW q \in solutions'[d] PROVE Ended(d, start'[d], sent', q)
    BY DEF SolutionsExplained
  <2>1. CASE d # c
    <3>1. solutions'[d] = solutions[d]
      BY <2>1 DEF Owners
    <3>2. Ended(d, start[d], sent, q)
      BY <3>1 DEF IInv, SolutionsExplained
    <3> QED
      BY <1>1, <3>2, EndedMonotone
  <2>2. CASE d = c
    BY <1>1, <2>2
  <2> QED
    BY <2>1, <2>2
<1>9. SolutionsKept'
  <2>1. \A o \in Owners : BranchesOf(o)' = BranchesOf(o)
    BY <1>1 DEF BranchesOf
  <2>2. \A o \in Owners : HomeOf(o) # n => o # c
    BY <1>6 DEF HomeOf
  <2>3. ASSUME NEW o \in Owners, HomeOf(o) = n, NEW q \in solutions'[o]
        PROVE  Kept(o, q, t, BranchesOf(o)')
    <3>1. CASE o = c
      BY <1>6, <3>1 DEF Kept
    <3>2. CASE o # c
      <4>1. solutions'[o] = solutions[o] /\ ~WorksOn(task[n], o) /\ ~WorksOn(t, o)
        BY <1>6, <3>2
      <4>2. Kept(o, q, task[n], BranchesOf(o))
        BY <2>3, <4>1 DEF IInv, SolutionsKept
      <4> QED
        BY <2>1, <4>1, <4>2 DEF Kept
    <3> QED
      BY <3>1, <3>2
  <2> QED
    BY <2>1, <2>2, <2>3, KeptStep
<1> QED
  BY <1>2, <1>3, <1>5, <1>7, <1>8, <1>9 DEF IInv

\* Before a solution of a component is on its way through the maps, a branch of the
\* component keeps it.
LEMMA KeptBefore ==
    ASSUME IInv, NEW o \in Owners, NEW q \in solutions[o], ~WorksOn(task[HomeOf(o)], o)
    PROVE  Keeps(o, q, BranchesOf(o))
BY DEF IInv, SolutionsKept, Kept

LEMMA RunFirstInv == ASSUME IInv, NEW n \in Natives, RunFirst(n) PROVE IInv'
<1>1. PICK c \in unrun[n] :
        /\ unrun' = [unrun EXCEPT ![n] = @ \ {c}]
        /\ task' = [task EXCEPT ![n] = Task("drain", c, <<>>, cbranches[c])]
  BY DEF RunFirst
<1>2. /\ task[n].kind = "loop"
      /\ UNCHANGED <<given, branchVars, payload_inbox, net, solutions, failed, panicked, sent>>
  BY DEF RunFirst
<1> DEFINE t == Task("drain", c, <<>>, cbranches[c])
<1>3. /\ c \in Comps /\ Home[c] = n /\ cbranches[c] = Initial(start[c])
      /\ BranchesKnown(c, start[c], sent, cbranches[c])
  BY DEF IInv, UnrunFresh, BranchesOfAllKnown
<1>4. /\ DOMAIN t = TaskFields /\ t.kind = "drain" /\ t.comp = c
      /\ t.input = cbranches[c] /\ t.swap = <<>> /\ t.output = <<>>
  BY DEF Task, TaskFields
<1>5. NoneEnded(cbranches[c])
  <2>1. \A p \in DOMAIN Initial(start[c]) : ~Initial(start[c])[p].ended
    BY DEF Initial, InitialBranch
  <2> QED
    BY <1>3, <2>1 DEF NoneEnded
<1>6. TaskKnown(n, t, start, batches, sent)
  <2>1. CompMapsKnown(n, t, start, sent)
    BY <1>3, <1>4, EmptyMaps DEF CompMapsKnown
  <2> HIDE DEF t
  <2> QED
    BY <1>4, <1>5, <2>1 DEF TaskKnown, TaskFields, Kinds
<1> HIDE DEF t
<1>7. \A o \in Owners : ~WorksOn(task[n], o)
  BY <1>2 DEF WorksOn
<1>8. ASSUME NEW q \in solutions'[c] PROVE Ended(c, start[c], sent', q) /\ Somewhere(c, q, t)
  <2>1. q \in solutions[c] /\ sent' = sent /\ c \in Owners /\ HomeOf(c) = n /\ c \notin Natives
    BY <1>2, <1>3, HomeAssumption DEF Owners, HomeOf
  <2>2. Ended(c, start[c], sent, q)
    BY <1>3, <2>1 DEF IInv, SolutionsExplained
  <2>3. Keeps(c, q, BranchesOf(c))
    BY <1>7, <2>1, KeptBefore
  <2>4. Keeps(c, q, t.input)
    BY <1>4, <2>1, <2>3 DEF BranchesOf
  <2> QED
    BY <2>1, <2>2, <2>4 DEF Somewhere
<1>9. Messages(sent') /\ PayloadsUnique(sent') /\ SentExplained'
  <2>1. UNCHANGED <<given, sent>>
    BY <1>2
  <2> QED
    BY <2>1, QuietStep
<1>10. /\ sent' = sent /\ payload_inbox' = payload_inbox /\ net' = net
       /\ solutions' = solutions /\ ~panicked' /\ DOMAIN unrun = Natives
       /\ DOMAIN payload_inbox' = Natives /\ DOMAIN solutions' = Owners
  BY <1>2 DEF IInv, Indexed
<1>11. StreamsSent'
  BY <1>10 DEF IInv, StreamsSent, On
<1>12. /\ DOMAIN unrun' = Natives /\ c \notin unrun'[n]
       /\ \A m \in Natives : unrun'[m] \subseteq unrun[m]
  BY <1>1, <1>10
<1> QED
  BY <1>1, <1>2, <1>3, <1>4, <1>6, <1>7, <1>8, <1>9, <1>10, <1>11, <1>12, CompStep DEF t

\* What a branch may receive does not contradict what it has received.
LEMMA ReceivesConsistent ==
    ASSUME NEW c \in Comps, NEW s, NEW S, Messages(S), PayloadsUnique(S), NEW cm \in S,
           NEW p, NEW b, BranchKnown(c, s, S, p, b), Receives(p, b, cm[2])
    PROVE  /\ Consistent(p, cm[2].pred) /\ ~b.ended /\ ~Conflicting(b.inbox, cm)
           /\ p \in Speculation /\ p \in Predicate /\ cm[2].pred \in Speculation /\ cm[2].pred \in Predicate
<1>1. p \in Speculation /\ p \in Predicate /\ Covered(b.inbox, S, p)
  BY SpeculationTyped DEF BranchKnown
<1>2. cm[2].pred \in Speculation /\ cm[2].pred \in Predicate
  BY MessageTyped, SpeculationTyped
<1>3. ~b.ended /\ AssignmentUnion(p, cm[2].pred) # "Nonexistant"
  BY DEF Receives
<1>4. Consistent(p, cm[2].pred)
  <2> DEFINE w == cm[2].pred
  <2>1. w \in Predicate /\ AssignmentUnion(p, w) # "Nonexistant"
    BY <1>2, <1>3
  <2> HIDE DEF w
  <2>2. Consistent(p, w)
    BY <1>1, <2>1, UnionVerdict
  <2> QED
    BY <2>2 DEF w
<1>5. cm[1] \in DOMAIN b.inbox => b.inbox[cm[1]] = cm[2].payload
  BY <1>1, <1>4, NoConflict
<1> QED
  BY <1>1, <1>2, <1>3, <1>4, <1>5 DEF Conflicting

\* A branch is visited: it stays, or it gets the message, or both, as a fork.
LEMMA FeedBranchKnown ==
    ASSUME NEW n, NEW st, NEW bs, NEW S, Messages(S), PayloadsUnique(S),
           NEW t0, TaskKnown(n, t0, st, bs, S), t0.kind = "feed",
           NEW p \in DOMAIN t0.input, NEW b, b = t0.input[p],
           NEW u, u = FeedBranch(Taken(t0, p), p, b)
    PROVE  Onward(n, t0, u, st, S)
<1> DEFINE t == Taken(t0, p)
           cm == t0.cm
           c == t0.comp
<1>1. /\ DOMAIN t0 = TaskFields /\ CompMapsKnown(n, t0, st, S) /\ c \in Comps
      /\ cm \in S /\ GetterOf[cm[1]] = c
      /\ BranchKnown(c, st[c], S, p, b)
  BY DEF TaskKnown, TaskFields, CompMapsKnown, BranchesKnown
<1>2. Departed(n, t0, p, t, st, S)
  BY <1>1, BranchTaken
<1> HIDE DEF t
<1>3. /\ DOMAIN t = TaskFields /\ CompMapsKnown(n, t, st, S) /\ t.comp = c /\ t.cm = cm
      /\ BranchKnown(t.comp, st[t.comp], S, p, b)
  BY <1>1, <1>2 DEF Departed
\* it is enough that the branches go on, and that the one that was taken is kept
<1>4. ASSUME Onward(n, t, u, st, S), Gotten(t.comp, p) \subseteq DOMAIN b.inbox => Somewhere(t.comp, p, u)
      PROVE  Onward(n, t0, u, st, S)
  BY <1>2, <1>4 DEF Onward, Departed
<1>5. u = FeedBranch(t, p, b)
  BY DEF t
<1> HIDE DEF cm, c
<1>a. CASE ~Receives(p, b, cm[2])
  <2>1. u = IntoOutput(t, p, b)
    BY <1>3, <1>5, <1>a DEF FeedBranch, IntoOutput
  <2>2. Onward(n, t, u, st, S)
    BY <1>3, <2>1, OutputGrows
  <2>3. Gotten(t.comp, p) \subseteq DOMAIN b.inbox => Somewhere(t.comp, p, u)
    BY <1>3, <2>1, OutputKeeps
  <2> QED
    BY <1>4, <2>2, <2>3
<1>b. CASE Receives(p, b, cm[2]) /\ AssignmentUnion(p, cm[2].pred) \in {"Equivalent", "FormerNotLatter"}
  <2> DEFINE f == Fed(b, cm)
             m == cm[2].pred
  <2>0. /\ Consistent(p, m) /\ ~b.ended
        /\ p \in Speculation /\ p \in Predicate /\ m \in Speculation /\ m \in Predicate
    BY <1>1, <1>b, ReceivesConsistent
  <2>1. u = IntoSwap(t, p, f)
    BY <1>3, <1>5, <1>b DEF FeedBranch, IntoSwap
  <2>2. AssignsSubset(m, p) /\ AssignsSubset(p, p)
    <3>1. AssignmentUnion(p, m) \in {"Equivalent", "FormerNotLatter"}
      BY <1>b
    <3> HIDE DEF m
    <3> QED
      BY <2>0, <3>1, UnionVerdict, SubsetReflexive
  <2>3. /\ BranchKnown(c, st[c], S, p, f) /\ ~f.ended
        /\ DOMAIN b.inbox \subseteq DOMAIN f.inbox
    BY <1>1, <2>0, <2>2, FedKnown
  <2> HIDE DEF f
  <2>4. Onward(n, t, u, st, S)
    BY <1>3, <2>1, <2>3, SwapGrows
  <2>5. Gotten(t.comp, p) \subseteq DOMAIN b.inbox => Somewhere(t.comp, p, u)
    BY <1>3, <2>1, <2>3, SwapKeeps
  <2> QED
    BY <1>4, <2>4, <2>5
<1>c. CASE Receives(p, b, cm[2]) /\ AssignmentUnion(p, cm[2].pred) \notin {"Equivalent", "FormerNotLatter"}
  <2> DEFINE f == Fed(b, cm)
             w == UnionWith(p, cm[2].pred)
             v == IntoOutput(t, p, b)
  <2>0. /\ Consistent(p, cm[2].pred) /\ ~b.ended
        /\ p \in Speculation /\ cm[2].pred \in Speculation
    BY <1>1, <1>c, ReceivesConsistent
  <2>1. u = IntoSwap(v, w, f)
    <3>1. u = [t EXCEPT !.output = Merged(@, p, b), !.swap = Merged(@, w, f)]
      BY <1>3, <1>5, <1>c DEF FeedBranch
    <3>2. t.swap = v.swap
      BY <1>3 DEF TaskFields, IntoOutput
    <3> QED
      BY <3>1, <3>2 DEF IntoSwap, IntoOutput
  <2>2. w \in Speculation /\ AssignsSubset(p, w) /\ AssignsSubset(cm[2].pred, w)
    BY <2>0, UnionCovers
  <2> HIDE DEF w
  <2>4. BranchKnown(c, st[c], S, w, f) /\ ~f.ended
    BY <1>1, <2>0, <2>2, FedKnown
  <2> HIDE DEF f
  <2>5. Onward(n, t, v, st, S)
    BY <1>3, OutputGrows
  <2>6. Gotten(t.comp, p) \subseteq DOMAIN b.inbox => Somewhere(t.comp, p, v)
    BY <1>3, OutputKeeps
  <2> HIDE DEF v
  <2>7. /\ DOMAIN v = TaskFields /\ CompMapsKnown(n, v, st, S) /\ v.comp = t.comp
        /\ BranchKnown(v.comp, st[v.comp], S, w, f)
    BY <1>3, <2>4, <2>5 DEF Onward
  <2>8. Onward(n, v, u, st, S)
    BY <2>1, <2>4, <2>7, SwapGrows
  <2>9. Somewhere(t.comp, p, v) => Somewhere(t.comp, p, u)
    BY <2>7, <2>8 DEF Onward
  <2>10. Onward(n, t, u, st, S)
    BY <2>5, <2>8, OnwardTransitive
  <2> QED
    BY <1>4, <2>6, <2>9, <2>10
<1> QED
  BY <1>a, <1>b, <1>c

\* What all steps that run or feed branches of a component leave to be shown: a
\* solution that has been submitted is still on its way.
LEMMA OnItsWay ==
    ASSUME IInv, NEW n \in Natives, NEW c \in Comps, Home[c] = n, WorksOn(task[n], c),
           NEW q \in solutions[c]
    PROVE  Ended(c, start[c], sent, q) /\ Somewhere(c, q, task[n])
<1>1. c \in Owners /\ HomeOf(c) = n /\ c \notin Natives
  BY HomeAssumption DEF Owners, HomeOf
<1>2. Ended(c, start[c], sent, q)
  BY DEF IInv, SolutionsExplained
<1>3. Kept(c, q, task[n], BranchesOf(c))
  BY <1>1 DEF IInv, SolutionsKept
<1> QED
  BY <1>2, <1>3 DEF Kept

LEMMA FeedComponentInv == ASSUME IInv, NEW n \in Natives, FeedComponent(n) PROVE IInv'
<1>1. PICK p \in DOMAIN task[n].input :
        LET b == task[n].input[p]
            t == [task[n] EXCEPT !.input = Without(@, p)]
        IN  /\ task' = [task EXCEPT ![n] = Visited(FeedBranch(t, p, b))]
            /\ panicked' = (panicked \/ (Receives(p, b, t.cm[2]) /\ Conflicting(b.inbox, t.cm)))
  BY DEF FeedComponent
<1>2. /\ task[n].kind = "feed"
      /\ UNCHANGED <<given, branchVars, payload_inbox, net, solutions, unrun, failed, sent>>
  BY DEF FeedComponent
<1> DEFINE t0 == task[n]
           c == t0.comp
           b == t0.input[p]
           t == [t0 EXCEPT !.input = Without(@, p)]
           u == FeedBranch(t, p, b)
           v == Visited(u)
<1>3. /\ TaskKnown(n, t0, start, batches, sent) /\ Messages(sent) /\ PayloadsUnique(sent) /\ ~panicked
      /\ t0.kind = "feed" /\ p \in DOMAIN t0.input
  BY <1>2 DEF IInv, BranchesOfAllKnown
<1>4. /\ DOMAIN t0 = TaskFields /\ c \in Comps /\ Home[c] = n /\ t0.cm \in sent /\ GetterOf[t0.cm[1]] = c
      /\ BranchesKnown(c, start[c], sent, t0.input)
  BY <1>3 DEF TaskKnown, TaskFields, CompMapsKnown
<1>5. t.cm = t0.cm
  BY <1>4 DEF TaskFields
<1>6. task' = [task EXCEPT ![n] = v] /\ ~panicked'
  <2>1. Receives(p, b, t0.cm[2]) => ~Conflicting(b.inbox, t0.cm)
    <3>1. BranchKnown(c, start[c], sent, p, b)
      BY <1>3, <1>4 DEF BranchesKnown
    <3> HIDE DEF c, b, t0
    <3> QED
      BY <1>3, <1>4, <3>1, ReceivesConsistent
  <2> QED
    BY <1>1, <1>3, <1>5, <2>1
<1>7. Onward(n, t0, u, start, sent)
  <2>1. b = t0.input[p] /\ u = FeedBranch(Taken(t0, p), p, b)
    BY DEF Taken
  <2> HIDE DEF t0, b, t, u
  <2> QED
    BY <1>3, <2>1, FeedBranchKnown
<1>8. Resumed(n, u, v, start, batches, sent)
  <2>1. v = Visited(u)
    OBVIOUS
  <2> HIDE DEF u, v, t0, c
  <2>2. /\ DOMAIN u = TaskFields /\ u.kind = "feed" /\ CompMapsKnown(n, u, start, sent)
        /\ u.cm \in sent /\ GetterOf[u.cm[1]] = u.comp
    BY <1>3, <1>4, <1>7 DEF Onward, c
  <2> QED
    BY <2>1, <2>2, VisitedKnown
<1> HIDE DEF u, v
<1>9. /\ TaskKnown(n, v, start, batches, sent) /\ v.kind \in {"feed", "drain"} /\ v.comp = c
      /\ \A q : Somewhere(c, q, t0) => Somewhere(c, q, v)
  BY <1>7, <1>8 DEF Onward, Resumed
<1>10. c \notin Natives /\ WorksOn(task[n], c) /\ \A o \in Owners : o # c => ~WorksOn(task[n], o)
  BY <1>2, <1>4, HomeAssumption DEF WorksOn
<1>11. ASSUME NEW q \in solutions'[c] PROVE Ended(c, start[c], sent', q) /\ Somewhere(c, q, v)
  <2>1. q \in solutions[c] /\ sent' = sent
    BY <1>2
  <2> HIDE DEF c
  <2>2. Ended(c, start[c], sent, q) /\ Somewhere(c, q, task[n])
    BY <1>4, <1>10, <2>1, OnItsWay
  <2> QED
    BY <1>9, <2>1, <2>2
<1>12. Messages(sent') /\ PayloadsUnique(sent') /\ SentExplained'
  <2>1. UNCHANGED <<given, sent>>
    BY <1>2
  <2> QED
    BY <2>1, QuietStep
<1>13. /\ sent' = sent /\ payload_inbox' = payload_inbox /\ net' = net
       /\ solutions' = solutions /\ unrun' = unrun
       /\ DOMAIN unrun' = Natives /\ DOMAIN payload_inbox' = Natives /\ DOMAIN solutions' = Owners
  BY <1>2 DEF IInv, Indexed
<1>14. StreamsSent'
  BY <1>13 DEF IInv, StreamsSent, On
<1>15. c \notin unrun'[n]
  BY <1>10, <1>13 DEF IInv, UnrunFresh
<1>16. /\ UNCHANGED <<given, branchVars, net, failed>> /\ sent \subseteq sent'
       /\ TaskKnown(n, v, start, batches, sent')
       /\ \A m \in Natives : unrun'[m] \subseteq unrun[m]
       /\ \A o \in Owners : o # c => solutions'[o] = solutions[o] /\ ~WorksOn(task[n], o)
  BY <1>2, <1>9, <1>10, <1>13
<1> HIDE DEF t0, c, t, b
<1> QED
  BY <1>4, <1>6, <1>9, <1>11, <1>12, <1>13, <1>14, <1>15, <1>16, CompStep

-----------------------------------------------------------------------------
(* Running a branch *)

\* Thread n has taken branch b of component c, under p; t is the rest of its task.
Running(n, p, c, b, t) ==
    /\ n \in Natives /\ c \in Comps /\ Home[c] = n /\ start[c] \in States[c]
    /\ task[n].kind = "drain" /\ task[n].comp = c
    /\ t.kind = "drain" /\ t.comp = c /\ DOMAIN t = TaskFields
    /\ CompMapsKnown(n, t, start, sent) /\ NoneEnded(t.input)
    /\ BranchKnown(c, start[c], sent, p, b) /\ ~b.ended
    /\ Messages(sent) /\ PayloadsUnique(sent)
    /\ \A cm \in sent : PutterOf[cm[1]] = c => Produced(c, start[c], sent, cm)
    /\ \A q \in solutions[c] :
         /\ Ended(c, start[c], sent, q)
         /\ Somewhere(c, q, t) \/ (q = p /\ Gotten(c, p) \subseteq DOMAIN b.inbox)

LEMMA TakenRunning ==
    ASSUME IInv, NEW n \in Natives, task[n].kind = "drain", NEW p \in DOMAIN task[n].input
    PROVE  Running(n, p, task[n].comp, task[n].input[p], Taken(task[n], p))
<1> DEFINE t0 == task[n]
           c == t0.comp
           b == t0.input[p]
           t == Taken(t0, p)
<1>1. TaskKnown(n, t0, start, batches, sent) /\ t0.kind = "drain" /\ p \in DOMAIN t0.input
  BY DEF IInv, BranchesOfAllKnown
<1>2. /\ DOMAIN t0 = TaskFields /\ CompMapsKnown(n, t0, start, sent) /\ NoneEnded(t0.input)
      /\ c \in Comps /\ Home[c] = n
      /\ BranchKnown(c, start[c], sent, p, b) /\ ~b.ended
  BY <1>1 DEF TaskKnown, TaskFields, CompMapsKnown, BranchesKnown, NoneEnded
<1>3. Departed(n, t0, p, t, start, sent)
  BY <1>2, BranchTaken
<1>4. WorksOn(task[n], c)
  BY <1>1, <1>2, HomeAssumption DEF WorksOn
<1>5. start[c] \in States[c]
  BY <1>2, StartTyped DEF IInv
<1>6. /\ Messages(sent) /\ PayloadsUnique(sent)
      /\ \A cm \in sent : PutterOf[cm[1]] = c => Produced(c, start[c], sent, cm)
  BY <1>2 DEF IInv, SentExplained
<1>7. ASSUME NEW q \in solutions[c]
      PROVE  /\ Ended(c, start[c], sent, q)
             /\ Somewhere(c, q, t) \/ (q = p /\ Gotten(c, p) \subseteq DOMAIN b.inbox)
  <2>1. Ended(c, start[c], sent, q) /\ Somewhere(c, q, task[n])
    <3> HIDE DEF c
    <3> QED
      BY <1>2, <1>4, OnItsWay
  <2> QED
    BY <1>3, <2>1 DEF Departed
<1> HIDE DEF t
<1> QED
  BY <1>1, <1>2, <1>3, <1>5, <1>6, <1>7 DEF Running, Departed, t

\* What a run of a branch has to leave behind.
LEMMA RunStep ==
    ASSUME IInv, NEW n, NEW p, NEW c, NEW b, NEW t, Running(n, p, c, b, t),
           UNCHANGED <<given, branchVars, net, unrun, failed>>, sent \subseteq sent',
           NEW w, Cycle(n, w), Onward(n, t, w, start, sent'),
           Messages(sent'), PayloadsUnique(sent'), SentExplained', StreamsSent', ~panicked',
           DOMAIN payload_inbox' = Natives, DOMAIN solutions' = Owners,
           \A o \in Owners : o # c => solutions'[o] = solutions[o],
           \A q \in solutions'[c] : Ended(c, start[c], sent', q) /\ Somewhere(c, q, w)
    PROVE  IInv'
<1>1. /\ n \in Natives /\ c \in Comps /\ Home[c] = n
      /\ task[n].kind = "drain" /\ task[n].comp = c
      /\ t.kind = "drain" /\ t.comp = c /\ NoneEnded(t.input)
  BY DEF Running
<1> DEFINE v == Cycled(w)
<1>2. task' = [task EXCEPT ![n] = v]
  BY DEF Cycle, Cycled
<1>3. DOMAIN w = TaskFields /\ w.kind = "drain" /\ w.comp = c /\ NoneEnded(w.input) /\ CompMapsKnown(n, w, start, sent')
  BY <1>1 DEF Onward
<1>4. Resumed(n, w, v, start, batches, sent')
  BY <1>3, CycledKnown
<1> HIDE DEF v
<1>5. /\ TaskKnown(n, v, start, batches, sent') /\ v.kind \in {"feed", "drain"} /\ v.comp = c
      /\ \A q : Somewhere(c, q, w) => Somewhere(c, q, v)
  BY <1>3, <1>4 DEF Resumed
<1>6. c \notin Natives /\ WorksOn(task[n], c) /\ \A o \in Owners : o # c => ~WorksOn(task[n], o)
  BY <1>1, HomeAssumption DEF WorksOn
<1>7. /\ unrun' = unrun /\ DOMAIN unrun' = Natives /\ c \notin unrun'[n]
  BY <1>1, <1>6 DEF IInv, UnrunFresh, Indexed
<1>8. \A q \in solutions'[c] : Ended(c, start[c], sent', q) /\ Somewhere(c, q, v)
  BY <1>5
<1>9. /\ UNCHANGED <<given, branchVars, net, failed>>
      /\ \A m \in Natives : unrun'[m] \subseteq unrun[m]
      /\ \A o \in Owners : o # c => solutions'[o] = solutions[o] /\ ~WorksOn(task[n], o)
  BY <1>6, <1>7
<1> QED
  BY <1>1, <1>2, <1>5, <1>7, <1>8, <1>9, CompStep

\* The same for a run that puts nothing.
LEMMA QuietRun ==
    ASSUME IInv, NEW n, NEW p, NEW c, NEW b, NEW t, Running(n, p, c, b, t),
           UNCHANGED <<given, branchVars, net, unrun, failed>>,
           UNCHANGED <<payload_inbox, sent>>, ~panicked',
           NEW w, Cycle(n, w), Onward(n, t, w, start, sent),
           DOMAIN solutions' = Owners,
           \A o \in Owners : o # c => solutions'[o] = solutions[o],
           \A q \in solutions'[c] : Ended(c, start[c], sent, q) /\ Somewhere(c, q, w)
    PROVE  IInv'
<1>1. Messages(sent') /\ PayloadsUnique(sent') /\ SentExplained'
  <2>1. UNCHANGED <<given, sent>>
    OBVIOUS
  <2> QED
    BY <2>1, QuietStep
<1>2. sent' = sent /\ payload_inbox' = payload_inbox /\ net' = net /\ DOMAIN payload_inbox' = Natives
  BY DEF IInv, Indexed
<1>3. StreamsSent'
  BY <1>2 DEF IInv, StreamsSent, On
<1>4. /\ sent \subseteq sent' /\ Onward(n, t, w, start, sent')
      /\ \A q \in solutions'[c] : Ended(c, start[c], sent', q) /\ Somewhere(c, q, w)
  BY <1>2
<1> QED
  BY <1>1, <1>2, <1>3, <1>4, RunStep

\* The branch under a solution is on its way to it.
LEMMA RunRetains ==
    ASSUME NEW n, NEW p, NEW c, NEW b, NEW t, Running(n, p, c, b, t),
           NEW r, r = Run(c, b, p), p \in solutions[c]
    PROVE  /\ r.blocker # "Inconsistent" /\ r.blocker # "CouldntCheckFiring"
           /\ r.blocker = "PutMsg" => p[r.channel] = Firing
           /\ r.blocker = "SyncBlockEnd" => Honest(c, r.branch, p) /\ EndPredicate(c, p) = p
<1> DEFINE s == start[c]
           S == sent
<1>1. /\ c \in Comps /\ s \in States[c] /\ Messages(S) /\ PayloadsUnique(S)
      /\ \A cm \in S : PutterOf[cm[1]] = c => Produced(c, s, S, cm)
      /\ Ended(c, s, S, p) /\ BranchKnown(c, s, S, p, b) /\ ~b.ended
  BY DEF Running
<1> HIDE DEF s, S
<1> QED
  BY <1>1, Retains

LEMMA OnwardSame ==
    ASSUME NEW n, NEW t, DOMAIN t = TaskFields, NEW st, NEW S, CompMapsKnown(n, t, st, S)
    PROVE  Onward(n, t, t, st, S)
BY DEF Onward

\* A branch that is dropped was not needed.
LEMMA DroppedRun ==
    ASSUME IInv, NEW n, NEW p, NEW c, NEW b, NEW t, Running(n, p, c, b, t), p \notin solutions[c],
           UNCHANGED <<given, branchVars, net, unrun, failed>>,
           UNCHANGED <<payload_inbox, solutions, panicked, sent>>, Cycle(n, t)
    PROVE  IInv'
<1>1. Onward(n, t, t, start, sent)
  BY OnwardSame DEF Running
<1>2. \A q \in solutions[c] : Ended(c, start[c], sent, q) /\ Somewhere(c, q, t)
  BY DEF Running
<1>3. /\ ~panicked' /\ solutions' = solutions /\ DOMAIN solutions' = Owners
      /\ UNCHANGED <<payload_inbox, sent>>
  BY DEF IInv, Indexed
<1> QED
  BY <1>1, <1>2, <1>3, QuietRun

LEMMA HitInconsistentInv ==
    ASSUME IInv, NEW n, NEW p, NEW c, NEW b, NEW t, Running(n, p, c, b, t),
           NEW r, r = Run(c, b, p), HitInconsistent(n, t, p, r),
           UNCHANGED <<given, branchVars, net, unrun, failed>>
    PROVE  IInv'
<1>1. p \notin solutions[c]
  BY RunRetains DEF HitInconsistent
<1>2. Cycle(n, t) /\ UNCHANGED <<payload_inbox, solutions, panicked, sent>>
  BY DEF HitInconsistent
<1> QED
  BY <1>1, <1>2, DroppedRun

LEMMA HitReadInv ==
    ASSUME IInv, NEW n, NEW p, NEW c, NEW b, NEW t, Running(n, p, c, b, t),
           NEW r, r = Run(c, b, p), HitRead(n, t, p, r),
           UNCHANGED <<given, branchVars, net, unrun, failed>>
    PROVE  IInv'
<1> DEFINE w == IntoOutput(t, p, r.branch)
           s == start[c]
<1>1. /\ r.blocker = "CouldntReadMsg" /\ panicked' = (panicked \/ r.channel \in DOMAIN r.branch.inbox)
      /\ Cycle(n, w) /\ UNCHANGED <<payload_inbox, solutions, sent>>
  BY DEF HitRead, IntoOutput
<1>2. /\ c \in Comps /\ BranchKnown(c, s, sent, p, b) /\ ~b.ended
      /\ DOMAIN t = TaskFields /\ t.comp = c /\ CompMapsKnown(n, t, start, sent) /\ PayloadsUnique(sent)
  BY DEF Running
<1> HIDE DEF s
<1>3. BranchKnown(c, s, sent, p, r.branch)
  BY <1>1, <1>2, RunKeeps
<1>4. r.branch.inbox = b.inbox
  BY <1>2, RunNotes
<1>5. r.channel \notin DOMAIN r.branch.inbox
  BY <1>1, <1>2, BlockersHonest
<1>6. Onward(n, t, w, start, sent)
  BY <1>2, <1>3, OutputGrows DEF s
<1>7. Gotten(c, p) \subseteq DOMAIN b.inbox => Somewhere(c, p, w)
  BY <1>2, <1>4, OutputKeeps
<1> HIDE DEF w
<1>8. \A q \in solutions[c] : Ended(c, start[c], sent, q) /\ Somewhere(c, q, w)
  BY <1>2, <1>6, <1>7 DEF Running, Onward
<1>9. ~panicked' /\ solutions' = solutions /\ DOMAIN solutions' = Owners /\ UNCHANGED <<payload_inbox, sent>>
  BY <1>1, <1>5 DEF IInv, Indexed
<1> QED
  BY <1>1, <1>6, <1>8, <1>9, QuietRun

LEMMA ChannelsOfChannels == ASSUME NEW c PROVE ChannelsOf(c) \subseteq Channels
BY DEF ChannelsOf, Ports

LEMMA HitFiringInv ==
    ASSUME IInv, NEW n, NEW p, NEW c, NEW b, NEW t, Running(n, p, c, b, t),
           NEW r, r = Run(c, b, p), HitFiring(n, t, p, r),
           UNCHANGED <<given, branchVars, net, unrun, failed>>
    PROVE  IInv'
<1> DEFINE q0 == Inserted(p, r.channel, Silent)
           q1 == Inserted(p, r.channel, Firing)
           a == r.branch
           v == IntoSwap(t, q0, a)
           w == IntoSwap(v, q1, a)
           s == start[c]
<1>1. /\ c \in Comps /\ BranchKnown(c, s, sent, p, b) /\ ~b.ended
      /\ DOMAIN t = TaskFields /\ t.comp = c /\ CompMapsKnown(n, t, start, sent) /\ PayloadsUnique(sent)
  BY DEF Running
<1>2. /\ r.blocker = "CouldntCheckFiring" /\ panicked' = (panicked \/ p[r.channel] # Unassigned)
      /\ UNCHANGED <<payload_inbox, solutions, sent>>
      /\ Cycle(n, [t EXCEPT !.swap = Merged(Merged(@, q0, a), q1, a)])
  BY DEF HitFiring, Query
<1>3. Cycle(n, w)
  <2>1. v.swap = Merged(t.swap, q0, a)
    BY <1>1 DEF IntoSwap, TaskFields
  <2>2. [t EXCEPT !.swap = Merged(Merged(@, q0, a), q1, a)] = [v EXCEPT !.swap = Merged(@, q1, a)]
    <3> HIDE DEF q0, q1, a
    <3> QED
      BY <1>1, <2>1 DEF IntoSwap, TaskFields
  <2> QED
    BY <1>2, <2>2 DEF IntoSwap
<1> HIDE DEF s
<1>4. r.channel \in Channels /\ p[r.channel] = Unassigned
  BY <1>1, <1>2, FiringAsked, ChannelsOfChannels
<1>5. /\ q0 \in Speculation /\ AssignsSubset(p, q0)
      /\ q1 \in Speculation /\ AssignsSubset(p, q1)
  <2>1. p \in Speculation
    BY <1>1 DEF BranchKnown
  <2> QED
    BY <1>4, <2>1, InsertedCovers
<1>6. BranchKnown(c, s, sent, p, a)
  BY <1>1, <1>2, RunKeeps
<1>7. ~a.ended
  BY <1>1, RunNotes
<1> HIDE DEF q0, q1, a
<1>8. BranchKnown(c, s, sent, q0, a) /\ BranchKnown(c, s, sent, q1, a)
  BY <1>1, <1>5, <1>6, BranchMonotone
<1>9. Onward(n, t, v, start, sent)
  BY <1>1, <1>7, <1>8, SwapGrows DEF s
<1> HIDE DEF v
<1>10. DOMAIN v = TaskFields /\ CompMapsKnown(n, v, start, sent) /\ v.comp = c
  BY <1>1, <1>9 DEF Onward
<1>11. Onward(n, v, w, start, sent)
  BY <1>1, <1>7, <1>8, <1>10, SwapGrows DEF s
<1> HIDE DEF w
<1>12. Onward(n, t, w, start, sent)
  BY <1>9, <1>11, OnwardTransitive
<1>13. p \notin solutions[c]
  BY <1>2, RunRetains
<1>14. \A q \in solutions[c] : Ended(c, start[c], sent, q) /\ Somewhere(c, q, w)
  BY <1>1, <1>12, <1>13 DEF Running, Onward
<1>15. ~panicked' /\ solutions' = solutions /\ DOMAIN solutions' = Owners /\ UNCHANGED <<payload_inbox, sent>>
  BY <1>2, <1>4 DEF IInv, Indexed
<1> QED
  BY <1>3, <1>12, <1>14, <1>15, QuietRun

LEMMA HitEndInv ==
    ASSUME IInv, NEW n, NEW p, NEW c, NEW b, NEW t, Running(n, p, c, b, t),
           NEW r, r = Run(c, b, p), HitEnd(n, t, p, r),
           UNCHANGED <<given, branchVars, net, unrun, failed>>
    PROVE  IInv'
<1> DEFINE q == EndPredicate(c, p)
           f == [r.branch EXCEPT !.ended = TRUE]
           w == IntoOutput(t, q, f)
           s == start[c]
<1>1. /\ c \in Comps /\ BranchKnown(c, s, sent, p, b) /\ ~b.ended
      /\ DOMAIN t = TaskFields /\ t.comp = c /\ CompMapsKnown(n, t, start, sent) /\ PayloadsUnique(sent)
  BY DEF Running
<1>2. /\ r.blocker = "SyncBlockEnd" /\ UNCHANGED <<payload_inbox, panicked, sent>>
      /\ IF Honest(c, r.branch, q)
         THEN solutions' = [solutions EXCEPT ![c] = @ \cup {q}] /\ Cycle(n, w)
         ELSE Cycle(n, t) /\ UNCHANGED solutions
  BY <1>1 DEF HitEnd, Honest, IntoOutput
<1>3. p \in solutions[c] => Honest(c, r.branch, p) /\ q = p
  BY <1>2, RunRetains
<1>a. CASE ~Honest(c, r.branch, q)
  <2>1. p \notin solutions[c]
    BY <1>3, <1>a
  <2>2. Cycle(n, t) /\ UNCHANGED <<payload_inbox, solutions, panicked, sent>>
    BY <1>2, <1>a
  <2> QED
    BY <2>1, <2>2, DroppedRun
<1>b. CASE Honest(c, r.branch, q)
  <2>1. /\ Ended(c, s, sent, q) /\ BranchKnown(c, s, sent, q, f)
        /\ Gotten(c, q) \subseteq DOMAIN f.inbox
    <3>1. q = EndPredicate(c, p)
      OBVIOUS
    <3> HIDE DEF q, s
    <3> QED
      BY <1>1, <1>2, <1>b, <3>1, EndEnded
  <2>2. solutions' = [solutions EXCEPT ![c] = @ \cup {q}] /\ Cycle(n, w)
    BY <1>2, <1>b
  <2> HIDE DEF f, q
  <2>3. Onward(n, t, w, start, sent)
    BY <1>1, <2>1, OutputGrows
  <2>4. Somewhere(c, q, w)
    BY <1>1, <2>1, OutputKeeps
  <2> HIDE DEF w
  <2>5. \A x \in solutions[c] : Ended(c, start[c], sent, x) /\ Somewhere(c, x, w)
    BY <1>1, <1>3, <2>3, <2>4 DEF Running, Onward
  <2>6. c \in Owners /\ DOMAIN solutions = Owners /\ ~panicked'
    BY <1>1, <1>2 DEF IInv, Indexed, Owners
  <2>7. /\ DOMAIN solutions' = Owners /\ \A o \in Owners : o # c => solutions'[o] = solutions[o]
        /\ solutions'[c] = solutions[c] \cup {q}
    BY <2>2, <2>6
  <2>8. \A x \in solutions'[c] : Ended(c, start[c], sent, x) /\ Somewhere(c, x, w)
    BY <2>1, <2>4, <2>5, <2>7
  <2>9. UNCHANGED <<payload_inbox, sent>>
    BY <1>2
  <2> QED
    BY <2>2, <2>3, <2>6, <2>7, <2>8, <2>9, QuietRun
<1> QED
  BY <1>a, <1>b

\* The message that branch b puts under p, to a channel that p does not silence.
PutBy(n, p, c, b, t, r, q, cm) ==
    /\ Running(n, p, c, b, t) /\ r = Run(c, b, p) /\ r.blocker = "PutMsg"
    /\ q = Inserted(p, r.channel, Firing) /\ p[r.channel] # Silent
    /\ cm = <<r.channel, [pred |-> q, payload |-> r.payload]>>

\* Such a message tells that its channel fires, and is not put twice.
PutTyped(p, c, r, q, cm) ==
    /\ q \in Speculation /\ AssignsSubset(p, q) /\ q[r.channel] = Firing
    /\ r.channel \in Channels /\ PutterOf[r.channel] = c /\ r.payload \in Payloads
    /\ <<r.channel, "Putter">> \in PutPorts(c)
    /\ <<r.channel, "Putter">> \notin r.branch.did_put_or_get
    /\ cm[1] = r.channel /\ cm[2].pred = q /\ cm[2].payload = r.payload
    /\ cm \in Channels \X [pred : Speculation, payload : Payloads]

LEMMA PutFacts ==
    ASSUME NEW n, NEW p, NEW c, NEW b, NEW t, NEW r, NEW q, NEW cm, PutBy(n, p, c, b, t, r, q, cm)
    PROVE  PutTyped(p, c, r, q, cm)
<1> DEFINE s == start[c]
<1>1. /\ c \in Comps /\ BranchKnown(c, s, sent, p, b) /\ ~b.ended /\ p \in Speculation
      /\ r = Run(c, b, p) /\ r.blocker = "PutMsg"
  BY DEF PutBy, Running, BranchKnown
<1> HIDE DEF s
<1>2. /\ r.channel \in Channels /\ PutterOf[r.channel] = c /\ r.payload \in Payloads
      /\ <<r.channel, "Putter">> \in PutPorts(c)
      /\ <<r.channel, "Putter">> \notin r.branch.did_put_or_get
  BY <1>1, BlockersHonest
<1>3. q = Inserted(p, r.channel, Firing) /\ p[r.channel] \in {Unassigned, Firing}
  <2>1. p[r.channel] # Silent
    BY DEF PutBy
  <2> QED
    BY <1>1, <1>2, <2>1, ChannelDecided DEF PutBy
<1>4. q \in Speculation /\ AssignsSubset(p, q) /\ q[r.channel] = Firing
  BY <1>1, <1>2, <1>3, InsertedCovers
<1>5. cm = <<r.channel, [pred |-> q, payload |-> r.payload]>>
  BY DEF PutBy
<1> QED
  BY <1>2, <1>4, <1>5 DEF PutTyped

LEMMA PutSent ==
    ASSUME IInv, NEW n, NEW p, NEW c, NEW b, NEW t, NEW r, NEW q, NEW cm, PutBy(n, p, c, b, t, r, q, cm),
           sent' = sent \cup {cm}, UNCHANGED given
    PROVE  Messages(sent') /\ PayloadsUnique(sent') /\ SentExplained'
<1> DEFINE s == start[c]
           T == sent'
<1>1. /\ c \in Comps /\ c \notin Natives /\ s \in States[c]
      /\ BranchKnown(c, s, sent, p, b) /\ ~b.ended /\ Messages(sent) /\ PayloadsUnique(sent)
      /\ \A dm \in sent : PutterOf[dm[1]] = c => Produced(c, s, sent, dm)
      /\ r = Run(c, b, p) /\ r.blocker = "PutMsg"
      /\ cm = <<r.channel, [pred |-> q, payload |-> r.payload]>>
  BY HomeAssumption DEF PutBy, Running
<1>2. /\ q \in Speculation /\ q \in Predicate /\ AssignsSubset(p, q) /\ q[r.channel] = Firing
      /\ PutterOf[r.channel] = c
      /\ cm[1] = r.channel /\ cm[2].pred = q /\ cm[2].payload = r.payload
      /\ cm \in Channels \X [pred : Speculation, payload : Payloads]
  <2>1. PutTyped(p, c, r, q, cm)
    BY PutFacts
  <2> QED
    BY <2>1, SpeculationTyped DEF PutTyped
<1>3. T = sent \cup {cm} /\ sent \subseteq T
  OBVIOUS
<1>4. Messages(T)
  BY <1>1, <1>2 DEF Messages
<1> HIDE DEF s, T
<1>5. Produced(c, s, sent, cm)
  BY <1>1, <1>2, PutProduced
<1>6. PayloadsUnique(T)
  <2>1. ASSUME NEW dm \in sent, dm[1] = cm[1], Consistent(cm[2].pred, dm[2].pred)
        PROVE  dm[2].payload = cm[2].payload
    <3>1. Produced(c, s, sent, dm) /\ dm[2].pred \in Speculation
      BY <1>1, <1>2, <2>1, MessageTyped
    <3>2. cm[2].pred \in Speculation
      BY <1>2
    <3> QED
      BY <1>1, <1>5, <2>1, <3>1, <3>2, ProducedUnique
  <2>2. \A x, y : Consistent(x, y) => Consistent(y, x)
    BY DEF Consistent
  <2> SUFFICES ASSUME NEW x \in T, NEW y \in T, x[1] = y[1], Consistent(x[2].pred, y[2].pred)
               PROVE  x[2].payload = y[2].payload
    BY DEF PayloadsUnique
  <2>3. CASE x \in sent /\ y \in sent
    BY <1>1, <2>3 DEF PayloadsUnique
  <2>4. CASE x = cm /\ y \in sent
    BY <2>1, <2>4
  <2>5. CASE x \in sent /\ y = cm
    BY <2>1, <2>2, <2>5
  <2>6. CASE x = cm /\ y = cm
    BY <2>6
  <2> QED
    BY <1>3, <2>3, <2>4, <2>5, <2>6
<1>7. SentExplained'
  <2>1. start' = start /\ batches' = batches
    BY DEF given
  <2>2. ASSUME NEW m \in Natives PROVE BatchPuts(m)' = BatchPuts(m)
    BY <2>1 DEF BatchPuts, BatchPredicate, Consistents, Contradictory
  <2>3. ASSUME NEW m \in Natives, NEW dm \in T, PutterOf[dm[1]] = m PROVE dm \in BatchPuts(m)'
    <3>1. dm \in sent
      BY <1>1, <1>2, <1>3, <2>3
    <3> QED
      BY <2>2, <2>3, <3>1 DEF IInv, SentExplained
  <2>4. ASSUME NEW d \in Comps, NEW dm \in T, PutterOf[dm[1]] = d PROVE Produced(d, start[d], T, dm)
    <3>1. CASE dm \in sent
      <4>1. Produced(d, start[d], sent, dm)
        BY <2>4, <3>1 DEF IInv, SentExplained
      <4> QED
        BY <1>3, <4>1, ProducedMonotone
    <3>2. CASE dm = cm
      <4>1. d = c /\ Produced(d, start[d], sent, dm)
        BY <1>2, <1>5, <2>4, <3>2 DEF s
      <4> QED
        BY <1>3, <4>1, ProducedMonotone
    <3> QED
      BY <1>3, <3>1, <3>2
  <2> QED
    BY <2>1, <2>3, <2>4 DEF SentExplained, T
<1> QED
  BY <1>4, <1>6, <1>7 DEF T

LEMMA CompMapsMonotone ==
    ASSUME NEW n, NEW t, NEW st, NEW S, NEW T, S \subseteq T, CompMapsKnown(n, t, st, S)
    PROVE  CompMapsKnown(n, t, st, T)
BY BranchesMonotone DEF CompMapsKnown

LEMMA HitPutInv ==
    ASSUME IInv, NEW n, NEW p, NEW c, NEW b, NEW t, Running(n, p, c, b, t),
           NEW r, r = Run(c, b, p), HitPut(n, t, p, r),
           UNCHANGED <<given, branchVars, net, unrun, failed>>
    PROVE  IInv'
<1> DEFINE port == <<r.channel, "Putter">>
           q == Inserted(p, r.channel, Firing)
           cm == <<r.channel, [pred |-> q, payload |-> r.payload]>>
           a == r.branch
           f == [a EXCEPT !.did_put_or_get = @ \cup {port}]
           w == IntoSwap(t, q, f)
           s == start[c]
           T == sent'
<1>1. /\ n \in Natives /\ c \in Comps /\ BranchKnown(c, s, sent, p, b) /\ ~b.ended
      /\ DOMAIN t = TaskFields /\ t.comp = c /\ CompMapsKnown(n, t, start, sent)
  BY DEF Running
<1>2. /\ r.blocker = "PutMsg" /\ UNCHANGED solutions
      /\ IF p[r.channel] = Silent
         THEN Cycle(n, t) /\ UNCHANGED <<payload_inbox, sent, panicked>>
         ELSE /\ panicked' = (panicked \/ port \in a.did_put_or_get)
              /\ payload_inbox' = [payload_inbox EXCEPT ![n] = Append(@, cm)]
              /\ T = sent \cup {cm}
              /\ Cycle(n, w)
  BY DEF HitPut, Query, IntoSwap
<1>3. p \in solutions[c] => p[r.channel] = Firing
  BY <1>2, RunRetains
<1>a. CASE p[r.channel] = Silent
  <2>1. p \notin solutions[c]
    BY <1>3, <1>a, SpecVarsTyped
  <2>2. Cycle(n, t) /\ UNCHANGED <<payload_inbox, solutions, panicked, sent>>
    BY <1>2, <1>a
  <2> QED
    BY <2>1, <2>2, DroppedRun
<1>b. CASE p[r.channel] # Silent
  <2>1. PutBy(n, p, c, b, t, r, q, cm)
    BY <1>2, <1>b DEF PutBy
  <2>2. /\ panicked' = (panicked \/ port \in a.did_put_or_get)
        /\ payload_inbox' = [payload_inbox EXCEPT ![n] = Append(@, cm)]
        /\ T = sent \cup {cm} /\ Cycle(n, w)
    BY <1>2, <1>b
  <2>3. Messages(T) /\ PayloadsUnique(T) /\ SentExplained'
    <3>1. sent' = sent \cup {cm} /\ UNCHANGED given
      BY <2>2
    <3> HIDE DEF cm, q
    <3> QED
      BY <2>1, <3>1, PutSent
  <2>4. /\ q \in Speculation /\ AssignsSubset(p, q) /\ q[r.channel] = Firing
        /\ r.channel \in Channels
        /\ port \in PutPorts(c) /\ port \notin a.did_put_or_get
        /\ cm[1] = r.channel /\ cm[2].pred = q
    <3> HIDE DEF cm, q
    <3>1. PutTyped(p, c, r, q, cm)
      BY <2>1, PutFacts
    <3> QED
      BY <3>1 DEF PutTyped
  <2>5. cm \in T /\ sent \subseteq T
    BY <2>2
  <2>6. BranchKnown(c, s, sent, p, a) /\ ~a.ended /\ a.inbox = b.inbox
    <3> HIDE DEF s
    <3> QED
      BY <1>1, <1>2, RunKeeps, RunNotes
  <2>7. PutUnder(port, T, q)
    BY <2>4, <2>5, SubsetReflexive DEF PutUnder
  <2>8. BranchKnown(c, s, T, q, f) /\ ~f.ended /\ f.inbox = a.inbox
    <3>1. f = [a EXCEPT !.did_put_or_get = @ \cup {port}]
      OBVIOUS
    <3> HIDE DEF f, a, q, T, s, port
    <3>2. BranchKnown(c, s, T, q, a)
      BY <1>1, <2>4, <2>5, <2>6, BranchMonotone
    <3> QED
      BY <1>1, <2>4, <2>6, <2>7, <3>1, <3>2, PutNoted
  <2>9. CompMapsKnown(n, t, start, T)
    BY <1>1, <2>5, CompMapsMonotone
  <2> HIDE DEF T, f, q
  <2>10. Onward(n, t, w, start, T)
    BY <1>1, <2>3, <2>8, <2>9, SwapGrows
  <2>11. Gotten(c, q) \subseteq DOMAIN b.inbox => Somewhere(c, q, w)
    BY <1>1, <2>6, <2>8, <2>9, SwapKeeps
  <2>12. p \in solutions[c] => q = p
    <3>1. p \in Predicate
      BY <1>1, SpeculationTyped DEF BranchKnown
    <3> QED
      BY <1>3, <2>4, <3>1, InsertedAgain DEF q
  <2> HIDE DEF w, a, cm
  <2>13. ASSUME NEW x \in solutions'[c] PROVE Ended(c, start[c], T, x) /\ Somewhere(c, x, w)
    <3>1. /\ x \in solutions[c] /\ Ended(c, start[c], sent, x)
          /\ Somewhere(c, x, t) \/ (x = p /\ Gotten(c, p) \subseteq DOMAIN b.inbox)
      BY <1>2 DEF Running
    <3>2. Ended(c, start[c], T, x)
      BY <2>5, <3>1, EndedMonotone
    <3>3. Somewhere(c, x, w)
      BY <1>1, <2>10, <2>11, <2>12, <3>1 DEF Onward
    <3> QED
      BY <3>2, <3>3
  <2>14. ~panicked' /\ solutions' = solutions /\ DOMAIN solutions' = Owners /\ DOMAIN payload_inbox = Natives
    BY <1>2, <2>2, <2>4 DEF IInv, Indexed
  <2>15. DOMAIN payload_inbox' = Natives
    BY <2>2, <2>14
  <2>16. StreamsSent'
    <3>1. net' = net
      OBVIOUS
    <3>2. ASSUME NEW m \in Natives PROVE payload_inbox'[m] \in Seq(T)
      <4>1. payload_inbox[m] \in Seq(T)
        <5>1. payload_inbox[m] \in Seq(sent)
          BY DEF IInv, StreamsSent
        <5> QED
          BY <2>5, <5>1, SeqMonotonic
      <4>2. CASE m = n
        <5>1. payload_inbox'[m] = Append(payload_inbox[m], cm)
          BY <2>2, <2>14, <4>2
        <5> QED
          BY <2>5, <4>1, <5>1, AppendProperties
      <4>3. CASE m # n
        BY <2>2, <2>14, <4>1, <4>3
      <4> QED
        BY <4>2, <4>3
    <3>3. ASSUME NEW ch \in Channels PROVE net'[ch] \in Seq(On(ch, T))
      <4>1. net[ch] \in Seq(On(ch, sent)) /\ On(ch, sent) \subseteq On(ch, T)
        BY <2>5 DEF IInv, StreamsSent, On
      <4> QED
        BY <3>1, <4>1, SeqMonotonic
    <3> QED
      BY <3>2, <3>3 DEF StreamsSent, T, On
  <2>17. sent \subseteq sent'
    BY <2>5 DEF T
  <2> QED
    BY <2>2, <2>3, <2>10, <2>13, <2>14, <2>15, <2>16, <2>17, RunStep DEF T
<1> QED
  BY <1>a, <1>b

LEMMA RunBranchInv == ASSUME IInv, NEW n \in Natives, RunBranch(n) PROVE IInv'
<1>1. task[n].kind = "drain" /\ UNCHANGED <<given, branchVars, net, unrun, failed>>
  BY DEF RunBranch
<1> DEFINE c == task[n].comp
<1>2. PICK p \in DOMAIN task[n].input :
        LET r == Run(task[n].comp, task[n].input[p], p)
            t == [task[n] EXCEPT !.input = Without(@, p)]
        IN  \/ HitInconsistent(n, t, p, r)
            \/ HitRead(n, t, p, r)
            \/ HitFiring(n, t, p, r)
            \/ HitPut(n, t, p, r)
            \/ HitEnd(n, t, p, r)
  BY DEF RunBranch
<1> DEFINE b == task[n].input[p]
           t == Taken(task[n], p)
           r == Run(c, b, p)
<1>3. \/ HitInconsistent(n, t, p, r)
      \/ HitRead(n, t, p, r)
      \/ HitFiring(n, t, p, r)
      \/ HitPut(n, t, p, r)
      \/ HitEnd(n, t, p, r)
  BY <1>2 DEF Taken
<1>4. Running(n, p, c, b, t)
  BY <1>1, TakenRunning
<1>5. r = Run(c, b, p)
  OBVIOUS
<1> HIDE DEF b, t, r, c
<1> QED
  BY <1>1, <1>3, <1>4, <1>5, HitInconsistentInv, HitReadInv, HitFiringInv, HitPutInv, HitEndInv

-----------------------------------------------------------------------------
(* Steps that put nothing and leave the branches where they are or move a whole *)
(* map of them                                                                 *)

LEMMA QuietInv ==
    ASSUME IInv, UNCHANGED <<given, sent>>, ~panicked',
           NEW n \in Natives, NEW t, task' = [task EXCEPT ![n] = t], TaskKnown(n, t, start, batches, sent),
           Indexed', StreamsSent', UnrunFresh', SolutionsExplained', SolutionsKept',
           \A m \in Natives : NativeBranchesKnown(m, batches[m], sent, nbranches[m])',
           \A c \in Comps : BranchesKnown(c, start[c], sent, cbranches[c])'
    PROVE  IInv'
<1>1. GivenTyped' /\ Messages(sent)' /\ SentExplained' /\ PayloadsUnique(sent)'
  BY QuietStep
<1>2. \A m \in Natives : TaskKnown(m, task'[m], start', batches', sent')
  <2>1. sent' = sent
    OBVIOUS
  <2> QED
    BY <2>1, TasksStep
<1>3. BranchesOfAllKnown'
  BY <1>2 DEF BranchesOfAllKnown
<1> QED
  BY <1>1, <1>3 DEF IInv

\* A thread that is between two tasks.
Idle(t) == DOMAIN t = TaskFields /\ t.kind \in {"begin", "loop", "recv", "decided"}

LEMMA IdleKnown == ASSUME NEW t, Idle(t), NEW n, NEW st, NEW bs, NEW S PROVE TaskKnown(n, t, st, bs, S)
BY DEF Idle, TaskKnown, TaskFields, Kinds

LEMMA IdleWorks == ASSUME NEW t, Idle(t), NEW o PROVE ~WorksOn(t, o)
BY DEF Idle, WorksOn

LEMMA LoopIdle == Idle(Loop) /\ Idle([Loop EXCEPT !.kind = "recv"]) /\ Idle([Loop EXCEPT !.kind = "decided"])
                  /\ Idle([Loop EXCEPT !.kind = "loop"])
BY DEF Loop, Task, Idle, TaskFields

\* After its task a thread goes back to the loop, or gives up.
LEMMA GoesIdle ==
    ASSUME IInv, NEW n \in Natives, GiveUp(n) \/ (task' = [task EXCEPT ![n] = Loop] /\ UNCHANGED failed)
    PROVE  /\ DOMAIN failed' = Natives
           /\ \E t : Idle(t) /\ task' = [task EXCEPT ![n] = t]
<1>1. DOMAIN failed = Natives
  BY DEF IInv, Indexed
<1>2. CASE GiveUp(n)
  <2>1. PICK k \in {"decided", "loop"} : task' = [task EXCEPT ![n] = [Loop EXCEPT !.kind = k]]
    BY <1>2 DEF GiveUp
  <2>2. Idle([Loop EXCEPT !.kind = k])
    BY LoopIdle
  <2>3. DOMAIN failed' = Natives
    BY <1>1, <1>2 DEF GiveUp
  <2> QED
    BY <2>1, <2>2, <2>3
<1>3. CASE task' = [task EXCEPT ![n] = Loop] /\ UNCHANGED failed
  BY <1>1, <1>3, LoopIdle
<1> QED
  BY <1>2, <1>3

\* What is submitted stays explained.
LEMMA ExplainedStep ==
    ASSUME IInv, sent \subseteq sent', UNCHANGED given, \A c \in Comps : solutions'[c] = solutions[c]
    PROVE  SolutionsExplained'
<1> SUFFICES ASSUME NEW c \in Comps, NEW q \in solutions'[c] PROVE Ended(c, start'[c], sent', q)
  BY DEF SolutionsExplained
<1>1. Ended(c, start[c], sent, q)
  BY DEF IInv, SolutionsExplained
<1>2. start' = start
  BY DEF given
<1> QED
  BY <1>1, <1>2, EndedMonotone

LEMMA SettleInv == ASSUME IInv, NEW n \in Natives, Settle(n) PROVE IInv'
<1> DEFINE t0 == task[n]
           c == t0.comp
<1>1. /\ t0.kind = "drain" /\ t0.input = <<>>
      /\ cbranches' = [cbranches EXCEPT ![c] = t0.output]
      /\ UNCHANGED <<given, nbranches, payload_inbox, net, solutions, unrun, panicked, sent>>
      /\ GiveUp(n) \/ (task' = [task EXCEPT ![n] = Loop] /\ UNCHANGED failed)
  BY DEF Settle
<1>2. DOMAIN failed' = Natives
  BY <1>1, GoesIdle
<1>3. PICK t : Idle(t) /\ task' = [task EXCEPT ![n] = t]
  BY <1>1, GoesIdle
<1>4. /\ c \in Comps /\ Home[c] = n /\ t0.swap = <<>> /\ c \notin Natives
      /\ BranchesKnown(c, start[c], sent, t0.output)
  <2>1. TaskKnown(n, t0, start, batches, sent)
    BY DEF IInv, BranchesOfAllKnown
  <2> QED
    BY <1>1, <2>1, HomeAssumption DEF TaskKnown, CompMapsKnown
<1>5. /\ start' = start /\ batches' = batches /\ sent' = sent /\ solutions' = solutions
      /\ nbranches' = nbranches /\ net' = net /\ payload_inbox' = payload_inbox /\ unrun' = unrun
      /\ DOMAIN cbranches = Comps /\ DOMAIN task = Natives /\ ~panicked'
  BY <1>1 DEF given, IInv, Indexed
<1>6. cbranches'[c] = t0.output /\ \A d \in Comps : d # c => cbranches'[d] = cbranches[d]
  BY <1>1, <1>4, <1>5
<1>7. Indexed'
  BY <1>1, <1>2, <1>3, <1>5 DEF IInv, Indexed
<1>8. StreamsSent'
  BY <1>5 DEF IInv, StreamsSent, On
<1>9. WorksOn(t0, c) /\ (\A o \in Owners : o # c => ~WorksOn(t0, o)) /\ \A o : ~WorksOn(t, o)
  BY <1>1, <1>3, <1>4, IdleWorks DEF WorksOn
<1> HIDE DEF c, t0
<1>10. UnrunFresh'
  <2> SUFFICES ASSUME NEW m \in Natives, NEW d \in unrun'[m]
               PROVE  /\ d \in Comps /\ Home[d] = m
                      /\ cbranches'[d] = Initial(start'[d]) /\ ~WorksOn(task'[m], d)
    BY DEF UnrunFresh, Initial, InitialBranch, WorksOn, NoAssignments
  <2>1. /\ d \in Comps /\ Home[d] = m /\ cbranches[d] = Initial(start[d]) /\ ~WorksOn(task[m], d)
    BY <1>5 DEF IInv, UnrunFresh
  <2>2. d # c
    BY <1>4, <1>9, <2>1 DEF t0
  <2>3. ~WorksOn(task'[m], d)
    BY <1>3, <1>5, <1>9, <2>1
  <2> QED
    BY <1>5, <1>6, <2>1, <2>2, <2>3
<1>11. SolutionsExplained'
  BY <1>1, <1>5, ExplainedStep
<1>12. \A m \in Natives : NativeBranchesKnown(m, batches[m], sent, nbranches[m])'
  BY <1>1, <1>5, NativesStep
<1>13. \A d \in Comps : BranchesKnown(d, start[d], sent, cbranches[d])'
  BY <1>4, <1>5, <1>6 DEF IInv, BranchesOfAllKnown
<1>14. SolutionsKept'
  <2>1. ASSUME NEW o \in Owners, o # c PROVE BranchesOf(o)' = BranchesOf(o)
    BY <1>5, <1>6, <2>1 DEF BranchesOf, Owners
  <2>2. ASSUME NEW o \in Owners, HomeOf(o) # n
        PROVE  solutions'[o] = solutions[o] /\ BranchesOf(o)' = BranchesOf(o)
    <3>1. o # c
      BY <1>4, <2>2 DEF HomeOf
    <3> QED
      BY <1>5, <2>1, <3>1
  <2>3. ASSUME NEW o \in Owners, HomeOf(o) = n, NEW q \in solutions'[o]
        PROVE  Kept(o, q, t, BranchesOf(o)')
    <3>1. Kept(o, q, t0, BranchesOf(o))
      BY <1>5, <2>3 DEF IInv, SolutionsKept, t0
    <3>2. CASE o = c
      <4>1. Keeps(c, q, t0.output)
        BY <1>1, <1>4, <1>9, <3>1, <3>2, KeepsEmpty DEF Kept, Somewhere, t0
      <4>2. BranchesOf(o)' = t0.output
        BY <1>4, <1>6, <3>2 DEF BranchesOf
      <4> QED
        BY <1>9, <3>2, <4>1, <4>2 DEF Kept
    <3>3. CASE o # c
      <4>1. Keeps(o, q, BranchesOf(o))
        BY <1>9, <3>1, <3>3 DEF Kept
      <4> QED
        BY <1>9, <2>1, <3>3, <4>1 DEF Kept
    <3> QED
      BY <3>2, <3>3
  <2> QED
    BY <1>3, <2>2, <2>3, KeptStep
<1>15. TaskKnown(n, t, start, batches, sent)
  BY <1>3, IdleKnown
<1>16. UNCHANGED <<given, sent>>
  BY <1>1
<1> QED
  BY <1>3, <1>5, <1>7, <1>8, <1>10, <1>11, <1>12, <1>13, <1>14, <1>15, <1>16, QuietInv

LEMMA NativeDoneInv == ASSUME IInv, NEW n \in Natives, NativeDone(n) PROVE IInv'
<1> DEFINE t0 == task[n]
           t == Loop
<1>1. /\ t0.kind = "native" /\ t0.input = <<>>
      /\ nbranches' = [nbranches EXCEPT ![n] = t0.output] /\ task' = [task EXCEPT ![n] = t]
      /\ UNCHANGED <<given, cbranches, payload_inbox, net, solutions, unrun, failed, panicked, sent>>
  BY DEF NativeDone
<1>2. Idle(t)
  BY LoopIdle
<1> HIDE DEF t
<1>4. t0.swap = <<>> /\ NativeBranchesKnown(n, batches[n], sent, t0.output)
  <2>1. TaskKnown(n, t0, start, batches, sent)
    BY DEF IInv, BranchesOfAllKnown
  <2> QED
    BY <1>1, <2>1 DEF TaskKnown, NativeMapsKnown
<1>5. /\ start' = start /\ batches' = batches /\ sent' = sent /\ solutions' = solutions
      /\ cbranches' = cbranches /\ net' = net /\ payload_inbox' = payload_inbox /\ unrun' = unrun
      /\ failed' = failed /\ DOMAIN nbranches = Natives /\ DOMAIN task = Natives /\ ~panicked'
  BY <1>1 DEF given, IInv, Indexed
<1>6. nbranches'[n] = t0.output /\ \A m \in Natives : m # n => nbranches'[m] = nbranches[m]
  BY <1>1, <1>5
<1>7. Indexed'
  BY <1>1, <1>5 DEF IInv, Indexed
<1>8. StreamsSent'
  BY <1>5 DEF IInv, StreamsSent, On
<1>9. WorksOn(t0, n) /\ (\A o \in Owners : HomeOf(o) = n /\ o # n => ~WorksOn(t0, o)) /\ \A o : ~WorksOn(t, o)
  BY <1>1, <1>2, IdleWorks DEF WorksOn, HomeOf
<1>10. UnrunFresh'
  <2>1. (\A m \in Natives : unrun'[m] \subseteq unrun[m]) /\ UNCHANGED <<given, cbranches>>
    BY <1>1, <1>5
  <2> QED
    BY <1>1, <1>9, <2>1, UnrunStep
<1>11. SolutionsExplained'
  BY <1>1, <1>5, ExplainedStep
<1>12. \A m \in Natives : NativeBranchesKnown(m, batches[m], sent, nbranches[m])'
  BY <1>4, <1>5, <1>6 DEF IInv, BranchesOfAllKnown
<1>13. \A d \in Comps : BranchesKnown(d, start[d], sent, cbranches[d])'
  BY <1>1, <1>5, CompsStep
<1> HIDE DEF t0
<1>14. SolutionsKept'
  <2>1. ASSUME NEW o \in Owners, o # n PROVE BranchesOf(o)' = BranchesOf(o)
    BY <1>5, <1>6, <2>1 DEF BranchesOf
  <2>2. ASSUME NEW o \in Owners, HomeOf(o) # n
        PROVE  solutions'[o] = solutions[o] /\ BranchesOf(o)' = BranchesOf(o)
    <3>1. o # n
      BY <2>2 DEF HomeOf
    <3> QED
      BY <1>5, <2>1, <3>1
  <2>3. ASSUME NEW o \in Owners, HomeOf(o) = n, NEW q \in solutions'[o]
        PROVE  Kept(o, q, t, BranchesOf(o)')
    <3>1. Kept(o, q, t0, BranchesOf(o))
      BY <1>5, <2>3 DEF IInv, SolutionsKept, t0
    <3>2. CASE o = n
      <4>1. Keeps(n, q, t0.output)
        BY <1>1, <1>4, <1>9, <3>1, <3>2, KeepsEmpty DEF Kept, Somewhere, t0
      <4>2. BranchesOf(o)' = t0.output
        BY <1>6, <3>2 DEF BranchesOf
      <4> QED
        BY <1>9, <3>2, <4>1, <4>2 DEF Kept
    <3>3. CASE o # n
      <4>1. Keeps(o, q, BranchesOf(o))
        BY <1>9, <2>3, <3>1, <3>3 DEF Kept
      <4> QED
        BY <1>9, <2>1, <3>3, <4>1 DEF Kept
    <3> QED
      BY <3>2, <3>3
  <2> QED
    BY <1>1, <2>2, <2>3, KeptStep
<1>15. TaskKnown(n, t, start, batches, sent)
  BY <1>2, IdleKnown
<1>16. UNCHANGED <<given, sent>>
  BY <1>1
<1> QED
  BY <1>1, <1>5, <1>7, <1>8, <1>10, <1>11, <1>12, <1>13, <1>14, <1>15, <1>16, QuietInv

-----------------------------------------------------------------------------
(* Routing and receiving *)

\* All but the last element of a sequence.
LEMMA FrontLast ==
    ASSUME NEW S, NEW s \in Seq(S), s # <<>>
    PROVE  Front(s) \in Seq(S) /\ Last(s) \in S
<1>1. Len(s) \in Nat \ {0} /\ DOMAIN s = 1..Len(s) /\ s \in [1..Len(s) -> S]
  BY EmptySeq, LenProperties
<1>2. Last(s) \in S
  BY <1>1 DEF Last
<1>3. Front(s) \in Seq(S)
  <2>1. Len(s) - 1 \in Int /\ \A i \in 1..(Len(s) - 1) : s[i] \in S
    BY <1>1
  <2>2. SubSeq(s, 1, Len(s) - 1) \in Seq(S)
    BY <2>1, SubSeqProperties
  <2> QED
    BY <2>2 DEF Front
<1> QED
  BY <1>2, <1>3

\* A thread that is not working on branches turns to those of one owner at most,
\* taking their map as it is.
LEMMA TurnKept ==
    ASSUME IInv, NEW n \in Natives, Idle(task[n]), UNCHANGED <<branchVars, solutions>>,
           NEW t, task' = [task EXCEPT ![n] = t],
           \A o \in Owners : HomeOf(o) = n /\ WorksOn(t, o) =>
             \A q : Keeps(o, q, BranchesOf(o)) => Somewhere(o, q, t)
    PROVE  SolutionsKept'
<1>1. nbranches' = nbranches /\ cbranches' = cbranches /\ solutions' = solutions
  BY DEF branchVars
<1>2. \A o \in Owners : BranchesOf(o)' = BranchesOf(o)
  BY <1>1 DEF BranchesOf
<1>3. ASSUME NEW o \in Owners, HomeOf(o) = n, NEW q \in solutions'[o]
      PROVE  Kept(o, q, t, BranchesOf(o)')
  <2>1. Kept(o, q, task[n], BranchesOf(o)) /\ ~WorksOn(task[n], o)
    BY <1>1, <1>3, IdleWorks DEF IInv, SolutionsKept
  <2>2. Keeps(o, q, BranchesOf(o))
    BY <2>1 DEF Kept
  <2> QED
    BY <1>2, <1>3, <2>2 DEF Kept
<1> QED
  BY <1>1, <1>2, <1>3, KeptStep

LEMMA TurnInv ==
    ASSUME IInv, NEW n \in Natives, task[n].kind \in {"loop", "recv"}, unrun[n] = {},
           UNCHANGED <<given, branchVars, solutions, unrun, failed, panicked, sent>>,
           NEW t, task' = [task EXCEPT ![n] = t], TaskKnown(n, t, start, batches, sent),
           \A o \in Owners : HomeOf(o) = n /\ WorksOn(t, o) =>
             \A q : Keeps(o, q, BranchesOf(o)) => Somewhere(o, q, t),
           DOMAIN payload_inbox' = Natives, DOMAIN net' = Channels, StreamsSent'
    PROVE  IInv'
<1>1. /\ start' = start /\ batches' = batches /\ sent' = sent /\ solutions' = solutions
      /\ nbranches' = nbranches /\ cbranches' = cbranches /\ unrun' = unrun /\ failed' = failed
      /\ DOMAIN task = Natives /\ ~panicked'
  BY DEF given, branchVars, IInv, Indexed
<1>2. Indexed'
  BY <1>1 DEF IInv, Indexed
<1>3. Idle(task[n])
  BY DEF IInv, BranchesOfAllKnown, TaskKnown, TaskFields, Idle
<1>4. SolutionsKept'
  <2>1. UNCHANGED <<branchVars, solutions>>
    OBVIOUS
  <2> QED
    BY <1>3, <2>1, TurnKept
<1>5. UnrunFresh'
  <2>1. /\ \A m \in Natives : unrun'[m] \subseteq unrun[m]
        /\ UNCHANGED <<given, cbranches>> /\ \A c \in unrun'[n] : ~WorksOn(t, c)
    BY <1>1
  <2> QED
    BY <2>1, UnrunStep
<1>6. UNCHANGED <<given, sent>> /\ UNCHANGED <<given, nbranches>> /\ UNCHANGED <<given, cbranches>>
  BY <1>1 DEF given
<1>7. SolutionsExplained'
  BY <1>1, <1>6, ExplainedStep
<1>8. \A m \in Natives : NativeBranchesKnown(m, batches[m], sent, nbranches[m])'
  BY <1>1, <1>6, NativesStep
<1>9. \A d \in Comps : BranchesKnown(d, start[d], sent, cbranches[d])'
  BY <1>1, <1>6, CompsStep
<1> QED
  BY <1>1, <1>2, <1>4, <1>5, <1>6, <1>7, <1>8, <1>9, QuietInv

LEMMA RouteInv == ASSUME IInv, NEW n \in Natives, Route(n) PROVE IInv'
<1> DEFINE cm == Last(payload_inbox[n])
           getter == GetterOf[cm[1]]
<1>1. /\ task[n].kind \in {"loop", "recv"} /\ unrun[n] = {} /\ payload_inbox[n] # <<>>
      /\ payload_inbox' = [payload_inbox EXCEPT ![n] = Front(@)]
      /\ IF getter \in Owners /\ HomeOf(getter) # n
         THEN /\ net' = [net EXCEPT ![cm[1]] = Append(@, cm[2])]
              /\ task' = [task EXCEPT ![n] = Loop]
         ELSE /\ task' = [task EXCEPT ![n] =
                    IF getter = n THEN Task("native", "none", cm, nbranches[n])
                    ELSE IF getter \in Comps THEN Visited(Task("feed", getter, cm, cbranches[getter]))
                    ELSE Loop]
              /\ net' = net
      /\ UNCHANGED <<given, branchVars, solutions, unrun, failed, panicked, sent>>
  BY DEF Route
<1>2. /\ DOMAIN payload_inbox = Natives /\ DOMAIN net = Channels /\ sent' = sent
      /\ payload_inbox[n] \in Seq(sent) /\ Messages(sent)
  BY <1>1 DEF IInv, Indexed, StreamsSent
<1>3. cm \in sent /\ Front(payload_inbox[n]) \in Seq(sent)
  BY <1>1, <1>2, FrontLast
<1>4. cm[1] \in Channels /\ cm[2] \in On(cm[1], sent)
  BY <1>2, <1>3, MessageTyped DEF On
<1> HIDE DEF cm
<1>5. DOMAIN payload_inbox' = Natives /\ \A m \in Natives : payload_inbox'[m] \in Seq(sent)
  <2>1. \A m \in Natives : payload_inbox[m] \in Seq(sent)
    BY DEF IInv, StreamsSent
  <2> QED
    BY <1>1, <1>2, <1>3, <2>1
<1>6. DOMAIN net' = Channels /\ \A ch \in Channels : net'[ch] \in Seq(On(ch, sent))
  <2>1. \A ch \in Channels : net[ch] \in Seq(On(ch, sent))
    BY DEF IInv, StreamsSent
  <2>2. CASE net' = [net EXCEPT ![cm[1]] = Append(@, cm[2])]
    <3>1. Append(net[cm[1]], cm[2]) \in Seq(On(cm[1], sent))
      BY <1>4, <2>1, AppendProperties
    <3> QED
      BY <1>2, <1>4, <2>1, <2>2, <3>1
  <2>3. CASE net' = net
    BY <1>2, <2>1, <2>3
  <2> QED
    BY <1>1, <2>2, <2>3
<1>7. StreamsSent'
  BY <1>2, <1>5, <1>6 DEF StreamsSent, On
<1>a. CASE task' = [task EXCEPT ![n] = Loop]
  <2>1. TaskKnown(n, Loop, start, batches, sent) /\ \A o : ~WorksOn(Loop, o)
    BY LoopIdle, IdleKnown, IdleWorks
  <2> QED
    BY <1>1, <1>5, <1>6, <1>7, <1>a, <2>1, TurnInv
<1>b. CASE getter = n /\ task' = [task EXCEPT ![n] = Task("native", "none", cm, nbranches[n])]
  <2> DEFINE t == Task("native", "none", cm, nbranches[n])
  <2>1. /\ DOMAIN t = TaskFields /\ t.kind = "native" /\ t.comp = "none" /\ t.cm = cm
        /\ t.input = nbranches[n] /\ t.swap = <<>> /\ t.output = <<>>
    BY DEF Task, TaskFields
  <2>2. task' = [task EXCEPT ![n] = t]
    BY <1>b
  <2> HIDE DEF t
  <2>3. NativeMapsKnown(n, t, batches, sent)
    <3>1. NativeBranchesKnown(n, batches[n], sent, nbranches[n])
      BY DEF IInv, BranchesOfAllKnown
    <3> QED
      BY <1>3, <1>b, <2>1, <3>1, NativeEmptyKnown DEF NativeMapsKnown
  <2>4. TaskKnown(n, t, start, batches, sent)
    BY <2>1, <2>3 DEF TaskKnown, TaskFields, Kinds
  <2>5. ASSUME NEW o \in Owners, HomeOf(o) = n, WorksOn(t, o), NEW q, Keeps(o, q, BranchesOf(o))
        PROVE  Somewhere(o, q, t)
    <3>1. o = n
      BY <2>1, <2>5 DEF WorksOn, HomeOf
    <3> QED
      BY <2>1, <2>5, <3>1 DEF Somewhere, BranchesOf
  <2> QED
    BY <1>1, <1>5, <1>6, <1>7, <2>2, <2>4, <2>5, TurnInv
<1>c. CASE /\ getter \in Comps /\ Home[getter] = n
           /\ task' = [task EXCEPT ![n] = Visited(Task("feed", getter, cm, cbranches[getter]))]
  <2> DEFINE u == Task("feed", getter, cm, cbranches[getter])
             t == Visited(u)
  <2>1. /\ DOMAIN u = TaskFields /\ u.kind = "feed" /\ u.comp = getter /\ u.cm = cm
        /\ u.input = cbranches[getter] /\ u.swap = <<>> /\ u.output = <<>>
    BY DEF Task, TaskFields
  <2>2. task' = [task EXCEPT ![n] = t] /\ t = Visited(u)
    BY <1>c
  <2>0. GetterOf[cm[1]] = getter
    OBVIOUS
  <2> HIDE DEF u, t, getter
  <2>3. CompMapsKnown(n, u, start, sent)
    <3>1. BranchesKnown(getter, start[getter], sent, cbranches[getter])
      BY <1>c DEF IInv, BranchesOfAllKnown
    <3> QED
      BY <1>c, <2>1, <3>1, EmptyMaps DEF CompMapsKnown
  <2>4. Resumed(n, u, t, start, batches, sent)
    <3>1. u.cm \in sent /\ GetterOf[u.cm[1]] = u.comp
      BY <1>3, <2>1, <2>0
    <3> QED
      BY <2>1, <2>2, <2>3, <3>1, VisitedKnown
  <2>5. /\ TaskKnown(n, t, start, batches, sent) /\ t.kind \in {"feed", "drain"} /\ t.comp = getter
        /\ \A q : Somewhere(getter, q, u) => Somewhere(getter, q, t)
    BY <2>1, <2>4 DEF Resumed
  <2>6. ASSUME NEW o \in Owners, HomeOf(o) = n, WorksOn(t, o), NEW q, Keeps(o, q, BranchesOf(o))
        PROVE  Somewhere(o, q, t)
    <3>1. o = getter /\ o \notin Natives
      BY <2>5, <2>6 DEF WorksOn
    <3> QED
      BY <2>1, <2>5, <2>6, <3>1 DEF Somewhere, BranchesOf
  <2> QED
    BY <1>1, <1>5, <1>6, <1>7, <2>2, <2>5, <2>6, TurnInv
<1>8. getter \in Comps /\ ~(getter \in Owners /\ HomeOf(getter) # n) => Home[getter] = n
  BY HomeAssumption DEF Owners, HomeOf
<1> QED
  BY <1>1, <1>8, <1>a, <1>b, <1>c

LEMMA ReceiveInv == ASSUME IInv, NEW n \in Natives, Receive(n) PROVE IInv'
<1> DEFINE t == [Loop EXCEPT !.kind = "recv"]
<1>1. /\ task[n].kind \in {"loop", "recv"} /\ unrun[n] = {} /\ task' = [task EXCEPT ![n] = t]
      /\ UNCHANGED <<given, branchVars, solutions, unrun, failed, panicked, sent>>
  BY DEF Receive
<1>2. PICK ch \in Channels :
        /\ net[ch] # <<>> /\ net' = [net EXCEPT ![ch] = Tail(@)]
        /\ payload_inbox' = [payload_inbox EXCEPT ![n] = Append(@, <<ch, Head(net[ch])>>)]
  BY DEF Receive
<1>3. Idle(t)
  BY LoopIdle
<1> HIDE DEF t
<1>4. /\ DOMAIN payload_inbox = Natives /\ DOMAIN net = Channels /\ sent' = sent /\ Messages(sent)
      /\ \A m \in Natives : payload_inbox[m] \in Seq(sent)
      /\ \A k \in Channels : net[k] \in Seq(On(k, sent))
  BY <1>1 DEF IInv, Indexed, StreamsSent
<1>5. Head(net[ch]) \in On(ch, sent) /\ Tail(net[ch]) \in Seq(On(ch, sent))
  <2>1. net[ch] \in Seq(On(ch, sent)) /\ net[ch] # <<>>
    BY <1>2, <1>4
  <2> QED
    BY <2>1, HeadTailProperties
<1>6. <<ch, Head(net[ch])>> \in sent
  <2>1. PICK cm \in sent : cm[1] = ch /\ cm[2] = Head(net[ch])
    BY <1>5 DEF On
  <2>2. cm = <<cm[1], cm[2]>>
    BY <1>4, MessageTyped
  <2> QED
    BY <2>1, <2>2
<1>7. Append(payload_inbox[n], <<ch, Head(net[ch])>>) \in Seq(sent)
  BY <1>4, <1>6, AppendProperties
<1>8. /\ DOMAIN payload_inbox' = Natives /\ DOMAIN net' = Channels
      /\ \A m \in Natives : payload_inbox'[m] \in Seq(sent)
      /\ \A k \in Channels : net'[k] \in Seq(On(k, sent))
  BY <1>2, <1>4, <1>5, <1>7
<1>9. StreamsSent'
  BY <1>4, <1>8 DEF StreamsSent, On
<1>10. TaskKnown(n, t, start, batches, sent) /\ \A o : ~WorksOn(t, o)
  BY <1>3, IdleKnown, IdleWorks
<1> QED
  BY <1>1, <1>8, <1>9, <1>10, TurnInv

-----------------------------------------------------------------------------
(* Feeding a message to the branches of a native *)

\* What thread n has found of native n's branch b, under p, with m being the
\* branches that have been visited.
NativeVisit(n, bs, S, cm, p, b, m) ==
    /\ n \in Natives /\ Messages(S) /\ PayloadsUnique(S)
    /\ cm \in S /\ GetterOf[cm[1]] = n
    /\ NativeBranchKnown(n, bs, S, p, b) /\ NativeBranchesKnown(n, bs, S, m)

LEMMA WantedFacts ==
    ASSUME NEW n, NEW bs, NEW S, NEW cm, NEW p, NEW b, NEW m, NativeVisit(n, bs, S, cm, p, b, m),
           AssignmentUnion(p, cm[2].pred) # "Nonexistant",
           NEW q, q = UnionWith(p, cm[2].pred), NEW f, f = NativeFed(b, cm)
    PROVE  /\ ~Conflicting(b.gotten, cm)
           /\ NativeBranchKnown(n, bs, S, q, f)
           /\ f.to_get = b.to_get \ {cm[1]}
<1> DEFINE w == cm[2].pred
<1>1. /\ n \in Natives /\ Messages(S) /\ PayloadsUnique(S) /\ cm \in S /\ GetterOf[cm[1]] = n
      /\ NativeBranchKnown(n, bs, S, p, b) /\ p \in Speculation /\ p \in Predicate /\ Covered(b.gotten, S, p)
  BY SpeculationTyped DEF NativeVisit, NativeBranchKnown
<1>2. w \in Speculation /\ w \in Predicate
  BY <1>1, MessageTyped, SpeculationTyped
<1>3. Consistent(p, w)
  <2>1. AssignmentUnion(p, w) # "Nonexistant"
    OBVIOUS
  <2> HIDE DEF w
  <2> QED
    BY <1>1, <1>2, <2>1, UnionVerdict
<1>4. q \in Speculation /\ AssignsSubset(p, q) /\ AssignsSubset(w, q)
  <2>1. q = UnionWith(p, w)
    OBVIOUS
  <2> HIDE DEF w
  <2> QED
    BY <1>1, <1>2, <1>3, <2>1, UnionCovers
<1>5. NativeBranchKnown(n, bs, S, q, f) /\ f.to_get = b.to_get \ {cm[1]}
  <2>1. Consistent(p, cm[2].pred) /\ AssignsSubset(p, q) /\ AssignsSubset(cm[2].pred, q) /\ q \in Speculation
    BY <1>3, <1>4
  <2> HIDE DEF w
  <2>2. NativeBranchKnown(n, bs, S, q, NativeFed(b, cm))
    BY <1>1, <2>1, NativeFedKnown
  <2>3. NativeFed(b, cm).to_get = b.to_get \ {cm[1]}
    BY <1>1 DEF NativeFed, NativeBranchKnown
  <2> QED
    BY <2>2, <2>3
<1>6. cm[1] \in DOMAIN b.gotten => b.gotten[cm[1]] = cm[2].payload
  BY <1>1, <1>3, NoConflict
<1> QED
  BY <1>5, <1>6 DEF Conflicting

\* The output after the visit to a branch that wants the message.
WantedInto(m, p, b, q, f) == NativeMerged(IF q = p THEN m ELSE NativeMerged(m, p, b), q, f)

LEMMA WantedKnown ==
    ASSUME NEW n, NEW bs, NEW S, NEW cm, NEW p, NEW b, NEW m, NativeVisit(n, bs, S, cm, p, b, m),
           NEW q, NEW f, NativeBranchKnown(n, bs, S, q, f)
    PROVE  NativeBranchesKnown(n, bs, S, WantedInto(m, p, b, q, f))
<1> DEFINE k == IF q = p THEN m ELSE NativeMerged(m, p, b)
<1>1. n \in Natives /\ PayloadsUnique(S) /\ NativeBranchesKnown(n, bs, S, m) /\ NativeBranchKnown(n, bs, S, p, b)
  BY DEF NativeVisit
<1>2. NativeBranchesKnown(n, bs, S, k)
  BY <1>1, NativeMergedKnown
<1> HIDE DEF k
<1>3. NativeBranchesKnown(n, bs, S, NativeMerged(k, q, f))
  BY <1>1, <1>2, NativeMergedKnown
<1> QED
  BY <1>3 DEF WantedInto, k

LEMMA WantedKeeps ==
    ASSUME NEW n, NEW bs, NEW S, NEW cm, NEW p, NEW b, NEW m, NativeVisit(n, bs, S, cm, p, b, m),
           NEW q, NEW f, NativeBranchKnown(n, bs, S, q, f), f.to_get \subseteq b.to_get,
           NEW x, Keeps(n, x, m) \/ (x = p /\ b.to_get = {}) \/ (x = q /\ f.to_get = {})
    PROVE  Keeps(n, x, WantedInto(m, p, b, q, f))
<1> DEFINE k == IF q = p THEN m ELSE NativeMerged(m, p, b)
<1>1. n \in Natives /\ PayloadsUnique(S) /\ NativeBranchesKnown(n, bs, S, m) /\ NativeBranchKnown(n, bs, S, p, b)
  BY DEF NativeVisit
<1>2. NativeBranchesKnown(n, bs, S, k)
  BY <1>1, NativeMergedKnown
<1>3. Keeps(n, x, k) \/ (x = q /\ f.to_get = {})
  <2>1. CASE q = p
    <3>1. f.to_get = {} \/ b.to_get # {}
      OBVIOUS
    <3> QED
      BY <2>1, <3>1
  <2>2. CASE q # p
    <3>1. CASE Keeps(n, x, m) \/ (x = p /\ b.to_get = {})
      <4>1. Keeps(n, x, NativeMerged(m, p, b))
        BY <1>1, <3>1, NativeKeepsMerged
      <4> QED
        BY <2>2, <4>1
    <3>2. CASE x = q /\ f.to_get = {}
      BY <3>2
    <3> QED
      BY <3>1, <3>2
  <2> QED
    BY <2>1, <2>2
<1> HIDE DEF k
<1>4. Keeps(n, x, NativeMerged(k, q, f))
  BY <1>1, <1>2, <1>3, NativeKeepsMerged
<1> QED
  BY <1>4 DEF WantedInto, k

LEMMA FeedNativeInv == ASSUME IInv, NEW n \in Natives, FeedNative(n) PROVE IInv'
<1> DEFINE t0 == task[n]
           cm == t0.cm
<1>1. t0.kind = "native" /\ UNCHANGED <<given, branchVars, payload_inbox, net, unrun, failed, sent>>
  BY DEF FeedNative
<1>2. PICK p \in DOMAIN t0.input :
        LET b == t0.input[p]
            t == [t0 EXCEPT !.input = Without(@, p)]
            wants == Query(p, cm[1]) = Firing /\ AssignmentUnion(p, cm[2].pred) # "Nonexistant"
            q == UnionWith(p, cm[2].pred)
            kept == IF wants /\ q = p THEN t.output ELSE NativeMerged(t.output, p, b)
        IN  IF wants
            THEN /\ task' = [task EXCEPT ![n] =
                       [t EXCEPT !.output = NativeMerged(kept, q, NativeFed(b, cm))]]
                 /\ solutions' = [solutions EXCEPT ![n] =
                       @ \cup IF NativeFed(b, cm).to_get = {} THEN {q} ELSE {}]
                 /\ panicked' = (panicked \/ Conflicting(b.gotten, cm))
            ELSE /\ task' = [task EXCEPT ![n] = [t EXCEPT !.output = kept]]
                 /\ UNCHANGED <<solutions, panicked>>
  BY DEF FeedNative
<1> DEFINE b == t0.input[p]
           q == UnionWith(p, cm[2].pred)
           f == NativeFed(b, cm)
           t == Taken(t0, p)
           m == t0.output
           wants == p[cm[1]] = Firing /\ AssignmentUnion(p, cm[2].pred) # "Nonexistant"
           out == IF wants THEN WantedInto(m, p, b, q, f) ELSE NativeMerged(m, p, b)
           u == [t EXCEPT !.output = out]
           new == IF wants /\ f.to_get = {} THEN {q} ELSE {}
<1>3. /\ DOMAIN t0 = TaskFields /\ t0.swap = <<>> /\ cm \in sent /\ GetterOf[cm[1]] = n
      /\ NativeBranchesKnown(n, batches[n], sent, t0.input)
      /\ NativeBranchesKnown(n, batches[n], sent, m)
  <2>1. TaskKnown(n, t0, start, batches, sent)
    BY DEF IInv, BranchesOfAllKnown
  <2> QED
    BY <1>1, <2>1 DEF TaskKnown, NativeMapsKnown, TaskFields
<1>4. NativeVisit(n, batches[n], sent, cm, p, b, m)
  BY <1>2, <1>3 DEF NativeVisit, NativeBranchesKnown, IInv
<1>5. /\ DOMAIN t = TaskFields /\ t.kind = "native" /\ t.cm = cm /\ t.comp = t0.comp
      /\ t.input = Without(t0.input, p) /\ t.swap = <<>> /\ t.output = m
  BY <1>1, <1>3 DEF Taken, TaskFields
<1>6. /\ task' = [task EXCEPT ![n] = u]
      /\ solutions'[n] = solutions[n] \cup new
      /\ DOMAIN solutions' = Owners /\ \A o \in Owners : o # n => solutions'[o] = solutions[o]
      /\ ~wants => panicked' = panicked
      /\ wants => panicked' = (panicked \/ Conflicting(b.gotten, cm))
  <2>1. t = [t0 EXCEPT !.input = Without(@, p)]
    BY DEF Taken
  <2>0. DOMAIN solutions = Owners /\ n \in Owners
    BY DEF IInv, Indexed, Owners
  <2>2. CASE wants
    <3>1. /\ task' = [task EXCEPT ![n] =
                [t EXCEPT !.output = NativeMerged(IF q = p THEN t.output ELSE NativeMerged(t.output, p, b), q, f)]]
          /\ solutions' = [solutions EXCEPT ![n] = @ \cup IF f.to_get = {} THEN {q} ELSE {}]
          /\ panicked' = (panicked \/ Conflicting(b.gotten, cm))
      BY <1>2, <2>1, <2>2 DEF Query
    <3>2. out = NativeMerged(IF q = p THEN t.output ELSE NativeMerged(t.output, p, b), q, f)
      BY <1>5, <2>2 DEF WantedInto
    <3>3. new = IF f.to_get = {} THEN {q} ELSE {}
      BY <2>2
    <3> HIDE DEF t, q, f, b, new, out
    <3> QED
      BY <2>2, <2>0, <3>1, <3>2, <3>3
  <2>3. CASE ~wants
    <3>1. /\ task' = [task EXCEPT ![n] = [t EXCEPT !.output = NativeMerged(t.output, p, b)]]
          /\ solutions' = solutions /\ panicked' = panicked
      BY <1>2, <2>1, <2>3 DEF Query
    <3>2. out = NativeMerged(t.output, p, b) /\ new = {}
      BY <1>5, <2>3
    <3> HIDE DEF t, q, f, b, new, out
    <3> QED
      BY <2>3, <2>0, <3>1, <3>2
  <2> QED
    BY <2>2, <2>3
<1>7. NativeBranchesKnown(n, batches[n], sent, out) /\ ~panicked'
      /\ \A x : Keeps(n, x, m) \/ (x = p /\ b.to_get = {}) \/ x \in new => Keeps(n, x, out)
  <2>1. ~panicked
    BY DEF IInv
  <2>2. CASE wants
    <3>1. /\ ~Conflicting(b.gotten, cm) /\ NativeBranchKnown(n, batches[n], sent, q, f)
          /\ f.to_get = b.to_get \ {cm[1]}
      <4>1. q = UnionWith(p, cm[2].pred) /\ f = NativeFed(b, cm) /\ AssignmentUnion(p, cm[2].pred) # "Nonexistant"
        BY <2>2
      <4> HIDE DEF q, f, b, m, cm
      <4> QED
        BY <1>4, <4>1, WantedFacts
    <3>2. out = WantedInto(m, p, b, q, f) /\ (\A x \in new : x = q /\ f.to_get = {})
      BY <2>2
    <3>3. wants /\ ~panicked'
      BY <1>6, <2>1, <2>2, <3>1
    <3> HIDE DEF q, f, b, m, cm, out, new, wants
    <3>4. NativeBranchesKnown(n, batches[n], sent, out)
      BY <1>4, <3>1, <3>2, WantedKnown
    <3>5. ASSUME NEW x, Keeps(n, x, m) \/ (x = p /\ b.to_get = {}) \/ x \in new PROVE Keeps(n, x, out)
      BY <1>4, <3>1, <3>2, <3>5, WantedKeeps
    <3> QED
      BY <3>3, <3>4, <3>5
  <2>3. CASE ~wants
    <3>1. out = NativeMerged(m, p, b) /\ new = {} /\ ~panicked'
      BY <1>6, <2>1, <2>3
    <3>2. /\ PayloadsUnique(sent) /\ NativeBranchesKnown(n, batches[n], sent, m)
          /\ NativeBranchKnown(n, batches[n], sent, p, b)
      BY <1>4 DEF NativeVisit
    <3> HIDE DEF q, f, b, m, cm, out, new, wants
    <3> QED
      BY <3>1, <3>2, NativeMergedKnown, NativeKeepsMerged
  <2> QED
    BY <2>2, <2>3
<1>8. /\ DOMAIN u = TaskFields /\ u.kind = "native" /\ u.cm = cm
      /\ u.input = Without(t0.input, p) /\ u.swap = <<>> /\ u.output = out
  <2> HIDE DEF t, out
  <2> QED
    BY <1>5 DEF TaskFields
<1> HIDE DEF u, out, new, wants, t, f, q
<1>9. TaskKnown(n, u, start, batches, sent)
  BY <1>3, <1>7, <1>8, NativeWithoutKnown DEF TaskKnown, NativeMapsKnown, TaskFields, Kinds
<1>10. /\ start' = start /\ batches' = batches /\ sent' = sent
       /\ cbranches' = cbranches /\ nbranches' = nbranches /\ net' = net /\ payload_inbox' = payload_inbox
       /\ unrun' = unrun /\ failed' = failed /\ DOMAIN task = Natives /\ DOMAIN solutions = Owners
       /\ n \in Owners /\ HomeOf(n) = n
  BY <1>1 DEF given, branchVars, IInv, Indexed, Owners, HomeOf
<1>11. solutions'[n] = solutions[n] \cup new /\ \A o \in Owners : o # n => solutions'[o] = solutions[o]
  BY <1>6
<1>12. Indexed'
  BY <1>6, <1>10 DEF IInv, Indexed
<1>13. StreamsSent'
  BY <1>10 DEF IInv, StreamsSent, On
<1>14. /\ WorksOn(t0, n) /\ WorksOn(u, n)
       /\ \A o \in Owners : o \notin Natives => ~WorksOn(t0, o) /\ ~WorksOn(u, o)
  BY <1>1, <1>8 DEF WorksOn
<1>15. UnrunFresh'
  <2>1. \A c \in unrun'[n] : ~WorksOn(u, c)
    <3>1. \A c \in unrun[n] : c \in Comps
      BY DEF IInv, UnrunFresh
    <3> QED
      BY <1>10, <1>14, <3>1, HomeAssumption DEF Owners
  <2>2. (\A m2 \in Natives : unrun'[m2] \subseteq unrun[m2]) /\ UNCHANGED <<given, cbranches>>
    BY <1>1, <1>10
  <2> QED
    BY <1>6, <2>1, <2>2, UnrunStep
<1>16. SolutionsExplained'
  <2>1. \A c \in Comps : solutions'[c] = solutions[c]
    BY <1>11, HomeAssumption DEF Owners
  <2>2. UNCHANGED given /\ sent \subseteq sent'
    BY <1>1, <1>10
  <2> QED
    BY <2>1, <2>2, ExplainedStep
<1>17. \A k \in Natives : NativeBranchesKnown(k, batches[k], sent, nbranches[k])'
  BY <1>1, <1>10, NativesStep
<1>18. \A d \in Comps : BranchesKnown(d, start[d], sent, cbranches[d])'
  BY <1>1, <1>10, CompsStep
<1>19. SolutionsKept'
  <2>1. \A o \in Owners : BranchesOf(o)' = BranchesOf(o)
    BY <1>10 DEF BranchesOf
  <2>2. \A o \in Owners : HomeOf(o) # n => solutions'[o] = solutions[o] /\ BranchesOf(o)' = BranchesOf(o)
    BY <1>10, <1>11, <2>1
  <2>3. ASSUME NEW o \in Owners, HomeOf(o) = n, NEW x \in solutions'[o]
        PROVE  Kept(o, x, u, BranchesOf(o)')
    <3>1. CASE o = n
      <4>1. Keeps(n, x, t0.input) \/ Keeps(n, x, m) \/ x \in new
        <5>1. CASE x \in solutions[n]
          <6>1. Kept(n, x, t0, BranchesOf(n))
            BY <1>10, <5>1 DEF IInv, SolutionsKept
          <6>2. Somewhere(n, x, t0)
            BY <1>14, <6>1 DEF Kept
          <6> QED
            BY <1>3, <6>2, KeepsEmpty DEF Somewhere
        <5>2. CASE x \in new
          BY <5>2
        <5> QED
          BY <1>11, <2>3, <3>1, <5>1, <5>2
      <4>2. Somewhere(n, x, u)
        <5>1. CASE Keeps(n, x, t0.input) /\ x # p
          <6>1. Keeps(n, x, Without(t0.input, p))
            BY <5>1, KeepsWithout
          <6> QED
            BY <1>8, <6>1 DEF Somewhere
        <5>2. CASE Keeps(n, x, t0.input) /\ x = p
          <6>1. b.to_get = {}
            BY <5>2 DEF Keeps
          <6> QED
            BY <1>7, <1>8, <5>2, <6>1 DEF Somewhere
        <5>3. CASE Keeps(n, x, m) \/ x \in new
          BY <1>7, <1>8, <5>3 DEF Somewhere
        <5> QED
          BY <4>1, <5>1, <5>2, <5>3
      <4> QED
        BY <1>14, <3>1, <4>2 DEF Kept
    <3>2. CASE o # n
      <4>1. o \notin Natives /\ solutions'[o] = solutions[o]
        BY <1>11, <2>3, <3>2 DEF HomeOf
      <4>2. Kept(o, x, t0, BranchesOf(o))
        BY <2>3, <4>1 DEF IInv, SolutionsKept
      <4> QED
        BY <1>14, <2>1, <4>1, <4>2 DEF Kept
    <3> QED
      BY <3>1, <3>2
  <2> QED
    BY <1>6, <2>2, <2>3, KeptStep
<1> QED
  BY <1>1, <1>6, <1>7, <1>9, <1>10, <1>12, <1>13, <1>15, <1>16, <1>17, <1>18, <1>19, QuietInv

-----------------------------------------------------------------------------
(* The beginning of the round *)

\* What the assumptions say of the batches of n.
LEMMA BatchesTyped ==
    ASSUME GivenTyped, NEW n \in Natives
    PROVE  /\ Len(batches[n]) \in Nat /\ DOMAIN batches[n] = 1..Len(batches[n])
           /\ \A i \in DOMAIN batches[n] :
                /\ i - 1 \in SpecVals
                /\ DOMAIN batches[n][i].to_put \subseteq {ch \in Channels : PutterOf[ch] = n}
                /\ \A ch \in DOMAIN batches[n][i].to_put : batches[n][i].to_put[ch] \in Payloads
                /\ batches[n][i].to_get \subseteq GetChannels(n)
BY BatchesAssumption DEF GivenTyped

\* The predicate of a batch: its index, and a decision on every channel it puts on.
LEMMA BatchPredicateTyped ==
    ASSUME GivenTyped, NEW n \in Natives, NEW i \in DOMAIN batches[n]
    PROVE  /\ BatchPredicate(n, i) \in Speculation
           /\ BatchPredicate(n, i)[n] = i - 1
           /\ \A ch \in DOMAIN batches[n][i].to_put : BatchPredicate(n, i)[ch] = Firing
<1>1. /\ i - 1 \in SpecVals
      /\ DOMAIN batches[n][i].to_put \subseteq {ch \in Channels : PutterOf[ch] = n}
  BY BatchesTyped
<1>2. n \in SpecVars /\ Channels \subseteq SpecVars /\ n \notin Channels
      /\ Silent \in SpecVals /\ Firing \in SpecVals
  BY SpecVarsTyped, BatchesAssumption
<1> DEFINE firing == {port[1] : port \in FiringPorts(batches[n][i])}
           F(v) == IF v = n THEN i - 1
                   ELSE IF v \in firing THEN Firing
                   ELSE IF v \in ChannelsOf(n) THEN Silent ELSE Unassigned
<1>3. BatchPredicate(n, i) = [v \in SpecVars |-> F(v)]
  BY DEF BatchPredicate
<1>4. ASSUME NEW ch \in DOMAIN batches[n][i].to_put PROVE ch \in firing
  <2>1. <<ch, "Putter">> \in FiringPorts(batches[n][i])
    BY DEF FiringPorts
  <2>2. <<ch, "Putter">>[1] = ch
    OBVIOUS
  <2> QED
    BY <2>1, <2>2
<1> HIDE DEF firing
<1>5. \A v \in SpecVars : F(v) \in SpecVals \cup {Unassigned}
  BY <1>1, <1>2
<1>6. BatchPredicate(n, i) \in Predicate
  BY <1>3, <1>5 DEF Predicate
<1>7. \A ch \in Channels : BatchPredicate(n, i)[ch] \in {Silent, Firing, Unassigned}
  BY <1>2, <1>3
<1>8. BatchPredicate(n, i)[n] = i - 1
  BY <1>2, <1>3
<1>9. \A ch \in DOMAIN batches[n][i].to_put : BatchPredicate(n, i)[ch] = Firing
  BY <1>1, <1>2, <1>3, <1>4
<1> HIDE DEF F
<1> QED
  BY <1>6, <1>7, <1>8, <1>9 DEF Speculation

\* A message that a batch puts.
BatchMessage(n, i, ch) == <<ch, [pred |-> BatchPredicate(n, i), payload |-> batches[n][i].to_put[ch]]>>

LEMMA BatchPutsAre ==
    ASSUME NEW n, NEW cm
    PROVE  cm \in BatchPuts(n) <=>
             \E i \in Consistents(n) : \E ch \in DOMAIN batches[n][i].to_put : cm = BatchMessage(n, i, ch)
<1> DEFINE M(i) == {BatchMessage(n, i, ch) : ch \in DOMAIN batches[n][i].to_put}
<1>1. BatchPuts(n) = UNION {M(i) : i \in Consistents(n)}
  BY DEF BatchPuts, BatchMessage
<1>2. \A i : cm \in M(i) <=> \E ch \in DOMAIN batches[n][i].to_put : cm = BatchMessage(n, i, ch)
  OBVIOUS
<1> HIDE DEF M
<1>3. cm \in BatchPuts(n) <=> \E i \in Consistents(n) : cm \in M(i)
  BY <1>1
<1> QED
  BY <1>2, <1>3

LEMMA BatchMessageTyped ==
    ASSUME GivenTyped, NEW n \in Natives, NEW cm \in BatchPuts(n)
    PROVE  /\ cm \in Channels \X [pred : Speculation, payload : Payloads]
           /\ cm[2].pred[cm[1]] = Firing /\ PutterOf[cm[1]] = n
           /\ \E i \in Consistents(n) :
                /\ i \in DOMAIN batches[n] /\ cm[1] \in DOMAIN batches[n][i].to_put
                /\ cm[2].pred[n] = i - 1 /\ cm[2].payload = batches[n][i].to_put[cm[1]]
<1>1. PICK i \in Consistents(n) : \E ch \in DOMAIN batches[n][i].to_put : cm = BatchMessage(n, i, ch)
  BY BatchPutsAre
<1>2. PICK ch \in DOMAIN batches[n][i].to_put : cm = BatchMessage(n, i, ch)
  BY <1>1
<1>3. i \in DOMAIN batches[n]
  BY DEF Consistents
<1>4. ch \in Channels /\ PutterOf[ch] = n /\ batches[n][i].to_put[ch] \in Payloads
  BY <1>3, BatchesTyped
<1>5. /\ BatchPredicate(n, i) \in Speculation /\ BatchPredicate(n, i)[n] = i - 1
      /\ BatchPredicate(n, i)[ch] = Firing
  BY <1>3, BatchPredicateTyped
<1>6. cm[1] = ch /\ cm[2] = [pred |-> BatchPredicate(n, i), payload |-> batches[n][i].to_put[ch]]
  BY <1>2 DEF BatchMessage
<1>7. cm = <<cm[1], cm[2]>>
  BY <1>2, <1>6 DEF BatchMessage
<1> QED
  BY <1>3, <1>4, <1>5, <1>6, <1>7

LEMMA BatchPutsFinite ==
    ASSUME GivenTyped, NEW n \in Natives
    PROVE  IsFiniteSet(BatchPuts(n))
<1> DEFINE D == {x \in (1..Len(batches[n])) \X Channels :
                    x[1] \in Consistents(n) /\ x[2] \in DOMAIN batches[n][x[1]].to_put}
           f == [x \in D |-> BatchMessage(n, x[1], x[2])]
<1>1. IsFiniteSet(D)
  <2>1. Len(batches[n]) \in Nat
    BY BatchesTyped
  <2>2. IsFiniteSet(1..Len(batches[n]))
    BY <2>1, FS_Interval
  <2>3. IsFiniteSet((1..Len(batches[n])) \X Channels)
    BY <2>2, FS_Product, BatchesAssumption
  <2> QED
    BY <2>3, FS_Subset
<1>2. \A x \in D : f[x] \in BatchPuts(n)
  BY BatchPutsAre
<1>3. ASSUME NEW cm \in BatchPuts(n) PROVE \E x \in D : f[x] = cm
  <2>0. PICK i \in Consistents(n) : \E ch \in DOMAIN batches[n][i].to_put : cm = BatchMessage(n, i, ch)
    BY BatchPutsAre
  <2>1. PICK ch \in DOMAIN batches[n][i].to_put : cm = BatchMessage(n, i, ch)
    BY <2>0
  <2>2. i \in 1..Len(batches[n]) /\ ch \in Channels
    BY BatchesTyped DEF Consistents
  <2>3. <<i, ch>> \in D
    BY <2>1, <2>2
  <2>4. f[<<i, ch>>] = cm
    BY <2>1, <2>3
  <2> QED
    BY <2>3, <2>4
<1> HIDE DEF D
<1>4. f \in Surjection(D, BatchPuts(n))
  <2>1. f \in [D -> BatchPuts(n)]
    BY <1>2
  <2> QED
    BY <1>3, <2>1 DEF Surjection
<1> HIDE DEF f
<1> QED
  BY <1>1, <1>4, FS_Surjection

\* In whatever order the hash map is visited, the inbox is a sequence of messages.
LEMMA OrderTyped ==
    ASSUME NEW S, IsFiniteSet(S), NEW order \in SetToSeqs(S)
    PROVE  order \in Seq(S)
<1>1. Cardinality(S) \in Nat
  BY FS_CardinalityType
<1>2. order \in [1..Cardinality(S) -> S]
  BY DEF SetToSeqs
<1> QED
  BY <1>1, <1>2

\* The messages of the batches are put.
LEMMA BatchesSent ==
    ASSUME IInv, NEW n \in Natives, sent' = sent \cup BatchPuts(n), UNCHANGED given
    PROVE  Messages(sent') /\ PayloadsUnique(sent') /\ SentExplained'
<1> DEFINE T == sent'
           S == BatchPuts(n)
<1>1. /\ GivenTyped /\ Messages(sent) /\ PayloadsUnique(sent) /\ SentExplained
      /\ T = sent \cup S
  BY DEF IInv
<1>2. \A cm \in S : /\ cm \in Channels \X [pred : Speculation, payload : Payloads]
                    /\ cm[2].pred[cm[1]] = Firing /\ PutterOf[cm[1]] = n
  BY <1>1, BatchMessageTyped
<1> HIDE DEF S, T
<1>3. Messages(T)
  BY <1>1, <1>2 DEF Messages
<1>4. n \in SpecVars /\ n \notin Comps /\ Unassigned \notin SpecVals
  BY SpecVarsTyped, HomeAssumption, UnassignedAssumption
<1>5. ASSUME NEW cm \in S, NEW dm \in S, cm[1] = dm[1], Consistent(cm[2].pred, dm[2].pred)
      PROVE  cm[2].payload = dm[2].payload
  <2>1. PICK i \in DOMAIN batches[n] : /\ cm[2].pred[n] = i - 1
                                       /\ cm[2].payload = batches[n][i].to_put[cm[1]]
    BY <1>1, BatchMessageTyped DEF S
  <2>2. PICK j \in DOMAIN batches[n] : /\ dm[2].pred[n] = j - 1
                                       /\ dm[2].payload = batches[n][j].to_put[dm[1]]
    BY <1>1, BatchMessageTyped DEF S
  <2>3. i \in Int /\ j \in Int /\ i - 1 \in SpecVals /\ j - 1 \in SpecVals
    BY <1>1, BatchesTyped
  <2>4. i - 1 # Unassigned /\ j - 1 # Unassigned
    BY <1>4, <2>3
  <2>5. i - 1 = j - 1
    BY <1>4, <1>5, <2>1, <2>2, <2>4 DEF Consistent
  <2>6. i = j
    BY <2>3, <2>5
  <2> QED
    BY <1>5, <2>1, <2>2, <2>6
<1>6. \A cm \in sent : PutterOf[cm[1]] = n => cm \in S
  BY <1>1 DEF SentExplained, S
<1>7. PayloadsUnique(T)
  <2> SUFFICES ASSUME NEW x \in T, NEW y \in T, x[1] = y[1], Consistent(x[2].pred, y[2].pred)
               PROVE  x[2].payload = y[2].payload
    BY DEF PayloadsUnique
  <2>1. CASE PutterOf[x[1]] = n
    <3>1. x \in S /\ y \in S
      BY <1>1, <1>6, <2>1
    <3> QED
      BY <1>5, <3>1
  <2>2. CASE PutterOf[x[1]] # n
    <3>1. x \in sent /\ y \in sent
      BY <1>1, <1>2, <2>2
    <3> QED
      BY <1>1, <3>1 DEF PayloadsUnique
  <2> QED
    BY <2>1, <2>2
<1>8. SentExplained'
  <2>1. start' = start /\ batches' = batches
    BY DEF given
  <2>2. ASSUME NEW m \in Natives PROVE BatchPuts(m)' = BatchPuts(m)
    BY <2>1 DEF BatchPuts, BatchPredicate, Consistents, Contradictory
  <2>3. ASSUME NEW m \in Natives, NEW dm \in T, PutterOf[dm[1]] = m PROVE dm \in BatchPuts(m)'
    <3>1. CASE dm \in sent
      BY <1>1, <2>2, <2>3, <3>1 DEF SentExplained
    <3>2. CASE dm \in S
      BY <1>2, <2>2, <2>3, <3>2 DEF S
    <3> QED
      BY <1>1, <3>1, <3>2
  <2>4. ASSUME NEW d \in Comps, NEW dm \in T, PutterOf[dm[1]] = d PROVE Produced(d, start[d], T, dm)
    <3>1. dm \in sent
      BY <1>1, <1>2, <1>4, <2>4
    <3>2. Produced(d, start[d], sent, dm)
      BY <1>1, <2>4, <3>1 DEF SentExplained
    <3> QED
      BY <1>1, <3>2, ProducedMonotone
  <2> QED
    BY <2>1, <2>3, <2>4 DEF SentExplained, T
<1> QED
  BY <1>3, <1>7, <1>8 DEF T

\* The branches that the native begins the round with.
BatchBranches(n) ==
    [p \in {BatchPredicate(n, i) : i \in Consistents(n)} |->
        [index |-> p[n], gotten |-> <<>>, to_get |-> batches[n][p[n] + 1].to_get]]

LEMMA BatchBranchesKnown ==
    ASSUME GivenTyped, NEW n \in Natives, NEW S
    PROVE  NativeBranchesKnown(n, batches[n], S, BatchBranches(n))
<1> DEFINE m == BatchBranches(n)
<1> SUFFICES ASSUME NEW p \in DOMAIN m PROVE NativeBranchKnown(n, batches[n], S, p, m[p])
  BY DEF NativeBranchesKnown
<1>1. PICK i \in Consistents(n) : p = BatchPredicate(n, i)
  BY DEF BatchBranches
<1>2. i \in DOMAIN batches[n]
  BY DEF Consistents
<1>3. i \in Int /\ i - 1 \in SpecVals /\ batches[n][i].to_get \subseteq GetChannels(n)
  BY <1>2, BatchesTyped
<1>4. p \in Speculation /\ p[n] = i - 1
  BY <1>1, <1>2, BatchPredicateTyped
<1>5. i - 1 # Unassigned /\ (i - 1) + 1 = i
  BY <1>3, UnassignedAssumption
<1>6. m[p] = [index |-> i - 1, gotten |-> <<>>, to_get |-> batches[n][i].to_get]
  BY <1>1, <1>4, <1>5 DEF BatchBranches
<1>7. batches[n][i].to_get \subseteq Channels
  BY <1>3 DEF GetChannels
<1>8. DOMAIN m[p].gotten = {} /\ m[p].gotten \in Inboxes(n)
  BY <1>6, EmptyMap, EmptyInbox
<1> HIDE DEF m
<1>9. m[p] \in [index : {p[n]}, gotten : Inboxes(n), to_get : SUBSET Channels]
  BY <1>4, <1>6, <1>7, <1>8
<1>10. m[p].to_get = batches[n][p[n] + 1].to_get \ DOMAIN m[p].gotten
  BY <1>4, <1>5, <1>6, <1>8
<1>11. Covered(m[p].gotten, S, p)
  BY <1>8 DEF Covered
<1> QED
  BY <1>2, <1>4, <1>5, <1>9, <1>10, <1>11 DEF NativeBranchKnown

\* A batch that gets nothing is a solution from the start.
LEMMA BatchBranchesKeep ==
    ASSUME GivenTyped, NEW n \in Natives,
           NEW q \in {BatchPredicate(n, i) : i \in {j \in Consistents(n) : batches[n][j].to_get = {}}}
    PROVE  Keeps(n, q, BatchBranches(n))
<1>1. PICK i \in {j \in Consistents(n) : batches[n][j].to_get = {}} : q = BatchPredicate(n, i)
  OBVIOUS
<1>2. i \in DOMAIN batches[n] /\ i \in Consistents(n)
  BY <1>1 DEF Consistents
<1>3. i \in Int
  BY <1>2, BatchesTyped
<1>4. q[n] + 1 = i
  BY <1>1, <1>2, <1>3, BatchPredicateTyped
<1>5. q \in DOMAIN BatchBranches(n)
  BY <1>1, <1>2 DEF BatchBranches
<1>6. BatchBranches(n)[q].to_get = {}
  BY <1>1, <1>4, <1>5 DEF BatchBranches
<1> QED
  BY <1>5, <1>6 DEF Keeps

LEMMA BeginInv == ASSUME IInv, NEW n \in Natives, Begin(n) PROVE IInv'
<1> DEFINE S == BatchPuts(n)
           m0 == BatchBranches(n)
           Q == {BatchPredicate(n, i) : i \in {j \in Consistents(n) : batches[n][j].to_get = {}}}
<1>1. /\ task[n].kind = "begin"
      /\ nbranches' = [nbranches EXCEPT ![n] = m0]
      /\ solutions' = [solutions EXCEPT ![n] = Q]
      /\ \E order \in SetToSeqs(S) : payload_inbox' = [payload_inbox EXCEPT ![n] = order]
      /\ sent' = sent \cup S
      /\ GiveUp(n) \/ (task' = [task EXCEPT ![n] = Loop] /\ UNCHANGED failed)
      /\ UNCHANGED <<given, cbranches, net, unrun, panicked>>
  BY DEF Begin, BatchBranches
<1>2. DOMAIN failed' = Natives
  BY <1>1, GoesIdle
<1>3. PICK t : Idle(t) /\ task' = [task EXCEPT ![n] = t]
  BY <1>1, GoesIdle
<1>4. \A o : ~WorksOn(t, o)
  BY <1>3, IdleWorks
<1>5. /\ UNCHANGED given /\ UNCHANGED cbranches
      /\ start' = start /\ batches' = batches /\ cbranches' = cbranches
      /\ net' = net /\ unrun' = unrun /\ ~panicked' /\ sent \subseteq sent'
      /\ GivenTyped /\ Indexed /\ StreamsSent /\ n \in Owners
  BY <1>1 DEF given, IInv, Owners
<1>6. Messages(sent') /\ PayloadsUnique(sent') /\ SentExplained'
  BY <1>1, BatchesSent
<1>7. NativeBranchesKnown(n, batches[n], sent', m0)
  BY <1>5, BatchBranchesKnown
<1>8. \A q \in Q : Keeps(n, q, m0)
  BY <1>5, BatchBranchesKeep
<1>9. PICK order \in Seq(S) : payload_inbox' = [payload_inbox EXCEPT ![n] = order]
  BY <1>1, <1>5, BatchPutsFinite, OrderTyped
<1> HIDE DEF S, m0, Q
<1>10. GivenTyped'
  BY <1>5 DEF GivenTyped
<1>11. Indexed'
  BY <1>1, <1>2, <1>3, <1>5, <1>9 DEF Indexed
<1>12. StreamsSent'
  <2>1. ASSUME NEW m \in Natives PROVE payload_inbox'[m] \in Seq(sent')
    <3>1. CASE m = n
      <4>1. order \in Seq(sent')
        BY <1>1, SeqMonotonic
      <4> QED
        BY <1>5, <1>9, <3>1, <4>1 DEF Indexed
    <3>2. CASE m # n
      <4>1. payload_inbox'[m] = payload_inbox[m] /\ payload_inbox[m] \in Seq(sent)
        BY <1>5, <1>9, <3>2 DEF Indexed, StreamsSent
      <4> QED
        BY <1>5, <4>1, SeqMonotonic
    <3> QED
      BY <3>1, <3>2
  <2>2. ASSUME NEW ch \in Channels PROVE net'[ch] \in Seq(On(ch, sent'))
    <3>1. net[ch] \in Seq(On(ch, sent))
      BY <1>5 DEF StreamsSent
    <3>2. On(ch, sent) \subseteq On(ch, sent')
      BY <1>5 DEF On
    <3> QED
      BY <1>5, <3>1, <3>2, SeqMonotonic
  <2>3. \A ch \in Channels : net'[ch] \in Seq(On(ch, sent)')
    BY <2>2 DEF On
  <2> QED
    BY <2>1, <2>3 DEF StreamsSent
<1>13. BranchesOfAllKnown'
  <2>1. ASSUME NEW m \in Natives PROVE NativeBranchesKnown(m, batches'[m], sent', nbranches'[m])
    <3>1. CASE m = n
      BY <1>1, <1>5, <1>7, <3>1 DEF Indexed
    <3>2. CASE m # n
      <4>1. nbranches'[m] = nbranches[m]
        BY <1>1, <1>5, <3>2 DEF Indexed
      <4>2. NativeBranchesKnown(m, batches[m], sent, nbranches[m])
        BY DEF IInv, BranchesOfAllKnown
      <4> QED
        BY <1>5, <4>1, <4>2, NativeMonotone
    <3> QED
      BY <3>1, <3>2
  <2>2. \A c \in Comps : BranchesKnown(c, start[c], sent, cbranches[c])'
    BY <1>5, CompsStep
  <2>3. TaskKnown(n, t, start, batches, sent')
    BY <1>3, IdleKnown
  <2>4. \A m \in Natives : TaskKnown(m, task'[m], start', batches', sent')
    BY <1>3, <1>5, <2>3, TasksStep
  <2> QED
    BY <2>1, <2>2, <2>4 DEF BranchesOfAllKnown
<1>14. UnrunFresh'
  BY <1>3, <1>4, <1>5, UnrunStep
<1>15. \A o \in Owners : o # n => solutions'[o] = solutions[o]
  BY <1>1, <1>5 DEF Indexed
<1>16. SolutionsExplained'
  <2>1. \A c \in Comps : solutions'[c] = solutions[c]
    BY <1>15, HomeAssumption DEF Owners
  <2> QED
    BY <1>5, <2>1, ExplainedStep
<1>17. SolutionsKept'
  <2>1. ASSUME NEW o \in Owners, o # n PROVE BranchesOf(o)' = BranchesOf(o)
    BY <1>1, <1>5, <2>1 DEF BranchesOf, Indexed
  <2>2. ASSUME NEW o \in Owners, HomeOf(o) # n
        PROVE  solutions'[o] = solutions[o] /\ BranchesOf(o)' = BranchesOf(o)
    <3>1. o # n
      BY <2>2 DEF HomeOf
    <3> QED
      BY <1>15, <2>1, <3>1
  <2>3. ASSUME NEW o \in Owners, HomeOf(o) = n, NEW q \in solutions'[o]
        PROVE  Kept(o, q, t, BranchesOf(o)')
    <3>1. CASE o = n
      <4>1. q \in Q /\ nbranches'[n] = m0
        BY <1>1, <1>5, <2>3, <3>1 DEF Indexed
      <4>2. BranchesOf(o)' = m0
        BY <3>1, <4>1 DEF BranchesOf
      <4> QED
        BY <1>4, <1>8, <3>1, <4>1, <4>2 DEF Kept
    <3>2. CASE o # n
      <4>1. Kept(o, q, task[n], BranchesOf(o))
        BY <1>15, <2>3, <3>2 DEF IInv, SolutionsKept
      <4>2. ~WorksOn(task[n], o)
        BY <1>1 DEF WorksOn
      <4>3. Keeps(o, q, BranchesOf(o))
        BY <4>1, <4>2 DEF Kept
      <4> QED
        BY <1>4, <2>1, <3>2, <4>3 DEF Kept
    <3> QED
      BY <3>1, <3>2
  <2> QED
    BY <1>3, <2>2, <2>3, KeptStep
<1> QED
  BY <1>5, <1>6, <1>10, <1>11, <1>12, <1>13, <1>14, <1>16, <1>17 DEF IInv

-----------------------------------------------------------------------------
(* The invariant *)

LEMMA InitialKnown ==
    ASSUME NEW c \in Comps, NEW s \in States[c], NEW S
    PROVE  BranchesKnown(c, s, S, Initial(s))
<1> DEFINE p == NoAssignments
           b == InitialBranch(s)
<1>1. Initial(s) = [x \in {p} |-> b]
  BY DEF Initial
<1>2. p \in Speculation
  BY SpecVarsTyped DEF NoAssignments, Speculation, Predicate
<1>3. /\ b.inbox = <<>> /\ b.did_put_or_get = {}
      /\ b \in [state : States[c], inbox : Inboxes(c), did_put_or_get : SUBSET Ports(c), ended : BOOLEAN]
  BY EmptyInbox DEF InitialBranch
<1>4. Covered(b.inbox, S, p)
  BY <1>3, EmptyMap DEF Covered
<1>5. ExchangesNoted(b, S, p)
  BY <1>3 DEF ExchangesNoted
<1>6. Replays(c, s, b, p)
  BY DEF Replays
<1>7. BranchKnown(c, s, S, p, b)
  BY <1>2, <1>3, <1>4, <1>5, <1>6 DEF BranchKnown
<1> QED
  BY <1>1, <1>7 DEF BranchesKnown

LEMMA InitInv == Init => IInv
<1> SUFFICES ASSUME Init PROVE IInv
  OBVIOUS
<1>1. GivenTyped
  BY DEF Init, GivenTyped
<1>2. Indexed
  BY DEF Init, Indexed
<1>3. sent = {} /\ ~panicked
  BY DEF Init
<1>4. Messages(sent) /\ PayloadsUnique(sent) /\ SentExplained
  BY <1>3 DEF Messages, PayloadsUnique, SentExplained
<1>5. StreamsSent
  BY DEF Init, StreamsSent
<1>6. \A n \in Natives : Idle(task[n])
  BY DEF Init, Idle, Task, TaskFields
<1>7. BranchesOfAllKnown
  <2>1. \A n \in Natives : NativeBranchesKnown(n, batches[n], sent, nbranches[n])
    BY NativeEmptyKnown DEF Init
  <2>2. ASSUME NEW c \in Comps PROVE BranchesKnown(c, start[c], sent, cbranches[c])
    <3>1. start[c] \in States[c]
      BY <1>1, StartTyped
    <3>2. cbranches[c] = Initial(start[c])
      BY DEF Init
    <3> QED
      BY <3>1, <3>2, InitialKnown
  <2>3. \A n \in Natives : TaskKnown(n, task[n], start, batches, sent)
    BY <1>6, IdleKnown
  <2> QED
    BY <2>1, <2>2, <2>3 DEF BranchesOfAllKnown
<1>8. UnrunFresh
  <2> SUFFICES ASSUME NEW n \in Natives, NEW c \in unrun[n]
               PROVE  /\ c \in Comps /\ Home[c] = n
                      /\ cbranches[c] = Initial(start[c]) /\ ~WorksOn(task[n], c)
    BY DEF UnrunFresh
  <2>1. c \in Comps /\ Home[c] = n /\ cbranches[c] = Initial(start[c])
    BY DEF Init
  <2> QED
    BY <1>6, <2>1, IdleWorks
<1>9. SolutionsExplained /\ SolutionsKept
  <2>1. \A o \in Owners : solutions[o] = {}
    BY DEF Init
  <2> QED
    BY <2>1 DEF SolutionsExplained, SolutionsKept, Owners
<1> QED
  BY <1>1, <1>2, <1>3, <1>4, <1>5, <1>7, <1>8, <1>9 DEF IInv

LEMMA StutterInv == IInv /\ UNCHANGED vars => IInv'
<1> SUFFICES ASSUME IInv, UNCHANGED vars PROVE IInv'
  OBVIOUS
<1>1. /\ start' = start /\ batches' = batches /\ nbranches' = nbranches /\ cbranches' = cbranches
      /\ payload_inbox' = payload_inbox /\ net' = net /\ solutions' = solutions /\ unrun' = unrun
      /\ task' = task /\ failed' = failed /\ panicked' = panicked /\ sent' = sent
  BY DEF vars, given, branchVars
<1>2. GivenTyped' /\ Messages(sent)' /\ SentExplained' /\ PayloadsUnique(sent)'
  <2>1. UNCHANGED <<given, sent>>
    BY <1>1 DEF given
  <2> QED
    BY <2>1, QuietStep
<1>3. Indexed' /\ StreamsSent' /\ ~panicked'
  BY <1>1 DEF IInv, Indexed, StreamsSent, On
<1>4. BranchesOfAllKnown'
  BY <1>1 DEF IInv, BranchesOfAllKnown
<1>5. UnrunFresh'
  <2> SUFFICES ASSUME NEW n \in Natives, NEW c \in unrun'[n]
               PROVE  /\ c \in Comps /\ Home[c] = n
                      /\ cbranches'[c] = Initial(start'[c]) /\ ~WorksOn(task'[n], c)
    BY DEF UnrunFresh, Initial, InitialBranch, WorksOn, NoAssignments
  <2> QED
    BY <1>1 DEF IInv, UnrunFresh
<1>6. SolutionsExplained'
  BY <1>1 DEF IInv, SolutionsExplained
<1>7. SolutionsKept'
  <2>1. \A o : BranchesOf(o)' = BranchesOf(o)
    BY <1>1 DEF BranchesOf
  <2> QED
    BY <1>1, <2>1 DEF IInv, SolutionsKept, HomeOf
<1> QED
  BY <1>2, <1>3, <1>4, <1>5, <1>6, <1>7 DEF IInv

LEMMA StepInv == IInv /\ [Next]_vars => IInv'
<1> SUFFICES ASSUME IInv, [Next]_vars PROVE IInv'
  OBVIOUS
<1>1. ASSUME NEW n \in Natives, Step(n) PROVE IInv'
  BY <1>1, BeginInv, RunFirstInv, RunBranchInv, SettleInv, RouteInv, ReceiveInv,
     FeedComponentInv, FeedNativeInv, NativeDoneInv DEF Step
<1>2. CASE Next
  BY <1>1, <1>2 DEF Next
<1>3. CASE UNCHANGED vars
  BY <1>3, StutterInv
<1> QED
  BY <1>2, <1>3

\* What is known of every branch, message and solution of a round holds at all
\* times, for all connectors, components, channels and batches, in whatever order
\* the branches of a hash map are run, fed and merged and however the threads are
\* scheduled: a branch is where a single run from the start of the sync block would
\* be that knows as much, and every message in an inbox was put by somebody who
\* assumed no more than the predicate of the branch.
THEOREM BranchesAreRuns == Spec => []IInv
<1> QED
  BY InitInv, StepInv, PTL DEF Spec

\* feed_msg, "Payload mapping (Predicate,Port) should be unique each round": two
\* messages of a channel that could be part of one solution are equal, what a branch
\* has received is covered by its predicate, and no assertion of feed_msg and
\* drain_branches_to_blocked fails.
THEOREM MessagesAreUnambiguous == Spec => []MessagesUnambiguous
<1>1. IInv => MessagesUnambiguous
  <2> SUFFICES ASSUME IInv PROVE MessagesUnambiguous
    OBVIOUS
  <2>1. ~panicked /\ PayloadsUnique(sent)
    BY DEF IInv
  <2>2. ASSUME NEW c \in Comps, NEW q \in DOMAIN cbranches[c] PROVE Covered(cbranches[c][q].inbox, sent, q)
    BY DEF IInv, BranchesOfAllKnown, BranchesKnown, BranchKnown
  <2> QED
    BY <2>1, <2>2 DEF MessagesUnambiguous, PayloadsUnique, Covered
<1> QED
  BY <1>1, BranchesAreRuns, PTL

\* insert_branch_merging never forgets a solution that was submitted: between two
\* tasks the native has a branch under its predicate with nothing left to get, and a
\* component a branch under that very predicate that has received every message of it.
THEOREM SolutionsAreRetained == Spec => []SolutionsRetained
<1>1. IInv => SolutionsRetained
  <2> SUFFICES ASSUME IInv, NEW o \in Owners, task[HomeOf(o)].kind \in {"loop", "recv"}, NEW q \in solutions[o]
               PROVE  IF o \in Natives THEN q \in Collapses(o, q)
                      ELSE q \in DOMAIN cbranches[o] /\ Gotten(o, q) \subseteq DOMAIN cbranches[o][q].inbox
    BY DEF SolutionsRetained
  <2>1. Kept(o, q, task[HomeOf(o)], BranchesOf(o))
    BY DEF IInv, SolutionsKept
  <2>2. Keeps(o, q, BranchesOf(o))
    BY <2>1 DEF Kept, WorksOn
  <2>3. CASE o \in Natives
    BY <2>2, <2>3, SubsetReflexive DEF Keeps, BranchesOf, Collapses
  <2>4. CASE o \notin Natives
    BY <2>2, <2>4 DEF Keeps, BranchesOf
  <2> QED
    BY <2>3, <2>4
<1> QED
  BY <1>1, BranchesAreRuns, PTL

=============================================================================
