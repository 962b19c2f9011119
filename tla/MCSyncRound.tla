---------------------------- MODULE MCSyncRound -----------------------------
(***************************************************************************)
(* SyncRound with two connectors A and B.  Component c of A gets from the      *)
(* native of B and puts to component d of B, which puts to the native of A and *)
(* back to c.  The native of A also has a channel to itself.                   *)
(*                                                                            *)
(* A component is a program; its state is the next instruction and the last    *)
(* payload it read.                                                           *)
(***************************************************************************)
EXTENDS SyncRound

CONSTANTS A, B, c, d, y, e, f, g, h, k, l, m

MCNatives == {A, B}
MCComps == {c, d}
MCHome == [x \in MCComps |-> IF x = c THEN A ELSE B]
MCChannels == {e, f, g, h, k, l, m}
MCSpecVars == MCChannels \cup MCNatives
MCPutterOf == [x \in MCChannels |-> CASE x \in {e, f} -> B [] x = g -> c [] x = l -> A [] OTHER -> d]
MCGetterOf == [x \in MCChannels |-> CASE x = g -> d [] x \in {h, l, m} -> A [] OTHER -> c]

\* Instructions: the calls of SyncProtoContext, and a test of what was read.
Fires(ch, yes, no) == [op |-> "fires", channel |-> ch, yes |-> yes, no |-> no]
GetI(ch, next) == [op |-> "get", channel |-> ch, next |-> next]
PutI(ch, next) == [op |-> "put", channel |-> ch, next |-> next]
Zero(yes, no) == [op |-> "zero", yes |-> yes, no |-> no]
End == [op |-> "end"]
Fail == [op |-> "fail"]

Code == <<
    End,                                                             \* 1
    Fail,                                                            \* 2
    GetI(f, 4), PutI(g, 5), GetI(e, 1),                              \* 3: g before e
    Fires(e, 7, 8), GetI(e, 9), Fires(f, 10, 1), Fires(f, 2, 11),    \* 6: a merger
    GetI(f, 11), PutI(g, 1),
    GetI(e, 13), Zero(14, 2), GetI(f, 11),                           \* 12: e must be 0
    Fires(g, 16, 1), GetI(g, 17), PutI(h, 1),                        \* 15: d, if asked
    GetI(g, 19), Zero(1, 17),                                        \* 18: d, always
    Fires(g, 21, 1), GetI(f, 22), Fires(k, 23, 11), GetI(k, 11),     \* 20: asks when answered
    Fires(g, 25, 1), PutI(k, 16),                                    \* 24: d, answers first
    GetI(e, 27), PutI(g, 28), GetI(k, 1),                            \* 26: waits for an answer
    GetI(g, 30), PutI(k, 17),                                        \* 29: d, answers
    GetI(g, 32), PutI(m, 17),                                        \* 31: d, to A twice
    GetI(f, 34), PutI(g, 35), PutI(h, 36), GetI(m, 37),              \* 33: two puts, then
    Fires(l, 2, 38), Fires(k, 39, 2), GetI(k, 1),                    \*     two questions
    GetI(g, 41), GetI(h, 42), PutI(m, 1),                            \* 40: d, answers both
    PutI(k, 1),                                                      \* 43: y, always
    Fires(g, 45, 1), GetI(g, 46), PutI(k, 1)                         \* 44: d, answers if asked
    >>

RECURSIVE MCRun(_, _, _)
MCRun(x, b, p) ==
    LET i == Code[b.state.pc]
        Goto(pc) == [b EXCEPT !.state.pc = pc]
        Hit(blocker, payload) ==
            [blocker |-> blocker, channel |-> IF blocker \in {"SyncBlockEnd", "Inconsistent"} THEN e ELSE i.channel,
             payload |-> payload, branch |-> b]
    IN  CASE i.op = "end" -> Hit("SyncBlockEnd", 0)
          [] i.op = "fail" -> Hit("Inconsistent", 0)
          [] i.op = "zero" -> MCRun(x, Goto(IF b.state.reg = 0 THEN i.yes ELSE i.no), p)
          [] i.op = "fires" ->
               IF p[i.channel] = Unassigned THEN Hit("CouldntCheckFiring", 0)
               ELSE MCRun(x, Goto(IF p[i.channel] = Firing THEN i.yes ELSE i.no), p)
          [] i.op = "get" ->
               IF i.channel \notin DOMAIN b.inbox THEN Hit("CouldntReadMsg", 0)
               ELSE MCRun(x, [b EXCEPT !.state = [pc |-> i.next, reg |-> b.inbox[i.channel]],
                                       !.did_put_or_get = @ \cup {<<i.channel, "Getter">>}], p)
          [] i.op = "put" ->
               IF <<i.channel, "Putter">> \in b.did_put_or_get THEN MCRun(x, Goto(i.next), p)
               ELSE Hit("PutMsg", b.state.reg)

At(pc) == [pc |-> pc, reg |-> 0]

Batch(put, get) == [to_put |-> put, to_get |-> get]
Idle == Batch(<<>>, {})
PutOn(ch, v) == [x \in {ch} |-> v]

\* c and d enter at pcc and pcd; the batches of A and of B
Situation(pcc, pcd, ofA, ofB) ==
    [start |-> [x \in MCComps |-> At(IF x = c THEN pcc ELSE pcd)],
     batches |-> [n \in MCNatives |-> IF n = A THEN ofA ELSE ofB]]

MCSituations ==
    LET H == Batch(<<>>, {h})
        Half == Batch(PutOn(l, 0), {})
        E(v) == Batch(PutOn(e, v), {})
        F(v) == Batch(PutOn(f, v), {})
        EF(v, w) == Batch([x \in {e, f} |-> IF x = e THEN v ELSE w], {})
    IN  {Situation(3, 15, <<H>>, <<Idle, EF(1, 1)>>),
         Situation(3, 18, <<Idle, H>>, <<EF(0, 0), F(1)>>),
         Situation(6, 15, <<Idle, H>>, <<E(0), F(1)>>),
         Situation(6, 18, <<H>>, <<EF(0, 0), F(1)>>),
         Situation(12, 15, <<H>>, <<EF(1, 1)>>),
         Situation(12, 18, <<Half, Batch(PutOn(l, 1), {h, l})>>, <<EF(1, 1), EF(0, 1)>>),
         Situation(3, 31, <<Batch(<<>>, {h, m}), H>>, <<EF(0, 0)>>),
         Situation(12, 15, <<Half>>, <<EF(0, 0)>>),
         Situation(20, 15, <<H>>, <<Idle, F(0)>>),
         Situation(20, 24, <<Idle, H>>, <<F(1)>>)}

\* c asks d, and both run on one connector
MCHomeLocal == [x \in MCComps |-> A]
MCAsking == {Situation(26, 29, <<Batch(<<>>, {h})>>, <<Batch(PutOn(e, 0), {})>>)}

\* the component that h leads to has exited
MCGetterOfExited == [MCGetterOf EXCEPT ![h] = Exited]
MCToExited == {Situation(3, 15, <<Idle>>, <<Batch([x \in {e, f} |-> 0], {})>>)}

\* c puts twice to d, which answers, and gets from a third component, y
MCCompsLagging == {c, d, y}
MCHomeLagging == [z \in MCCompsLagging |-> IF z = d THEN B ELSE A]
MCPutterOfLagging ==
    [ch \in MCChannels |-> CASE ch \in {e, f} -> B [] ch \in {g, h} -> c [] ch = l -> A
                              [] ch = k -> y [] ch = m -> d]
MCGetterOfLagging == [ch \in MCChannels |-> IF ch \in {g, h} THEN d ELSE c]
MCLagging ==
    {[start |-> [z \in MCCompsLagging |-> At(CASE z = c -> 33 [] z = d -> 40 [] z = y -> 43)],
      batches |-> [n \in MCNatives |-> IF n = A THEN <<Idle>> ELSE <<Batch(PutOn(f, 0), {})>>]]}
=============================================================================
