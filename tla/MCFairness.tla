----------------------------- MODULE MCFairness -----------------------------
(***************************************************************************)
(* The fairness analysis of control flow graphs of up to four blocks and   *)
(* of small call graphs.  As golang.org/x/tools builds them: no block      *)
(* leads to the entry, and every block can be reached from it.             *)
(***************************************************************************)
EXTENDS Fairness, FiniteSets, TLC

CONSTANTS c1, c2, c3   \* channels; c1 is closed, c2 may be c1, c3 is another

Chan(c) == [chan |-> c, elem |-> IF c = c3 THEN "int" ELSE "bool"]
Op(kind, c) == [kind |-> kind, chan |-> c, elem |-> Chan(c).elem]

Loaded(root, children, blocks) ==
    [root |-> root, children |-> children, blocks |-> blocks,
     ops |-> {Op("close", c1), Op("recv", c2), Op("recv", c3), Op("send", c3)},
     pointsTo |-> c1 :> {"m1"} @@ c2 :> {"m1", "m2"} @@ c3 :> {"m3"}]

Block(comment, ins, cond, ch, succs) ==
    [comment |-> comment, ins |-> ins, cond |-> cond, ch |-> Chan(ch), succs |-> succs]

\* The order of two successors makes no difference to the analysis.
Pairs(T) == {s \in T \X T : s[1] <= s[2]}

RangeIndex(T) ==
    {Block("rangeindex.loop", <<"index", "other", "if">>, "op", c1, s) : s \in Pairs(T)}
RangeChan(T, ins, chans) ==
    {Block("rangechan.loop", ins, "value", c, s) : c \in chans, s \in Pairs(T)}
For(T, inss, conds) ==
    {Block("for.loop", ins, cond, c1, s) : ins \in inss, cond \in conds, s \in Pairs(T)}
If(T, inss, conds) ==
    {Block("other", ins, cond, c1, s) : ins \in inss, cond \in conds, s \in Pairs(T)}
Jump(T) ==
    {Block("other", ins, "value", c1, <<s>>) : ins \in {<<"jump">>, <<"other", "jump">>}, s \in T}
Return == Block("other", <<"return">>, "value", c1, << >>)

\* Every block that leads to blocks of T.
AnyBlock(T) ==
    RangeIndex(T) \cup RangeChan(T, <<"recv", "other", "if">>, {c1, c2, c3})
    \cup RangeChan(T, <<"index", "recv", "if">>, {c1})
    \cup For(T, {<<"index", "other", "if">>, <<"phi", "other", "if">>, <<"if">>}, Conds)
    \cup If(T, {<<"other", "if">>, <<"if">>}, Conds) \cup Jump(T) \cup {Return}

\* A block of each way in which a loop is found or judged.
SomeBlock(T) ==
    RangeChan(T, <<"recv", "other", "if">>, {c3})
    \cup For(T, {<<"index", "other", "if">>, <<"phi", "other", "if">>}, {"op"})
    \cup If(T, {<<"other", "if">>}, {"op"}) \cup Jump(T) \cup {Return}

Enter == Block("other", <<"other", "jump">>, "value", c1, <<2>>)
Choose == Block("other", <<"other", "if">>, "op", c1, <<2, 3>>)

AllReached(bs) ==
    \A S \in SUBSET (1..Len(bs)) :
        /\ 1 \in S
        /\ \A k \in S : \A s \in 1..Len(bs[k].succs) : bs[k].succs[s] \in S
        => S = 1..Len(bs)

Graphs ==
    {bs \in {<<Enter, x>> : x \in AnyBlock({2})}
            \cup {<<e, x, y>> : e \in {Enter, Choose}, x \in AnyBlock({2, 3}), y \in SomeBlock({2, 3})}
            \cup {<<e, x, y>> : e \in {Enter, Choose}, x \in SomeBlock({2, 3}), y \in AnyBlock({2, 3})}
            \cup {<<Enter, x, y, z>> : x \in SomeBlock(2..4), y \in SomeBlock(2..4),
                                       z \in SomeBlock(2..4)} :
        AllReached(bs)}

\* A few functions: no loop, a counted loop, for { }, a loop that never ends,
\* a range over a channel that is never closed.
Functions ==
    {<<Return>>,
     <<Enter, Block("for.loop", <<"index", "other", "if">>, "op", c1, <<3, 4>>),
       Block("other", <<"other", "jump">>, "value", c1, <<2>>), Return>>,
     <<Enter, Block("other", <<"jump">>, "value", c1, <<2>>)>>,
     <<Enter, Block("other", <<"other", "jump">>, "value", c1, <<2>>)>>,
     <<Enter, Block("rangechan.loop", <<"recv", "other", "if">>, "value", c3, <<3, 4>>),
       Block("other", <<"other", "jump">>, "value", c1, <<2>>), Return>>}

\* Build makes no deeper graphs: the callees of main have no children.
CallGraph == "main" :> <<"f", "g">> @@ "f" :> << >> @@ "g" :> << >>

MCInput ==
    {Loaded("main", "main" :> << >>, "main" :> bs) : bs \in Graphs}
    \cup {Loaded("main", CallGraph, bs) : bs \in [{"main", "f", "g"} -> Functions]}
    \cup {Loaded(NoFn, << >>, << >>)}
=============================================================================
