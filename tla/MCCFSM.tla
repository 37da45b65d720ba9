------------------------------- MODULE MCCFSM -------------------------------
(***************************************************************************)
(* Every session of one role with four nodes and one channel; and sessions *)
(* of several roles and channels, of the shapes that extraction writes for *)
(* small programs, and three that only users of the API of package         *)
(* sesstype can build (no role, an unknown channel, a goto before its      *)
(* label).                                                                 *)
(***************************************************************************)
EXTENDS CFSMRef

CONSTANTS main, worker, idle, a, b, loop, other

MCNode == 1..20

N(k, x, kids) == [kind |-> k, arg |-> x, kids |-> kids]

\* Trees of four nodes in preorder, as functions from a node to its parent.
Parents ==
    {p \in [2..4 -> 1..3] :
        \A i \in 2..4 :
           /\ p[i] < i
           /\ \/ p[i] = i - 1
              \/ i > 2 /\ p[i] = p[i-1]
              \/ i > 3 /\ p[i-1] > 1 /\ p[i] = p[p[i-1]]
              \/ p[i] = 1}

Ops == {<<"send", a>>, <<"stop", a>>, <<"end", a>>,
        <<"skip", a>>, <<"label", loop>>, <<"goto", loop>>}

\* Label names are used once, and gotos come after their label.
Labelled(o) ==
    LET named(k) == {n \in 1..4 : o[n][1] = k}
    IN  /\ Cardinality(named("label")) <= 1
        /\ \A g \in named("goto") : \E l \in named("label") : l < g

SmallTrees == Parents \X {o \in [1..4 -> Ops] : Labelled(o)}

SmallSession(x) ==
    [root |-> [r \in {main} |-> 1],
     chans |-> {a},
     kind |-> [n \in MCNode |-> IF n \in 1..4 THEN x[2][n][1] ELSE "skip"],
     arg |-> [n \in MCNode |-> IF n \in 1..4 THEN x[2][n][2] ELSE a],
     kids |-> [n \in MCNode |-> IF n \in 1..4
                                THEN SelectSeq(<<2, 3, 4>>, LAMBDA i : x[1][i] = n) ELSE << >>]]

\* The nodes of each role are given in sequence, as records; kids are offsets.
\* The session whose roles have the trees listed, laid out one after the
\* other on MCNode.  The root of a tree is its first node.
Layout(trees, cs) ==
    LET rs == DOMAIN trees
        base == CHOOSE f \in [rs -> {0, 7, 14}] :
                  \A r1, r2 \in rs : f[r1] = f[r2] => r1 = r2
        owner(n) == {r \in rs : n > base[r] /\ n <= base[r] + Len(trees[r])}
        at(n) == LET r == CHOOSE x \in owner(n) : TRUE
                 IN  [trees[r][n - base[r]] EXCEPT !.kids =
                        [i \in 1..Len(@) |-> @[i] + base[r]]]
        node == [n \in MCNode |->
                   IF owner(n) = {} THEN N("skip", a, << >>) ELSE at(n)]
    IN  [root |-> [r \in rs |-> base[r] + 1],
         chans |-> cs,
         kind |-> [n \in MCNode |-> node[n].kind],
         arg |-> [n \in MCNode |-> node[n].arg],
         kids |-> [n \in MCNode |-> node[n].kids]]

\* ch <- x, close(ch)
Producer == <<N("skip", a, <<2>>), N("send", a, <<3>>), N("end", a, << >>)>>
\* for v := range ch, v, ok := <-ch
Ranger == <<N("label", loop, <<2, 4>>), N("recv", a, <<3>>),
            N("goto", loop, << >>), N("stop", a, << >>)>>
\* for { ch <- x }
Sender == <<N("label", loop, <<2>>), N("send", a, <<3>>), N("goto", loop, << >>)>>
\* for { a <- x; <-b }, the sender of examples/altbit
Alternate == <<N("label", loop, <<2>>), N("send", a, <<3>>), N("recv", b, <<4>>),
               N("goto", loop, << >>)>>
Echo == <<N("label", loop, <<2>>), N("recv", a, <<3>>), N("send", b, <<4>>),
          N("goto", loop, << >>)>>
\* if c { b <- x } else { for { a <- x } }, after a receive
Branch == <<N("recv", b, <<2, 4>>), N("skip", b, <<3>>), N("send", b, << >>),
            N("label", loop, <<5>>), N("send", a, <<6>>), N("goto", loop, << >>)>>
\* if c { a <- x }; b <- x: the join is a label
Join == <<N("skip", a, <<2, 6>>), N("send", a, <<3>>), N("label", other, <<4>>),
          N("send", b, << >>), N("skip", a, << >>), N("skip", a, <<7>>),
          N("goto", other, << >>)>>
Receiver == <<N("recv", a, <<2>>), N("recv", b, << >>)>>
Silent == <<N("skip", a, <<2>>), N("label", loop, <<3>>), N("goto", loop, << >>)>>
\* a goto written before its label
Early == <<N("goto", loop, <<2>>), N("send", a, << >>)>>

Pair(x, y) == [r \in {main, worker} |-> IF r = main THEN x ELSE y]
Three(x, y, z) == [r \in {main, worker, idle} |->
                     CASE r = main -> x [] r = worker -> y [] OTHER -> z]

Written ==
    {Layout(Pair(Ranger, Producer), {a}),
     Layout(Pair(Sender, Receiver), {a, b}),
     Layout(Pair(Alternate, Echo), {a, b}),
     Layout(Pair(Branch, Producer), {a, b}),
     Layout(Pair(Join, Receiver), {a, b}),
     Layout(Three(Producer, Ranger, Silent), {a}),
     Layout(Three(Join, Echo, Alternate), {a, b}),
     Layout(Three(Silent, Silent, Silent), {a, b}),
     Layout([r \in {} |-> << >>], {a}),
     Layout(Pair(Join, Receiver), {a}),
     Layout(Pair(Early, Receiver), {a, b})}

MCSession == Written \cup {SmallSession(x) : x \in SmallTrees}
=============================================================================
