---------------------------- MODULE ProgramForms ----------------------------
(***************************************************************************)
(* The blocks that statements of Go compile to, for small instances; most  *)
(* are what small functions of examples/ compile to.                       *)
(***************************************************************************)
EXTENDS Programs

CONSTANTS a, b, c, d   \* channels

Channel == <<a, b, c, d>>

\* What package initialisation compiles to, with the instructions ins.
InitWith(ins) ==
    <<Block(<<If>>, <<3, 2>>), Block(ins \o <<Jump>>, <<3>>), Block(<<Return>>, << >>)>>

Line(ins) == <<Block(ins \o <<Return>>, << >>)>>

\* A program whose init does nothing.
Prog(fs) == "init" :> InitWith(<< >>) @@ fs

\* for v := range ch { out <- v }
Range2(ch, out) ==
    <<Block(<<Jump>>, <<2>>), Block(<<RecvOk(ch), IfRecv(ch)>>, <<3, 4>>),
      Block(<<Send(out), Jump>>, <<2>>), Block(<<Return>>, << >>)>>

\* for { select { case <-a: b <- x  case b <- x: return } }
Selecting ==
    <<Block(<<Jump>>, <<2>>),
      BlockOf("for.body", <<Select("s", <<Recv(a), Send(b)>>), IfSel("s", 0)>>, <<3, 4>>),
      Block(<<Send(b), Jump>>, <<2>>),
      Block(<<IfSel("s", 1)>>, <<5, 6>>),
      Block(<<Return>>, << >>),
      Block(<<Panic>>, << >>)>>

\* select { case <-a: b <- x  case b <- x: default: a <- x }; close(a)
Polling ==
    <<Block(<<SelectElse("t", <<Recv(a), Send(b)>>), IfSel("t", 0)>>, <<2, 3>>),
      Block(<<Send(b), Jump>>, <<4>>),
      Block(<<IfSel("t", 1)>>, <<4, 5>>),
      BlockOf("select.done", <<Close(a), Return>>, << >>),
      Block(<<Send(a), Jump>>, <<4>>)>>

\* select { case <-a: a <- x  case b <- x: b <- x  default: ... }; <-b where
\* the default does nothing, or sends.
Polled(empty) ==
    <<Block(<<SelectElse("s", <<Recv(a), Send(b)>>), IfSel("s", 0)>>, <<2, 3>>),
      Block(<<Send(a), Jump>>, <<5>>),
      Block(<<IfSel("s", 1)>>, <<4, IF empty THEN 5 ELSE 6>>),
      Block(<<Send(b), Jump>>, <<5>>),
      BlockOf("select.done", <<Recv(b), Return>>, << >>)>>
    \o (IF empty THEN << >> ELSE <<Block(<<Send(b), Send(a), Jump>>, <<5>>)>>)

\* select { case <-a: select { case b <- x: case <-a: default: b <- x } default: }; c <- x
InSelect ==
    <<Block(<<SelectElse("s", <<Recv(a)>>), IfSel("s", 0)>>, <<2, 4>>),
      Block(<<SelectElse("t", <<Send(b), Recv(a)>>), IfSel("t", 0)>>, <<4, 3>>),
      Block(<<IfSel("t", 1)>>, <<4, 5>>),
      BlockOf("select.done", <<Send(c), Return>>, << >>),
      Block(<<Send(b), Jump>>, <<4>>)>>

\* if c { a <- x }
Maybe == <<Block(<<If>>, <<2, 3>>), Block(<<Send(a), Jump>>, <<3>>),
           Block(<<Return>>, << >>)>>

\* if c { a <- x } else { b <- x }; <-a
Either == <<Block(<<If>>, <<2, 4>>), Block(<<Send(a), Jump>>, <<3>>),
            Block(<<Recv(a), Return>>, << >>), Block(<<Send(b), Jump>>, <<3>>)>>

\* for c { a <- x }; <-b
Loop == <<Block(<<Jump>>, <<2>>), BlockOf("for.loop", <<If>>, <<3, 4>>),
          BlockOf("for.body", <<Send(a), Jump>>, <<2>>),
          BlockOf("for.done", <<Recv(b), Return>>, << >>)>>

\* for { a <- x; <-b }
Forever == <<Block(<<Jump>>, <<2>>),
             BlockOf("for.body", <<Send(a), Recv(b), Jump>>, <<2>>)>>

\* for c { for d { a <- x }; <-b }; for e { b <- x }
Nested ==
    <<Block(<<Jump>>, <<2>>),
      BlockOf("for.loop", <<If>>, <<3, 7>>),
      BlockOf("for.body", <<Jump>>, <<4>>),
      BlockOf("for.loop", <<LenOf, If>>, <<5, 6>>),
      BlockOf("for.body", <<Send(a), Jump>>, <<4>>),
      BlockOf("for.done", <<Recv(b), Jump>>, <<2>>),
      BlockOf("for.done", <<Jump>>, <<8>>),
      BlockOf("for.loop", <<If>>, <<9, 10>>),
      BlockOf("for.body", <<Send(b), Jump>>, <<8>>),
      BlockOf("for.done", <<Return>>, << >>)>>

\* for i := from; i op n; i = again(i) { a <- x }; <-b, with the instructions
\* more in the head.
Counting(from, op, n, again, more) ==
    <<Block(<<Jump>>, <<4>>),
      BlockOf("for.body", <<Send(a), Jump>>, <<4>>),
      BlockOf("for.done", <<Recv(b), Return>>, << >>),
      BlockOf("for.loop", <<Phi("i", from, again)>> \o more \o
                          <<Cmp(op, "c", "i", n), IfCmp("c")>>, <<2, 3>>)>>

\* defer close(a); if c { a <- x; return }
DeferClose ==
    <<Block(<<Make(a), Defer(Close(a)), If>>, <<2, 3>>),
      Block(<<Send(a), RunDefers, Return>>, << >>),
      Block(<<RunDefers, Return>>, << >>)>>

-----------------------------------------------------------------------------
\* The successors of a block in a graph of n blocks; no edge enters the first.
Edges(n) == {<< >>} \cup {<<t>> : t \in 2..n}
                    \cup {t \in (2..n) \X (2..n) : t[1] # t[2]}

Terminator(succs) ==
    CASE Len(succs) = 0 -> Return [] Len(succs) = 1 -> Jump [] OTHER -> If

\* The graphs of n blocks, numbered as a search in breadth reaches them.
Graphs(n) ==
    {g \in [1..n -> Edges(n)] :
       LET into(k) == {e \in (1..n) \X (1..2) : e[2] <= Len(g[e[1]]) /\ g[e[1]][e[2]] = k}
           rank(e) == 2 * e[1] + e[2]
       IN  \A k \in 2..n :
              \E e \in into(k) :
                 /\ e[1] < k
                 /\ k > 2 => \E f \in into(k-1) :
                                \A h \in into(k) : rank(f) < rank(h)}

\* The code of graph g, where the blocks of sends send on the channel ch of
\* their number.
Code(g, sends, ch) ==
    [k \in DOMAIN g |->
       Block((IF k \in sends THEN <<Send(ch[k])>> ELSE << >>)
               \o <<Terminator(g[k])>>, g[k])]

\* The branches of graph g to blocks that other edges enter.
JoinBranches(g) ==
    LET out == {t \in (1..Len(g)) \X (1..2) : t[2] <= Len(g[t[1]])}
    IN  {t \in out : /\ Len(g[t[1]]) = 2
                     /\ \E u \in out \ {t} : g[u[1]][u[2]] = g[t[1]][t[2]]}

\* The code of g where every block sends on the channel ch of its number,
\* with a block that sends on the channel side on each of those branches.
Split(g, ch, side) ==
    LET S == JoinBranches(g)
        n == Len(g)
        no(t)    == n + Cardinality({u \in S : 2 * u[1] + u[2] <= 2 * t[1] + t[2]})
        at(m)    == CHOOSE t \in S : no(t) = m
        to(k, j) == IF <<k, j>> \in S THEN no(<<k, j>>) ELSE g[k][j]
    IN  Code([k \in 1..n |-> [j \in DOMAIN g[k] |-> to(k, j)]], 1..n, ch)
        \o [m \in 1..Cardinality(S) |->
              Block(<<Send(side), Jump>>, <<g[at(n + m)[1]][at(n + m)[2]]>>)]
=============================================================================
