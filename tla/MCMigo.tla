------------------------------- MODULE MCMigo -------------------------------
(***************************************************************************)
(* Programs with the statements that the MiGo inference tells apart, loops  *)
(* that count upwards and downwards at and about their boundaries, and     *)
(* control flow graphs as main, each block with a send of its own: every   *)
(* one of four blocks, and every one of three and of four blocks with a    *)
(* block that sends on each branch that would lead to a join.              *)
(***************************************************************************)
EXTENDS MigoRef, ProgramForms

CONSTANT side          \* the channel of the blocks on branches

MCRole  == {"main"}
MCNode  == {1}
MCLabel == {"main"}

Make2 == <<Make(a), Make(b)>>

\* Every statement as main, after two channels are made, as a function that
\* main calls, and as a goroutine.
Forms == {Range2(a, b), Selecting, Polling, Polled(TRUE), Polled(FALSE), Maybe,
          Either, Loop, Forever, Nested, DeferClose}
Placed(f) ==
    {Prog("main" :> Line(Make2 \o <<Call("f"), Send(b)>>) @@ "f" :> f),
     Prog("main" :> Line(Make2 \o <<Go("f", 1), Send(b)>>) @@ "f" :> f)}

MCForms ==
    UNION {Placed(f) : f \in Forms} \cup
    {Prog("main" :> Line(Make2 \o <<Go("f", 1), Call("f"), Call("g"), Recv(a)>>)
          @@ "f" :> Either @@ "g" :> Line(<<Call("f"), Close(b)>>)),
     Prog("main" :> Line(Make2 \o <<Call("g"), Call("w"), Recv(a)>>)
          @@ "g" :> << >> @@ "w" :> Line(<<Go("f", 1), Go("f", 2)>>) @@ "f" :> Loop),
     Prog("main" :> Line(Make2 \o <<Call("f")>>)
          @@ "f" :> Line(<<Send(a), Call("g")>>)
          @@ "g" :> Line(<<Recv(a), Call("f")>>)),
     Prog("main" :> Line(Make2 \o <<Call("main"), CallClosure("f")>>)
          @@ "f" :> Line(<<Send(a)>>)),
     Prog("main" :> Line(<<Make(b), Send(a)>>)),
     Prog("main" :> Selecting),
     Prog("main" :> Line(Make2 \o <<Defer(Close(a)), Defer(Call("f")), Defer(Call("g")),
                                    RunDefers>>)
          @@ "f" :> Line(<<Send(a)>>) @@ "g" :> << >>),
     Prog("main" :> Line(Make2 \o <<Defer(Close(a)), Defer(Call("g")), Recv(a), RunDefers>>)
          @@ "g" :> << >>),
     Prog("main" :> Line(Make2 \o <<Call("f")>>)
          @@ "f" :> Line(<<Send(a), Defer(Call("g")), RunDefers>>)
          @@ "g" :> Line(<<Defer(Call("f")), RunDefers>>)),
     Prog("main" :> Line(Make2 \o <<Defer(Call("f")), RunDefers>>)
          @@ "f" :> Line(<<Send(a), Call("f"), Call("g")>>)
          @@ "g" :> Line(<<Call("f")>>)),
     "init" :> InitWith(Make2) @@ "main" :> Line(<<Go("f", 1), Recv(a)>>)
       @@ "f" :> Either,
     "init" :> InitWith(<< >>)}
    \cup {Prog("main" :> Line(Make2 \o <<Call("f")>>) @@ "f" :> f) :
            f \in {Counting(Const(0), "lss", 3, Add(1), << >>),
                   Counting(Const(0), "lss", 3, Add(1), <<LenOf>>)}}

-----------------------------------------------------------------------------
AsMain(code) ==
    "init" :> InitWith(<<Make(a), Make(b), Make(c), Make(d), Make(side)>>) @@ "main" :> code

\* for i := from; i < n; i += step, and the same with <=.
MCUpwards ==
    {AsMain(Counting(Const(from), op, n, Add(step), << >>)) :
       from \in -1..1, op \in {"lss", "leq"}, n \in -1..2, step \in 1..3}

\* for i := from; i > n; i -= step, and the same with >=.
MCDownwards ==
    {AsMain(Counting(Const(from), op, n, Sub(step), << >>)) :
       from \in 0..2, op \in {"gtr", "geq"}, n \in -1..1, step \in 1..2}

\* for i := 1; i < 3; i *= 2
MCDoubling == {AsMain(Counting(Const(1), "lss", 3, Mul(2), << >>))}

MCGraphs ==
    {AsMain(Code(g, 1..4, Channel)) : g \in Graphs(4)} \cup
    {AsMain(Split(g, Channel, side)) : g \in Graphs(3) \cup Graphs(4)}

MCProgram == MCForms \cup MCUpwards \cup MCDownwards \cup MCDoubling \cup MCGraphs
=============================================================================
