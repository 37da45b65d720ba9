----------------------------- MODULE MCExtract ------------------------------
(***************************************************************************)
(* Programs with the constructs that extraction tells apart: goroutines,   *)
(* calls, selects, tests of received values, close, deferred calls; and    *)
(* control flow graphs: every one of four blocks as main, each block with  *)
(* a send of its own, and every one of three blocks as a function that     *)
(* main calls before a last send, each block with a send or none.          *)
(***************************************************************************)
EXTENDS ExtractRef, ProgramForms

MCRole  == {Main} \cup ({"f", "g", "w"} \X (1..2))
MCNode  == {1}
MCLabel == {Main}

MCForms ==
    {Prog("main" :> <<Block(<<Make(a), Make(b), Go("w", 1), Jump>>, <<2>>),
                      Block(<<RecvOk(a), IfRecv(a)>>, <<3, 4>>),
                      Block(<<Send(b), Jump>>, <<2>>), Block(<<Return>>, << >>)>>
          @@ "w" :> Line(<<Send(a), Close(a)>>)),
     Prog("main" :> Line(<<Make(a), Make(b), Go("f", 1), Go("g", 2), Send(a)>>)
          @@ "f" :> Selecting @@ "g" :> Polling),
     Prog("main" :> Line(<<Make(a), Make(b), Call("f"), Send(b)>>)
          @@ "f" :> Selecting),
     Prog("main" :> Line(<<Make(a), Make(b), Defer(Close(b)), Call("f"), RunDefers>>)
          @@ "f" :> Line(<<Defer(Call("g")), Defer(Close(a)), Send(a), RunDefers>>)
          @@ "g" :> Line(<<Send(b)>>)),
     Prog("main" :> DeferClose),
     Prog("main" :> Line(<<Make(a), Go("f", 1), Recv(a)>>)
          @@ "f" :> Line(<<Go("g", 2), Recv(a)>>)
          @@ "g" :> Line(<<Call("w"), Call("w")>>)
          @@ "w" :> Line(<<Send(a)>>)),
     Prog("main" :> Line(<<Make(a), Call("w"), Close(a)>>)
          @@ "w" :> Line(<<Send(a), Call("w")>>)),
     Prog("main" :> Line(<<Make(a), Call("f"), Send(b)>>) @@ "f" :> Maybe),
     Prog("main" :> Line(<<Call("f"), Go("w", 1), Close(a)>>) @@ "f" :> Loop
          @@ "w" :> Line(<<Call("f"), Call("g")>>) @@ "g" :> << >>),
     Prog("main" :> Line(<<Make(b), Go("f", 1)>>) @@ "f" :> Range2(a, b)),
     Prog("main" :> Line(<<Make(b), Call("g")>>) @@ "g" :> Polling),
     Prog("main" :> Line(<<Make(a), Make(b), Call("f"), Send(d)>>) @@ "f" :> InSelect),
     Prog("main" :> <<Block(<<Make(a), Send(a), Select("s", << >>), Panic>>, << >>)>>),
     Prog("main" :> Line(<<Make(b), Defer(Close(a)), RunDefers>>)),
     "init" :> InitWith(<<Make(a), Call("w")>>) @@ "w" :> Line(<<Send(a)>>)
       @@ "main" :> Line(<<Recv(a), Call("w")>>),
     "init" :> InitWith(<<Make(a)>>),
     Prog("main" :> Line(<<Make(a), Go("w", 1)>>)
          @@ "w" :> Line(<<Send(a), Go("w", 2)>>))}

MCGraphs ==
    {Prog("main" :> Code(g, 1..4, Channel)) : g \in Graphs(4)} \cup
    {Prog("main" :> Line(<<Call("f"), Send(d)>>) @@ "f" :> Code(x[1], x[2], Channel)) :
       x \in Graphs(3) \X SUBSET (1..3)}

MCProgram == MCForms \cup MCGraphs

\* Two functions that call each other.
MCMutual ==
    {Prog("main" :> Line(<<Make(a), Call("f")>>)
          @@ "f" :> Line(<<Send(a), Call("g")>>)
          @@ "g" :> Line(<<Recv(a), Call("f")>>))}
=============================================================================
