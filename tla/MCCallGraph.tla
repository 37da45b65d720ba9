----------------------------- MODULE MCCallGraph -----------------------------
(***************************************************************************)
(* One call graph, and two at once, of programs with branches, loops,      *)
(* recursion, goroutines and functions without blocks.                     *)
(***************************************************************************)
EXTENDS CallGraph

Line(ins) == <<Block(ins \o <<Return>>, << >>)>>

\* if c { f() } else { go g() }; f(); ext()
Branching ==
    "main" :> <<Block(<<If>>, <<2, 4>>), Block(<<Call("f"), Jump>>, <<3>>),
                Block(<<Call("f"), Call("ext"), Return>>, << >>),
                Block(<<Go("g", 1), Jump>>, <<3>>)>>
    @@ "f" :> Line(<<Call("h"), Call("f")>>) @@ "g" :> Line(<<Call("main"), Call("f")>>)
    @@ "h" :> Line(<< >>) @@ "ext" :> << >>

\* for c { f() }; func() { ... }()
Looping ==
    "main" :> <<Block(<<Jump>>, <<2>>), Block(<<If>>, <<3, 4>>),
                Block(<<Call("f"), Jump>>, <<2>>),
                Block(<<CallClosure("g"), Return>>, << >>)>>
    @@ "f" :> Line(<<Go("g", 1)>>) @@ "g" :> <<Block(<<Panic>>, << >>)>>

\* for { f() }: main does not return.
Endless ==
    "main" :> <<Block(<<Jump>>, <<2>>), Block(<<Call("f"), Jump>>, <<2>>)>>
    @@ "f" :> Line(<<Call("f")>>)

\* f(); f(); defer g(), where f calls h.
Straight ==
    "main" :> Line(<<Call("f"), Call("f"), Defer(Call("g")), RunDefers>>)
    @@ "f" :> Line(<<Call("h")>>) @@ "g" :> Line(<< >>) @@ "h" :> << >>

MCPrograms == {Branching, Looping, Endless, Straight, "init" :> Line(<< >>)}

MCLoaded == UNION {[B -> MCPrograms] : B \in SUBSET Builder \ {{}}}
=============================================================================
