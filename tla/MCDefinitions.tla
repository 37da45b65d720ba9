--------------------------- MODULE MCDefinitions ----------------------------
(***************************************************************************)
(* Programs that store, load, pass, return, capture and convert channels.  *)
(* Two families are complete: every sequence of three operations on two    *)
(* fields or elements, where the variable is made or in a function that    *)
(* gets it, and every choice of what the branches of an if store.  A       *)
(* register is named by its letters.                                       *)
(***************************************************************************)
EXTENDS DefinitionsRef, TLC

Make(r)         == Op("makechan", r, "", "", << >>)
Send(x)         == Op("send", "", x, "", << >>)
Recv(x)         == Op("recv", "", x, "", << >>)
Close(x)        == Op("close", "", x, "", << >>)
Select(xs)      == Op("select", "", "", "", xs)
New(r, type)    == Op("new", r, "", type, << >>)       \* escapes: on the heap
Local(r, type)  == Op("local", r, "", type, << >>)
Deref(r, p)     == Op("deref", r, p, "", << >>)
Store(p, v)     == Op("store", "", p, "", <<v>>)
Field(r, x, n)  == Op("field", r, x, n, << >>)
Inner(r, x, n)  == Op("field", r, x, n, <<"struct">>)  \* a field that is a struct
Index(r, x, n)  == Op("index", r, x, n, << >>)
Slice(r)        == Op("slice", r, "", "", << >>)
Conv(op, r, x)  == Op(op, r, x, "", << >>)
Asserted(r, x, n) == Op("typeassert", r, x, n, << >>)
Extract(r, x, n, type) == Op("extract", r, x, n, <<type>>)
Phi(r, e1, e2)  == Op("phi", r, "", "", <<e1, e2>>)
Closure(r, f, vs) == Op("closure", r, f, "", vs)
Call(r, f, vs)  == Op("call", r, f, "", vs)
CallClo(r, x)   == Op("callclosure", r, x, "", << >>)
InvokeOn(r, x, f, vs) == Op("invoke", r, x, f, vs)
Go(f, vs)       == Op("go", "", f, "", vs)
GoClosure(f, x) == Op("go", "", f, x, << >>)
Return(vs)      == Op("return", "", "", "", vs)

Fn(ps, ins)         == [params |-> ps, free |-> << >>, returns |-> << >>, code |-> <<ins>>]
Fun(ps, types, ins) == [params |-> ps, free |-> << >>, returns |-> types, code |-> <<ins>>]
Lit(fvs, ins)       == [params |-> << >>, free |-> fvs, returns |-> << >>, code |-> <<ins>>]
Ext(types)          == [params |-> << >>, free |-> << >>, returns |-> types, code |-> << >>]
Branching(pre, then, join, else) ==
    [params |-> << >>, free |-> << >>, returns |-> << >>, code |-> <<pre, then, join, else>>]
ProgOf(fns) == [globals |-> << >>, fns |-> fns]
Main(ins) == ProgOf("main" :> Fn(<< >>, ins))

-----------------------------------------------------------------------------
\* The k-th operation on s: store a or b into part "1" or "2", copy "1" to
\* "2", or use a part.
Operation(o, k, s, part(_, _, _)) ==
    LET r(x) == x \o ToString(k)
    IN  CASE o[1] = "put"  -> <<part(r("p"), s, o[2]), Store(r("p"), o[3])>>
          [] o[1] = "copy" -> <<part(r("p"), s, "1"), Deref(r("v"), r("p")),
                                part(r("q"), s, "2"), Store(r("q"), r("v"))>>
          [] o[1] = "use"  -> <<part(r("p"), s, o[2]), Deref(r("v"), r("p")), Send(r("v"))>>

Operations(v, w) == ({"put"} \X {"1", "2"} \X {v, w}) \cup ({"use"} \X {"1", "2"}) \cup {<<"copy">>}
Triples(v, w) == Operations(v, w) \X Operations(v, w) \X Operations(v, w)

Three(x, s, part(_, _, _)) ==
    Operation(x[1], 1, s, part) \o Operation(x[2], 2, s, part) \o Operation(x[3], 3, s, part)

Opened(alloc(_, _), type) == <<Make("a"), Make("b"), alloc("s", type)>>
Ending(part(_, _, _)) == Operation(<<"use", "1">>, 4, "s", part) \o Operation(<<"use", "2">>, 5, "s", part)

Here(alloc(_, _), type, part(_, _, _)) ==
    {Main(Opened(alloc, type) \o Three(x, "s", part) \o Ending(part)) :
       x \in Triples("a", "b")}

There(alloc(_, _), type, part(_, _, _)) ==
    {ProgOf("main" :> Fn(<< >>, Opened(alloc, type) \o <<Call("", "f", <<"s", "a", "b">>)>> \o Ending(part))
            @@ "f" :> Fn(<<"t", "c", "d">>, Three(x, "t", part))) :
       x \in Triples("c", "d")}

MCStores == Here(New, "struct", Field) \cup Here(Local, "array", Index)
            \cup There(Local, "struct", Field) \cup There(New, "array", Index)

\* x := a; if c { x = v } else { x = w }; x <- 0, and with a use of x in the
\* second branch where the first does not store.
Assigned(x, v) == IF v = "" THEN << >> ELSE <<Store(x, v)>>
MCBranches ==
    {ProgOf("main" :> Branching(<<Make("a"), Make("b"), Make("c"), Op(alloc, "x", "", "chan", << >>), Store("x", "a")>>,
                                Assigned("x", y[1]), <<Deref("u", "x"), Send("u")>>,
                                (IF y[3] THEN <<Deref("v", "x"), Recv("v")>> ELSE << >>) \o Assigned("x", y[2]))) :
       alloc \in {"new", "local"},
       y \in {z \in {"", "a", "b"} \X {"", "b", "c"} \X BOOLEAN : z[3] => z[1] = ""}}

-----------------------------------------------------------------------------
\* Programs of one feature or a few.
MCForms ==
    {\* if c { v = make } else { v = make }; <-v
     ProgOf("main" :> Branching(<< >>, <<Make("a")>>, <<Phi("v", "a", "b"), Recv("v")>>, <<Make("b")>>)),
     \* two calls of a constructor, its channels passed on by type
     ProgOf("main" :> Fn(<< >>, <<Call("a", "f", << >>), Call("b", "f", << >>),
                                  Conv("changetype", "c", "b"), Call("", "g", <<"a", "c">>), Close("b")>>)
            @@ "f" :> Fun(<< >>, <<"chan">>, <<Make("m"), Return(<<"m">>)>>)
            @@ "g" :> Fn(<<"in", "out">>, <<Recv("in"), Send("out"), Select(<<"in", "out">>)>>)),
     \* two results, and one of them struct
     ProgOf("main" :> Fn(<< >>, <<Call("t", "f", << >>), Extract("a", "t", 1, "chan"),
                                  Extract("s", "t", 2, "struct"), Field("p", "s", "1"), Deref("v", "p"),
                                  Send("a"), Recv("v")>>)
            @@ "f" :> Fun(<< >>, <<"chan", "struct">>,
                          <<Make("m"), Make("n"), New("x", "struct"), Field("q", "x", "1"),
                            Store("q", "n"), Return(<<"m", "x">>)>>)),
     \* captured channels: a variable and a field of a captured struct
     ProgOf("main" :> Fn(<< >>, <<Make("a"), Make("b"), New("x", "chan"), Store("x", "a"),
                                  New("s", "struct"), Field("p", "s", "1"), Store("p", "b"),
                                  Closure("k", "f", <<"x", "s">>), GoClosure("f", "k"), Send("a"), Close("b")>>)
            @@ "f" :> Lit(<<"fx", "fs">>, <<Deref("u", "fx"), Recv("u"), Field("q", "fs", "1"), Deref("w", "q"), Recv("w")>>)),
     \* goroutines that start goroutines and share a struct
     ProgOf("main" :> Fn(<< >>, <<Make("a"), New("s", "struct"), Field("p", "s", "1"), Store("p", "a"),
                                  Go("f", <<"s">>), Go("f", <<"s">>), Send("a")>>)
            @@ "f" :> Fn(<<"t">>, <<Field("q", "t", "1"), Deref("v", "q"), Recv("v"), Go("g", <<"v">>)>>)
            @@ "g" :> Fn(<<"c">>, <<Send("c")>>)),
     \* a method called through an interface, made of a struct; an assertion
     ProgOf("main" :> Fn(<< >>, <<Make("a"), New("s", "struct"), Field("p", "s", "1"), Store("p", "a"),
                                  Conv("makeinterface", "i", "s"), Conv("changeinterface", "j", "i"),
                                  InvokeOn("r", "j", "f", <<"a">>), Asserted("t", "j", "iface"),
                                  Extract("k", "t", 1, "iface"), InvokeOn("q", "k", "g", << >>)>>)
            @@ "f" :> Fn(<<"me", "c">>, <<Send("c"), Field("fp", "me", "1"), Deref("fv", "fp"), Recv("fv")>>)
            @@ "g" :> Fn(<<"it">>, <<Field("gp", "it", "1"), Deref("gv", "gp"), Close("gv")>>)),
     \* structs in structs, on the heap and in the frame
     Main(<<Make("a"), New("s", "struct"), Inner("p", "s", "1"), Field("q", "p", "2"), Store("q", "a"),
            Inner("p2", "s", "1"), Field("q2", "p2", "2"), Deref("v", "q2"), Send("v")>>),
     Main(<<Make("a"), Local("s", "struct"), Inner("p", "s", "1"), Field("q", "p", "2"), Store("q", "a"),
            Inner("p2", "s", "1"), Field("q2", "p2", "2"), Deref("v", "q2"), Send("v")>>),
     \* globals: a pointer to a struct, an array
     [globals |-> "g" :> "pointer" @@ "h" :> "array",
      fns |-> "main" :> Fn(<< >>, <<Make("a"), New("s", "struct"), Field("p", "s", "1"), Store("p", "a"),
                                    Store("g", "s"), Call("", "f", << >>), New("y", "array"), Index("e", "y", "i"),
                                    Store("e", "a"), Store("h", "y"), Call("", "k", << >>)>>)
              @@ "f" :> Fn(<< >>, <<Deref("t", "g"), Field("q", "t", "1"), Deref("v", "q"), Recv("v")>>)
              @@ "k" :> Fn(<< >>, <<Deref("z", "h"), Index("ke", "z", "i"), Deref("kv", "ke"), Recv("kv")>>)],
     \* channels the program does not make
     ProgOf("main" :> Fn(<< >>, <<Call("x", "ext", << >>), Send("x"), Recv("x"), New("s", "struct"),
                                  Field("p", "s", "1"), Deref("v", "p"), Send("v")>>)
            @@ "ext" :> Ext(<<"chan">>))}

\* Programs whose channels are lost or confused, or that end the analysis.
MCOthers ==
    {\* the first edge of a phi comes from the branch visited last
     ProgOf("main" :> Branching(<< >>, <<Make("a")>>, <<Phi("v", "b", "a"), Recv("v")>>, <<Make("b")>>)),
     \* a global channel and a global slice
     [globals |-> "g" :> "chan" @@ "h" :> "slice",
      fns |-> "main" :> Fn(<< >>, <<Make("a"), Store("g", "a"), Deref("u", "g"), Send("u"), Slice("m"),
                                    Deref("z", "h"), Index("e", "z", "i"), Store("e", "a")>>)],
     \* a closure that is called; a method called twice at one place
     ProgOf("main" :> Fn(<< >>, <<Make("a"), Closure("k", "f", <<"a">>), CallClo("", "k"),
                                  New("s", "struct"), Call("", "h", <<"s", "a">>), Call("", "h", <<"s", "a">>)>>)
            @@ "f" :> Lit(<<"fa">>, <<Send("fa")>>)
            @@ "h" :> Fn(<<"hs", "ha">>, <<Conv("makeinterface", "i", "hs"), InvokeOn("r", "i", "m", <<"ha">>)>>)
            @@ "m" :> Fn(<<"me", "c">>, <<Send("c")>>)),
     \* a method of what is not known, a function that calls itself
     ProgOf("main" :> Fn(<<"x">>, <<Conv("makeinterface", "i", "x"), InvokeOn("r", "i", "f", << >>), Call("", "f", <<"x">>)>>)
            @@ "f" :> Fn(<<"me">>, <<Call("", "f", <<"me">>)>>)),
     \* channels in external tuples, unknown channels closed and selected
     ProgOf("main" :> Fn(<< >>, <<Call("t", "ext", << >>), Extract("n", "t", 1, "int"), Extract("c", "t", 2, "chan")>>)
            @@ "ext" :> Ext(<<"int", "chan">>)),
     Main(<<Extract("y", "sel", 1, "array"), Index("e", "y", "i"), Conv("copy", "c", "b"), Close("b")>>),
     Main(<<Extract("y", "sel", 1, "struct"), Field("p", "x", "1"), Index("e", "w", "1"), Select(<<"c">>)>>),
     \* a field whose channel is not known, read by value; a part of a channel
     Main(<<Field("v", "s", "1"), Send("v")>>),
     Main(<<Make("a"), Extract("n", "sel", 1, "int"), Field("p", "a", "1")>>),
     \* an assertion of a concrete type
     Main(<<New("s", "struct"), Conv("makeinterface", "i", "s"), Asserted("t", "i", "concrete"), Send("t")>>)}

MCExact   == MCStores \cup MCBranches \cup MCForms
MCProgram == MCExact \cup MCOthers
=============================================================================
