-------------------------- MODULE DefinitionsRef ----------------------------
(***************************************************************************)
(* What the program does with its channels, to hold Definitions against:   *)
(* its code is run once for each outcome c of its conditions, goroutines   *)
(* after main.  A value is a channel, named by where it was made, a        *)
(* pointer to a location, a struct or an array with the values of its      *)
(* parts, a tuple, a closure, or none.  A location is a variable, named by *)
(* where it was allocated, and a path of fields into it.                   *)
(***************************************************************************)
EXTENDS Definitions

None       == <<"none">>
Chan(at)   == <<"chan", at>>
Ptr(b, path) == <<"ptr", b, path>>
Val(parts) == <<"val", parts>>
AsChan(v)  == IF v[1] = "chan" THEN v ELSE None

Read(regs, v) == IF v \in DOMAIN prog.globals THEN Ptr(<<v>>, << >>)
                 ELSE IF v \in DOMAIN regs THEN regs[v] ELSE None
ReadAll(regs, vs) == [k \in DOMAIN vs |-> Read(regs, vs[k])]

\* Memory maps locations to values that have no parts.
Below(mem, ptr) == {l \in DOMAIN mem : l[2] = ptr[2] /\ IsPrefix(ptr[3], l[3])}
Load(mem, ptr) ==
    IF ptr \in DOMAIN mem THEN mem[ptr]
    ELSE Val([path \in {SubSeq(l[3], Len(ptr[3]) + 1, Len(l[3])) : l \in Below(mem, ptr)} |->
                 mem[Ptr(ptr[2], ptr[3] \o path)]])
StoreIn(mem, ptr, v) ==
    LET kept == [l \in DOMAIN mem \ Below(mem, ptr) |-> mem[l]]
    IN  IF v[1] = "val"
        THEN [l \in {Ptr(ptr[2], ptr[3] \o path) : path \in DOMAIN v[2]} |->
                 v[2][SubSeq(l[3], Len(ptr[3]) + 1, Len(l[3]))]] @@ kept
        ELSE (ptr :> v) @@ kept
Part(v, n) ==
    CASE v[1] = "ptr" -> Ptr(v[2], Append(v[3], n))
      [] v[1] = "val" -> IF <<n>> \in DOMAIN v[2] THEN v[2][<<n>>]
                         ELSE Val([path \in {Tail(q) : q \in {q \in DOMAIN v[2] : IsPrefix(<<n>>, q)}} |->
                                      v[2][<<n>> \o path]])
      [] OTHER -> None

\* A store over a value that is stored elsewhere as well, or of no value over
\* one: the code replaces a definition wherever it is stored, and does not
\* replace it by nothing.
Confuses(mem, ptr, v) ==
    /\ ptr \in DOMAIN mem
    /\ v \in {None, Val(<< >>)} \/ \E l \in DOMAIN mem \ {ptr} : mem[l] = mem[ptr]

\* The instructions that are run, by their place in the code.
RunOrder(code, c) ==
    LET blocks == IF Len(code) <= 1 THEN [b \in DOMAIN code |-> b]
                  ELSE <<1, IF c = 1 THEN 2 ELSE 4, 3>>
        before(b) == Len(FlattenSeq(SubSeq(code, 1, b - 1)))
    IN  FlattenSeq([k \in DOMAIN blocks |->
                      [i \in 1..Len(code[blocks[k]]) |-> before(blocks[k]) + i]])

\* The state of a run: the memory, the communications done, the goroutines
\* started, and whether a store confuses definitions.
RECURSIVE RunFn(_, _, _, _, _), RunFrom(_, _, _, _, _)

\* s: the run's state with the registers and the result of this call.
RunFrom(fn, c, at, k, s) ==
    LET code  == prog.fns[fn].code
        order == RunOrder(code, c)
    IN  IF k > Len(order) THEN s ELSE
        LET i    == FlattenSeq(code)[order[k]]
            here == Append(at, order[k])
            x    == Read(s.regs, i.x)
            as   == ReadAll(s.regs, i.args)
            set(v) == [s EXCEPT !.regs = (i.dst :> v) @@ @]
            comm(vs) == [s EXCEPT !.used = @ \cup {<<here, AsChan(v)>> : v \in vs}]
            after(t) == [t EXCEPT !.regs = (i.dst :> t.result) @@ s.regs, !.result = s.result]
        IN  RunFrom(fn, c, at, k + 1,
              CASE i.op = "makechan" -> [set(Chan(here)) EXCEPT !.used = @ \cup {<<here, Chan(here)>>}]
                [] i.op \in {"send", "recv", "close"} -> comm({x})
                [] i.op = "select" -> comm(Range(as))
                [] i.op \in {"new", "local"} -> set(Ptr(here, << >>))
                [] i.op = "deref" -> set(IF x[1] = "ptr" THEN Load(s.mem, x) ELSE None)
                [] i.op = "store" -> IF x[1] # "ptr" THEN s ELSE
                     [s EXCEPT !.mem = StoreIn(@, x, as[1]), !.confuses = @ \/ Confuses(s.mem, x, as[1])]
                [] i.op \in {"field", "index"} -> set(Part(x, i.n))
                [] i.op = "phi" -> set(as[c])
                [] i.op \in {"changetype", "changeinterface", "makeinterface", "typeassert", "copy"} -> set(x)
                [] i.op = "extract" -> set(IF x[1] = "tuple" THEN x[2][i.n] ELSE x)
                [] i.op = "closure" -> set(<<"closure", i.x, as>>)
                [] i.op = "call" -> after(RunFn(i.x, c, here, [p |-> as, f |-> << >>], s))
                [] i.op = "callclosure" -> after(RunFn(x[2], c, here, [p |-> as, f |-> x[3]], s))
                [] i.op = "invoke" -> after(RunFn(i.n, c, here, [p |-> <<x>> \o as, f |-> << >>], s))
                [] i.op = "go" ->
                     LET clo == Read(s.regs, i.n)
                     IN  [s EXCEPT !.go = Append(@, [fn |-> i.x, at |-> here, p |-> as,
                                             f |-> IF clo = None THEN << >> ELSE clo[3]])]
                [] i.op = "return" -> [s EXCEPT !.result = IF Len(as) = 1 THEN as[1] ELSE <<"tuple", as>>]
                [] OTHER -> s)

RunFn(fn, c, at, in, s) ==
    LET f    == prog.fns[fn]
        regs == [v \in Range(f.params) \cup Range(f.free) |->
                   IF v \in Range(f.params) THEN in.p[CHOOSE k \in DOMAIN f.params : f.params[k] = v]
                   ELSE in.f[CHOOSE k \in DOMAIN f.free : f.free[k] = v]]
    IN  RunFrom(fn, c, at, 1, [s EXCEPT !.regs = regs, !.result = None])

RECURSIVE RunGo(_, _)
RunGo(c, s) ==
    IF s.go = << >> THEN s
    ELSE RunGo(c, RunFn(s.go[1].fn, c, s.go[1].at, s.go[1], [s EXCEPT !.go = Tail(@)]))

Runs(c) ==
    RunGo(c, RunFn("main", c, <<"main">>, [p |-> << >>, f |-> << >>],
                   [mem |-> << >>, used |-> {}, go |-> << >>, confuses |-> FALSE,
                    regs |-> << >>, result |-> None]))

-----------------------------------------------------------------------------
CONSTANT Exact    \* the programs for which the code claims to find channels

ASSUME ExactAssumption == Exact \subseteq Program

\* The channel of a node: where it was made, or none for an external one.
Source(vd) ==
    IF vd \in extern THEN None
    ELSE Chan(nodes[CHOOSE k \in DOMAIN nodes : nodes[k].op = "make" /\ nodes[k].chan = vd].at)

\* What the node says: where a channel is used, and which one.
Says(k) == <<nodes[k].at, Source(nodes[k].chan)>>

Claimed == pc # "run" /\ prog \in Exact /\ \A c \in 1..2 : ~Runs(c).confuses

\* The channel found for a communication is the one that the program uses
\* there, for some outcome of its conditions, whatever was stored, passed,
\* returned, captured or converted on the way.
RightChannel ==
    Claimed => LET used == Runs(1).used \cup Runs(2).used
               IN  \A k \in DOMAIN nodes : Says(k) \in used

\* No communication of the program is missing, and a program that uses its
\* channels well does not end the analysis.
NothingLost ==
    Claimed => LET used == Runs(1).used \cup Runs(2).used
               IN  /\ pc = "done"
                   /\ \A u \in used : \E k \in DOMAIN nodes : nodes[k].at = u[1]
=============================================================================
