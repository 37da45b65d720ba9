------------------------------ MODULE MigoRef -------------------------------
(***************************************************************************)
(* Inferred MiGo types against the programs they come from.                *)
(***************************************************************************)
EXTENDS MigoRuns

CONSTANT Depth         \* length of the sequences of communications compared

ASSUME MigoDepthAssumption == Depth \in Nat

\* What the goroutine that performs f can do; MiGo does not tell a closed
\* channel from another.
SourceTraces(f) ==
    {[k \in DOMAIN w |-> IF w[k].dir = "?" THEN [w[k] EXCEPT !.msg = Data] ELSE w[k]] :
       w \in ProgramTraces(prog, <<f>>, Depth)}

InferredTraces(f) == MigoTraces(FnName(f), Depth)

\* The functions that goroutines perform, of those started by main's.
ByMain == {"main"} \cup Reached(prog, "main", {"call"})
Started == {"main"} \cup UNION {Targets(prog, f, {"go"}) : f \in ByMain}

-----------------------------------------------------------------------------
(* When MiGo types can be exact.                                           *)

Joins(f) == {b \in DOMAIN prog[f] : Cardinality(Preds(prog, f, b)) > 1}

\* No branch leads to a block that other edges enter, for it would be visited
\* once and by the first; the head of a loop without condition does not
\* branch; loops do not count; nothing is deferred.
Plain(f) ==
    /\ \A b \in DOMAIN prog[f] : Len(prog[f][b].succs) = 2 =>
          /\ Range(prog[f][b].succs) \cap Joins(f) = {}
          /\ prog[f][b].comment = "for.body" /\ b \in Joins(f) =>
                Last(prog[f][b].ins).op = "ifsel"
    /\ \A i \in InstrsOf(prog, f) :
          i.op \notin {"phi", "defer", "callclosure"} \cup CmpOps

Exact(f) ==
    LET code == {g \in {f} \cup Reached(prog, f, {"call"}) : prog[g] # << >>}
    IN  \A g \in code : Plain(g) /\ g \notin Reached(prog, g, {"call", "go"})

-----------------------------------------------------------------------------
(* Properties.                                                             *)

\* What a goroutine of the program can do on channels its MiGo type can do
\* (visitBasicBlock, visitJump, visitIf, visitSelect, call).
ProgramWithinMigo ==
    pc = "done" => \A f \in Started : Exact(f) => SourceTraces(f) \subseteq InferredTraces(f)

\* And the other way round.
MigoWithinProgram ==
    pc = "done" => \A f \in Started : Exact(f) => InferredTraces(f) \subseteq SourceTraces(f)

RECURSIVE NamesIn(_)
\* The definitions that statements call or spawn.
NamesIn(ss) ==
    UNION {CASE ss[k].op \in {"call", "spawn"} -> {ss[k].x}
             [] ss[k].op = "if" -> NamesIn(ss[k].then) \cup NamesIn(ss[k].else)
             [] ss[k].op = "select" -> UNION {NamesIn(c) : c \in Range(sels[ss[k].n].cases)}
             [] OTHER -> {} : k \in DOMAIN ss}

\* Goroutines start no goroutines.
StartedByMain ==
    \A f \in DOMAIN prog \ ({"init"} \cup ByMain) : Targets(prog, f, {"go"}) = {}

\* Every call and spawn is of a definition of the program, be it made before
\* or after the call, by this visit of the function or another.
CallsDefined ==
    pc = "done" /\ StartedByMain /\ (\A f \in DOMAIN prog \ {"init"} : Exact(f)) =>
       \A x \in Names : NamesIn(BodyOf[x]) \subseteq Names

\* The functions that f defers.
DeferredBy(f) == {i.x : i \in {j \in UNION {DefersIn(prog, f, b) : b \in DOMAIN prog[f]} :
                                 j.op = "call"}}
\* A function that is deferred again when it is visited as a deferred call:
\* visitRunDefers does not ask for IsRecursiveCall.
DefersItself ==
    LET next == [f \in DOMAIN prog |-> DeferredBy(f)]
    IN  \E f \in DOMAIN prog : f \in Closure(next, next[f])

\* Run ends, whatever calls whatever, but for a loop judged static whose step
\* was not understood, and for functions whose deferred calls lead back to them
\* (RunQueue, IsRecursiveCall, HasNext).
Ends ==
    <>(\/ pc \in {"done", "crashed"}
       \/ \E l \in Range(loops) : l.bound = "Static" /\ l.step = 0
       \/ DefersItself)

-----------------------------------------------------------------------------
(* Loops that count.                                                       *)

Comms(ss) ==
    LET cs == SelectSeq(ss, LAMBDA s : s.op \in CommStmts)
    IN  [k \in DOMAIN cs |-> Event(IF cs[k].op = "close" THEN "end" ELSE cs[k].op, cs[k].x)]

\* The only run of function f when every condition is known.
TheRun(f) ==
    LET W == ProgramTraces(prog, <<f>>, Depth)
    IN  CHOOSE w \in W : \A v \in W : Len(v) <= Len(w)

LoopFn(l) == frames[l.parent].fn
LoopBody(l) == BodyOf[BlockName(LoopFn(l), l.block)]

\* A loop judged static that counts upwards has been unrolled as often as it
\* runs: its definition lists the communications of the run of its function in
\* their order (HasNext, Next, visitIf).
Unrolled ==
    pc = "done" => \A l \in Range(loops) :
       l.bound = "Static" /\ l.step >= 0 => Comms(LoopBody(l)) = TheRun(LoopFn(l))

-----------------------------------------------------------------------------
(* What comments and documentation say and the code does not do.           *)

\* "Detect and unroll": a loop that is unrolled is not also a recursion.
UnrolledOnce ==
    pc = "done" => \A l \in Range(loops) : l.bound = "Static" =>
       Stmt("call", BlockName(LoopFn(l), l.block)) \notin Range(LoopBody(l))
=============================================================================
