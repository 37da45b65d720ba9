------------------------------ MODULE CallGraph ------------------------------
(***************************************************************************)
(* The call graphs of ssabuilder, and the functions that WriteTo writes    *)
(* for them.  Several may be built at once, one for each request that the  *)
(* web service handles: what is visited is kept in package variables.      *)
(*                                                                         *)
(* The recursion of visitBlock is a stack of work items, top first: at     *)
(* instruction i of block b of function fn for node n, or, with i = 0,     *)
(* before it; child is the next child of n that a return looks at.         *)
(***************************************************************************)
EXTENDS Programs

CONSTANTS Builder,     \* who may build a call graph
          Loaded       \* the programs that each may have loaded, as functions
                       \* of some of the builders

IfOps == {"if", "ifrecv", "ifsel", "ifcmp"}
CallOps == {"call", "callclosure", "go"}

\* What golang.org/x/tools builds: blocks have instructions, an If ends a block
\* with two successors and a Jump one with one, others have none, and main has
\* blocks.
IsBlock(p, f, block) ==
    /\ Len(block.ins) \in Nat \ {0}
    /\ Len(block.succs) \in Nat
    /\ \A k \in 1..Len(block.succs) : block.succs[k] \in 1..Len(p[f])
    /\ \A i \in 1..Len(block.ins) :
          /\ block.ins[i].op \in CallOps => block.ins[i].x \in DOMAIN p
          /\ block.ins[i].op \in IfOps => Len(block.succs) = 2
          /\ block.ins[i].op = "jump" => Len(block.succs) = 1
    /\ Len(block.succs) > 0 => block.ins[Len(block.ins)].op \in IfOps \cup {"jump"}

IsProgram(p) ==
    /\ \A f \in DOMAIN p :
          /\ Len(p[f]) \in Nat
          /\ p[f] # << >> => Len(p[f]) > 0
          /\ \A b \in 1..Len(p[f]) : IsBlock(p, f, p[f][b])
    /\ "main" \in DOMAIN p => p["main"] # << >>

ASSUME LoadedAssumption ==
    \A p \in Loaded : DOMAIN p \subseteq Builder /\ \A w \in DOMAIN p : IsProgram(p[w])

VARIABLES
    prog,          \* the program of each builder that builds a graph
    alive,         \* the process has not crashed
    pc,            \* of each builder: "start", "made", "marking", "visit",
                   \* "write", "done", or "failed" when it panicked
    visitedFunc,   \* the package variables: functions and
    visitedBlock,  \* blocks, each of the program of some builder
    nodes,         \* the nodes of each graph: functions with children
    work,          \* the work that is left of the visit
    nodeQueue,     \* that WriteTo has left,
    written        \* and the functions it has written, in order

vars == <<prog, alive, pc, visitedFunc, visitedBlock, nodes, work, nodeQueue, written>>

Builds == DOMAIN prog

Node(f) == [func |-> f, children |-> << >>]
Item(n, f, b, i) == [n |-> n, fn |-> f, b |-> b, i |-> i, child |-> 1]

Top(w) == work[w][1]
Cur(w) == prog[w][Top(w).fn][Top(w).b].ins[Top(w).i]
Doing(w) == alive /\ pc[w] = "visit" /\ work[w] # << >>
OnIns(w, ops) == Doing(w) /\ Top(w).i > 0 /\ Cur(w).op \in ops

\* The work of w after the current instruction.
Rest_Beyond(w) ==
    LET t == Top(w) IN <<Item(t.n, t.fn, t.b, t.i + 1)>> \o Tail(work[w])
Rest(w) ==
    LET t == Top(w)
    IN  IF t.i < Len(prog[w][t.fn][t.b].ins)
        THEN <<Item(t.n, t.fn, t.b, t.i + 1)>> \o Tail(work[w])
        ELSE Tail(work[w])

Visit(w, k) == Item(Top(w).n, Top(w).fn, prog[w][Top(w).fn][Top(w).b].succs[k], 0)

-----------------------------------------------------------------------------
Init ==
    /\ prog \in Loaded
    /\ alive = TRUE
    /\ pc = [w \in DOMAIN prog |-> "start"]
    /\ visitedFunc = {}
    /\ visitedBlock = {}
    /\ nodes = [w \in DOMAIN prog |-> <<Node("main")>>]
    /\ work = [w \in DOMAIN prog |-> << >>]
    /\ nodeQueue = [w \in DOMAIN prog |-> << >>]
    /\ written = [w \in DOMAIN prog |-> << >>]

\* Without a main package, or a main in it, CallGraph or WriteTo has nil.
NoMain(w) ==
    /\ alive /\ pc[w] = "start"
    /\ "main" \notin DOMAIN prog[w]
    /\ pc' = [pc EXCEPT ![w] = "failed"]
    /\ UNCHANGED <<prog, alive, visitedFunc, visitedBlock, nodes, work, nodeQueue, written>>

\* Build makes the maps anew, one after the other, and marks main.
MakeVisitedFunc(w) ==
    /\ alive /\ pc[w] = "start"
    /\ "main" \in DOMAIN prog[w]
    /\ visitedFunc' = {}
    /\ pc' = [pc EXCEPT ![w] = "made"]
    /\ UNCHANGED <<prog, alive, visitedBlock, nodes, work, nodeQueue, written>>

MakeVisitedBlock(w) ==
    /\ alive /\ pc[w] = "made"
    /\ visitedBlock' = {}
    /\ pc' = [pc EXCEPT ![w] = "marking"]
    /\ UNCHANGED <<prog, alive, visitedFunc, nodes, work, nodeQueue, written>>

MarkMain(w) ==
    /\ alive /\ pc[w] = "marking"
    /\ visitedFunc' = visitedFunc \cup {<<w, "main">>}
    /\ work' = [work EXCEPT ![w] = <<Item(1, "main", 1, 0)>>]
    /\ pc' = [pc EXCEPT ![w] = "visit"]
    /\ UNCHANGED <<prog, alive, visitedBlock, nodes, nodeQueue, written>>

\* A block that was visited is left at once; any other is marked.
MarkBlock_Not(block) == visitedBlock
MarkBlock(block) == visitedBlock \cup {block}
VisitBlock(w) ==
    /\ Doing(w) /\ Top(w).i = 0
    /\ LET block == <<w, Top(w).fn, Top(w).b>> IN
       IF block \in visitedBlock
       THEN work' = [work EXCEPT ![w] = Tail(@)] /\ UNCHANGED visitedBlock
       ELSE /\ visitedBlock' = MarkBlock(block)
            /\ work' = [work EXCEPT ![w] = <<Item(Top(w).n, Top(w).fn, Top(w).b, 1)>> \o Tail(@)]
    /\ UNCHANGED <<prog, alive, pc, visitedFunc, nodes, nodeQueue, written>>

NewCallee_Always(w, f) == TRUE
NewCallee(w, f) == <<w, f>> \notin visitedFunc

\* The nodes of w with one more child for node n, of function f.
WithChild(w, n, f) ==
    LET k == Len(nodes[w]) + 1
        parent == [nodes[w][n] EXCEPT !.children = Append(@, k)]
    IN  Append([nodes[w] EXCEPT ![n] = parent], Node(f))

\* A function called or started for the first time is a new child.
VisitCall(w) ==
    /\ OnIns(w, CallOps)
    /\ LET f == Cur(w).x IN
       IF NewCallee(w, f)
       THEN /\ visitedFunc' = visitedFunc \cup {<<w, f>>}
            /\ nodes' = [nodes EXCEPT ![w] = WithChild(w, Top(w).n, f)]
       ELSE UNCHANGED <<visitedFunc, nodes>>
    /\ work' = [work EXCEPT ![w] = Rest(w)]
    /\ UNCHANGED <<prog, alive, pc, visitedBlock, nodeQueue, written>>

VisitOther(w) ==
    /\ Doing(w) /\ Top(w).i > 0
    /\ Cur(w).op \notin CallOps \cup IfOps \cup {"jump", "return"}
    /\ work' = [work EXCEPT ![w] = Rest(w)]
    /\ UNCHANGED <<prog, alive, pc, visitedFunc, visitedBlock, nodes, nodeQueue, written>>

Branches_First(w) == <<Visit(w, 1)>>
Branches(w) == <<Visit(w, 1), Visit(w, 2)>>

VisitIf(w) ==
    /\ OnIns(w, IfOps)
    /\ work' = [work EXCEPT ![w] = Branches(w) \o Rest(w)]
    /\ UNCHANGED <<prog, alive, pc, visitedFunc, visitedBlock, nodes, nodeQueue, written>>

VisitJump(w) ==
    /\ OnIns(w, {"jump"})
    /\ work' = [work EXCEPT ![w] = <<Visit(w, 1)>> \o Rest(w)]
    /\ UNCHANGED <<prog, alive, pc, visitedFunc, visitedBlock, nodes, nodeQueue, written>>

\* A return looks at each child in turn; one that was not visited is.  Without
\* blocks that is a panic, which ends this build.
Unvisited_Marked(w, f) == <<w, f>> \in visitedFunc
Unvisited(w, f) == <<w, f>> \notin visitedFunc
Looked(t) == [t EXCEPT !.child = @ + 1]
ChildItem_Parent(t, k, f) == Item(t.n, f, 1, 0)
ChildItem(t, k, f) == Item(k, f, 1, 0)

VisitReturn(w) ==
    /\ OnIns(w, {"return"})
    /\ LET t == Top(w)
           cs == nodes[w][t.n].children
       IN  /\ t.child <= Len(cs)
           /\ LET f == nodes[w][cs[t.child]].func
                  next == <<Looked(t)>> \o Tail(work[w])
              IN  IF Unvisited(w, f)
                  THEN /\ visitedFunc' = visitedFunc \cup {<<w, f>>}
                       /\ pc' = IF prog[w][f] # << >> THEN pc
                                ELSE [pc EXCEPT ![w] = "failed"]
                       /\ work' = [work EXCEPT ![w] = <<ChildItem(t, cs[t.child], f)>> \o next]
                  ELSE /\ work' = [work EXCEPT ![w] = next]
                       /\ UNCHANGED <<pc, visitedFunc>>
    /\ UNCHANGED <<prog, alive, visitedBlock, nodes, nodeQueue, written>>

EndReturn(w) ==
    /\ OnIns(w, {"return"})
    /\ Top(w).child > Len(nodes[w][Top(w).n].children)
    /\ work' = [work EXCEPT ![w] = Rest(w)]
    /\ UNCHANGED <<prog, alive, pc, visitedFunc, visitedBlock, nodes, nodeQueue, written>>

\* Maps written by two goroutines at once: the runtime ends the process.
InBuild(w) == pc[w] \in {"marking", "visit"}
Race ==
    /\ alive
    /\ \E v, w \in Builds : v # w /\ InBuild(v) /\ InBuild(w)
    /\ alive' = FALSE
    /\ UNCHANGED <<prog, pc, visitedFunc, visitedBlock, nodes, work, nodeQueue, written>>

EndBuild(w) ==
    /\ alive /\ pc[w] = "visit" /\ work[w] = << >>
    /\ pc' = [pc EXCEPT ![w] = "write"]
    /\ nodeQueue' = [nodeQueue EXCEPT ![w] = <<1>>]
    /\ UNCHANGED <<prog, alive, visitedFunc, visitedBlock, nodes, work, written>>

Repeated(w, f) == f \in Range(written[w])

\* WriteTo: the next node of the graph in breadth; a function once.
WriteNode(w) ==
    /\ alive /\ pc[w] = "write" /\ nodeQueue[w] # << >>
    /\ LET head == nodes[w][nodeQueue[w][1]] IN
       /\ nodeQueue' = [nodeQueue EXCEPT ![w] = Tail(@) \o head.children]
       /\ written' = IF Repeated(w, head.func) THEN written
                     ELSE [written EXCEPT ![w] = Append(@, head.func)]
    /\ UNCHANGED <<prog, alive, pc, visitedFunc, visitedBlock, nodes, work>>

EndWrite(w) ==
    /\ alive /\ pc[w] = "write" /\ nodeQueue[w] = << >>
    /\ pc' = [pc EXCEPT ![w] = "done"]
    /\ UNCHANGED <<prog, alive, visitedFunc, visitedBlock, nodes, work, nodeQueue, written>>

Ended == ~alive \/ \A w \in Builds : pc[w] \in {"done", "failed"}
Terminated == Ended /\ UNCHANGED vars

Step(w) ==
    \/ NoMain(w)
    \/ MakeVisitedFunc(w)
    \/ MakeVisitedBlock(w)
    \/ MarkMain(w)
    \/ VisitBlock(w)
    \/ VisitCall(w)
    \/ VisitOther(w)
    \/ VisitIf(w)
    \/ VisitJump(w)
    \/ VisitReturn(w)
    \/ EndReturn(w)
    \/ EndBuild(w)
    \/ WriteNode(w)
    \/ EndWrite(w)

Next == (\E w \in Builds : Step(w)) \/ Race \/ Terminated

Spec == Init /\ [][Next]_vars
\* The scheduler runs every goroutine.
FairSpec == Spec /\ \A w \in Builder : WF_vars(w \in Builds /\ Step(w))

-----------------------------------------------------------------------------
\* The blocks of function f of p that its entry leads to: those in every set
\* that has the entry and the successors of its blocks.
IsClosed(p, f, S) ==
    /\ 1 \in S
    /\ \A b \in S : \A k \in 1..Len(p[f][b].succs) : p[f][b].succs[k] \in S

BlocksOf(p, f) ==
    {b \in 1..Len(p[f]) : \A S \in SUBSET (1..Len(p[f])) : IsClosed(p, f, S) => b \in S}

\* The functions that those blocks call or start.
CalledBy(p, f) ==
    {g \in DOMAIN p : \E b \in BlocksOf(p, f) : \E i \in 1..Len(p[f][b].ins) :
        p[f][b].ins[i].op \in CallOps /\ p[f][b].ins[i].x = g}

\* The functions used by p: main, and what is called or started from it, in
\* any number of steps.
Used(p) ==
    LET reach[k \in 0..Cardinality(DOMAIN p)] ==
            IF k = 0 THEN {"main"}
            ELSE reach[k-1] \cup UNION {CalledBy(p, f) : f \in reach[k-1]}
    IN  reach[Cardinality(DOMAIN p)]

Func == {"main"} \cup UNION {DOMAIN prog[w] : w \in Builds}

\* Types: what the visit and WriteTo have left exists.
TypeOK ==
    /\ prog \in Loaded
    /\ alive \in BOOLEAN
    /\ pc \in [Builds -> {"start", "made", "marking", "visit", "write", "done", "failed"}]
    /\ visitedFunc \subseteq Builds \X Func
    /\ visitedBlock \subseteq Builds \X Func \X Nat
    /\ nodes \in [Builds -> Seq([func : Func, children : Seq(Nat)])]
    /\ work \in [Builds -> Seq([n : Nat, fn : Func, b : Nat, i : Nat, child : Nat \ {0}])]
    /\ nodeQueue \in [Builds -> Seq(Nat)]
    /\ written \in [Builds -> Seq(Func)]
    /\ \A w \in Builds :
         /\ pc[w] = "visit" => \A j \in 1..Len(work[w]) :
               LET t == work[w][j]
               IN  /\ t.n \in 1..Len(nodes[w])
                   /\ t.fn \in DOMAIN prog[w]
                   /\ t.b \in 1..Len(prog[w][t.fn])
                   /\ t.i \in 0..Len(prog[w][t.fn][t.b].ins)
         /\ \A n \in 1..Len(nodes[w]) : \A j \in 1..Len(nodes[w][n].children) :
               nodes[w][n].children[j] \in n+1..Len(nodes[w])
         /\ \A j \in 1..Len(nodeQueue[w]) : nodeQueue[w][j] \in 1..Len(nodes[w])

\* An edge of the graph is a call: the function of a node calls or starts that
\* of each child, whoever else builds a graph meanwhile.
ChildrenCalled ==
    \A w \in Builds : \A n \in 1..Len(nodes[w]) : \A j \in 1..Len(nodes[w][n].children) :
        nodes[w][nodes[w][n].children[j]].func \in CalledBy(prog[w], nodes[w][n].func)

\* main and the functions it calls or starts itself are written, also when
\* another Build has made the maps anew in the middle of the visit.
DirectCalleesWritten ==
    \A w \in Builds :
        pc[w] = "done" => {"main"} \cup CalledBy(prog[w], "main") \subseteq Range(written[w])

\* The comment of CallGraph, "all nodes appear only once in the graph": so
\* when no other graph is built.
NodesOnce ==
    \A w \in Builds : Builds = {w} =>
        \A m, n \in 1..Len(nodes[w]) : nodes[w][m].func = nodes[w][n].func => m = n

\* A build that has the maps for itself does not fail: a function without
\* blocks is not visited.
AloneSucceeds ==
    \A w \in Builds : Builds = {w} /\ "main" \in DOMAIN prog[w] => alive /\ pc[w] # "failed"

\* The comment of CallGraph, "obtaining a list of functions used in a program":
\* what is written is every function used.
UsedFunctionsWritten ==
    \A w \in Builds : pc[w] = "done" => Used(prog[w]) \subseteq Range(written[w])

\* Every build ends, although the maps that stop it at loops and at recursion
\* may be emptied by others.
Ends == <>Ended

-----------------------------------------------------------------------------
\* The inductive invariant.  A work item is in a block that its function's entry
\* leads to, for a node of that function; before the visit main is the only node;
\* and a visit that is alone has marked the function of every node.
GoodItem(w) ==
    {t \in [n : 1..Len(nodes[w]), fn : DOMAIN prog[w], b : Nat, i : Nat, child : Nat \ {0}] :
       /\ t.fn = nodes[w][t.n].func
       /\ t.b \in BlocksOf(prog[w], t.fn)
       /\ t.i <= Len(prog[w][t.fn][t.b].ins)}

Before(w) ==
    pc[w] \in {"start", "made", "marking"} =>
        /\ nodes[w] = <<Node("main")>>
        /\ pc[w] # "start" => "main" \in DOMAIN prog[w]

Alone(w) ==
    /\ alive
    /\ pc[w] = "failed" => "main" \notin DOMAIN prog[w]
    /\ pc[w] = "visit" =>
          \A n \in 1..Len(nodes[w]) : <<w, nodes[w][n].func>> \in visitedFunc

IInv ==
    /\ TypeOK
    /\ ChildrenCalled
    /\ NodesOnce
    /\ \A w \in Builds :
         /\ pc[w] = "visit" => work[w] \in Seq(GoodItem(w))
         /\ nodes[w] # << >>
         /\ Before(w)
         /\ Builds = {w} => Alone(w)

\* What the visit has seen of the blocks of main, V, with nodes N made and work s
\* left: their calls have a node and their successors are seen, or it is before them.
HasNode(N, f) == \E n \in 1..Len(N) : N[n].func = f

Waits(s, b) == \E t \in Range(s) : t.fn = "main" /\ t.b = b /\ t.i = 0
At(s, b, i) == \E t \in Range(s) : t.fn = "main" /\ t.b = b /\ t.i > 0 /\ t.i <= i

Seen(blocks, N, s, V) ==
    /\ 1 \in V \/ Waits(s, 1)
    /\ \A b \in V :
         /\ \A i \in 1..Len(blocks[b].ins) : blocks[b].ins[i].op \in CallOps =>
               HasNode(N, blocks[b].ins[i].x) \/ At(s, b, i)
         /\ \A k \in 1..Len(blocks[b].succs) :
               \/ blocks[b].succs[k] \in V \/ Waits(s, blocks[b].succs[k])
               \/ At(s, b, Len(blocks[b].ins))

Finds(w) ==
    /\ \A f \in Func : <<w, f>> \in visitedFunc => HasNode(nodes[w], f)
    /\ pc[w] \in {"start", "made", "marking"} => \A e \in visitedBlock : e[1] # w
    /\ pc[w] \in {"write", "done"} => work[w] = << >>
    /\ pc[w] \in {"visit", "write", "done"} =>
          /\ "main" \in DOMAIN prog[w]
          /\ \E V \in SUBSET (1..Len(prog[w]["main"])) :
                /\ Seen(prog[w]["main"], nodes[w], work[w], V)
                /\ \A e \in visitedBlock : e[1] = w /\ e[2] = "main" => e[3] \in V

\* What WriteTo has written, D its nodes: their children too, or these are queued.
\* The nodes are a tree with main at its root.
Children(N, n) == Range(N[n].children)

IsTree(N) ==
    /\ N[1].func = "main"
    /\ \A m \in 2..Len(N) : \E n \in 1..m-1 : m \in Children(N, n)

Writes(w) ==
    /\ IsTree(nodes[w])
    /\ pc[w] = "done" => nodeQueue[w] = << >>
    /\ pc[w] \in {"write", "done"} =>
          \E D \in SUBSET (1..Len(nodes[w])) :
             /\ 1 \in D \cup Range(nodeQueue[w])
             /\ \A n \in D : /\ nodes[w][n].func \in Range(written[w])
                            /\ Children(nodes[w], n) \subseteq D \cup Range(nodeQueue[w])

Covering == \A w \in Builds : Finds(w) /\ Writes(w)
=============================================================================
