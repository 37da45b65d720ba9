------------------------------ MODULE Extract -------------------------------
(***************************************************************************)
(* Run of cfsmextract: from a program to a session.  The functions of the  *)
(* package visit the blocks of main, then those of each goroutine started, *)
(* inlining every call, and append a node for each communication to the    *)
(* tree of the current goroutine.  A block that several edges enter is a   *)
(* label when it is visited first and a goto when it is visited again.     *)
(*                                                                         *)
(* The recursion of visitBlock is a stack of work items, top first:        *)
(*   block    visitBlock of block b                                        *)
(*   ins      the loop of visitBlock, at instruction i of block b          *)
(*   else     visitIf after its first branch, endif after its second       *)
(*   stop     the same for a test of v, ok := <-ch                         *)
(*   selelse  the same for a test of the index of a select                 *)
(*   defers   the loop of visitRunDefers, at deferred call i               *)
(* each in a frame fr of function fn; at is the local variable ifparent of *)
(* visitIf.  Registers are not modelled: an instruction names its channel. *)
(***************************************************************************)
EXTENDS Sessions, Programs

CONSTANTS Program,     \* the programs that may be analysed
          MaxFrames,   \* the frames and
          MaxNodes     \* the nodes for which there is memory

ASSUME MemoryAssumption == MaxFrames \in Nat /\ MaxNodes \in Nat

Main == <<"main", 0>>

\* The selects of block b of f before instruction i, all of them, and those of the
\* blocks that every path from the entry to b leaves.
SelectsBefore(p, f, b, i) ==
    {p[f][b].ins[j].x : j \in {k \in 1..(i-1) : p[f][b].ins[k].op = "select"}}
SelectsIn(p, f, b) == SelectsBefore(p, f, b, Len(p[f][b].ins) + 1)
Dominates(p, f, s, b) ==
    \E S \in SUBSET (1..Len(p[f])) :
       /\ 1 \in S /\ b \notin S
       /\ \A c \in S \ {s} : \A k \in 1..Len(p[f][c].succs) : p[f][c].succs[k] \in S
SelectsAbove(p, f, b) ==
    UNION {SelectsIn(p, f, s) : s \in {c \in 1..Len(p[f]) : Dominates(p, f, c, b)}}

\* The cases of the selects x that are tested, and the nodes of a select.
TestedCases(p, x) ==
    UNION {UNION {{p[f][b].ins[i].n :
                     i \in {j \in 1..Len(p[f][b].ins) : p[f][b].ins[j].op = "ifsel"
                                                       /\ p[f][b].ins[j].x = x}} :
                    b \in 1..Len(p[f])} : f \in DOMAIN p}
NodesOf(i) == Len(i.args) + (IF Blocking(i) THEN 0 ELSE 1)

DeferrableCalls(p) == {Call(f) : f \in DOMAIN p} \cup {Close(x) : x \in Chan}

\* What golang.org/x/tools builds: an If ends a block with two successors and a
\* jump one with one, what a select returns is used where the select has been, and
\* the index of its cases is one of theirs.
IsInstruction(p, i) ==
    /\ i.op \in {"make", "send", "recv", "recvok"} => i.x \in Chan
    /\ i.op \in {"call", "go"} => i.x \in DOMAIN p
    /\ i.op = "go" => <<i.x, i.n>> \in Role
    /\ i.op = "defer" => i.args[1] \in DeferrableCalls(p)
    /\ i.op = "select" =>
          /\ Len(i.args) \in Nat
          /\ \A k \in 1..Len(i.args) : i.args[k].op \in {"send", "recv"}
          /\ \A n \in TestedCases(p, i.x) : n \in Nat /\ n < NodesOf(i)

IsBlock(p, f, b) ==
    LET ins == p[f][b].ins
        succs == p[f][b].succs
    IN  /\ Len(ins) \in Nat \ {0} /\ DOMAIN ins = 1..Len(ins)
        /\ Len(succs) \in 0..2 /\ \A k \in 1..Len(succs) : succs[k] \in 1..Len(p[f])
        /\ \A i \in 1..Len(ins) :
              /\ IsInstruction(p, ins[i])
              /\ ins[i].op \in {"if", "ifrecv", "ifsel"} => i = Len(ins) /\ Len(succs) = 2
              /\ ins[i].op = "jump" => i = Len(ins) /\ Len(succs) = 1
              /\ ins[i].op = "ifsel" =>
                    ins[i].x \in SelectsBefore(p, f, b, i) \cup SelectsAbove(p, f, b)

\* The first case of a select is tested where the select is, and the next one in a
\* block of its own, the second branch of that test.
Ending(p, f, b) == p[f][b].ins[Len(p[f][b].ins)]
IsTest(i, x, n) == i.op = "ifsel" /\ i.x = x /\ i.n = n
TestsInTurn(p, f, b) ==
    LET ins == p[f][b].ins
        i   == Ending(p, f, b)
    IN  i.op = "ifsel" =>
          IF i.n = 0
          THEN Len(ins) > 1 /\ ins[Len(ins) - 1].op = "select" /\ ins[Len(ins) - 1].x = i.x
          ELSE /\ Len(ins) = 1 /\ Cardinality(Preds(p, f, b)) = 1
               /\ \A e \in Preds(p, f, b) :
                     e[2] = 2 /\ IsTest(Ending(p, f, e[1]), i.x, i.n - 1)

\* A select is in one block, a function starts at a block that nothing jumps to, and
\* the init of a package is called by no function and defers nothing.
SelectsApart(p) ==
    \A f, g \in DOMAIN p : \A b \in 1..Len(p[f]), c \in 1..Len(p[g]) :
       SelectsIn(p, f, b) \cap SelectsIn(p, g, c) # {} => f = g /\ b = c
InitOnce(p) ==
    /\ \A f \in DOMAIN p : "init" \notin Targets(p, f, {"call", "go"})
    /\ \A i \in InstrsOf(p, "init") : i.op \notin {"defer", "rundefers"}

IsProgram(p) ==
    /\ IsFiniteSet(DOMAIN p) /\ "init" \in DOMAIN p /\ InitOnce(p)
    /\ SelectsApart(p)
    /\ \A f \in DOMAIN p :
          /\ Len(p[f]) \in Nat /\ DOMAIN p[f] = 1..Len(p[f])
          /\ p[f] # << >> => 1 \in 1..Len(p[f]) /\ Preds(p, f, 1) = {}
          /\ \A b \in 1..Len(p[f]) : IsBlock(p, f, b) /\ TestsInTurn(p, f, b)

ASSUME ProgramAssumption == Main \in Role /\ \A p \in Program : IsProgram(p)

VARIABLES
    prog,      \* the program analysed
    pc,        \* "start", "init", "main", "gortns", or how the run ended:
               \* "done", "crashed" (panic, exit), "overflow" (memory)
    work,      \* the work left
    frames,    \* every frame made: function, caller, role, deferred calls
    role,      \* gortn.role of the current goroutine
    root,      \* its root node
    leaf,      \* the node the next one is appended to
    visited,   \* its blocks that have a label
    queue,     \* extract.goQueue
    tree,      \* the nodes made, with their kind, argument and children
    chans,     \* session.Chans
    types,     \* session.Types
    ifparent,  \* env.ifparent, top last
    selNode,   \* env.selNode: the parent of each select and if it blocks
    recvTest   \* the tests of v, ok := <-ch on a known channel

vars == <<prog, pc, work, frames, role, root, leaf, visited, queue, tree,
          chans, types, ifparent, selNode, recvTest>>

NoFrame  == 0
Toplevel == 1           \* the frame in which init and main are visited

Frame(fn, caller, r) == [fn |-> fn, caller |-> caller, role |-> r, defers |-> << >>]

Item(do, fr, fn, b, i, at) ==
    [do |-> do, fr |-> fr, fn |-> fn, b |-> b, i |-> i, at |-> at]
VisitOf(fr, fn, b) == Item("block", fr, fn, b, 0, 0)

Top == work[1]
Pop == Tail(work)
Cur == prog[Top.fn][Top.b].ins[Top.i]
Succ(k) == VisitOf(Top.fr, Top.fn, prog[Top.fn][Top.b].succs[k])

\* The work after the current instruction.
Rest ==
    IF Top.i < Len(prog[Top.fn][Top.b].ins)
    THEN <<[Top EXCEPT !.i = @ + 1]>> \o Pop
    ELSE Pop

\* Endless inlining ends the program when memory does.
Exhausted == Len(frames) > MaxFrames \/ Len(tree) > MaxNodes

Running == pc \in {"init", "main", "gortns"} /\ work # << >> /\ ~Exhausted
Doing(k) == Running /\ Top.do = k
OnIns(ops) == Doing("ins") /\ Cur.op \in ops

-----------------------------------------------------------------------------
(* The tree.                                                               *)

Leaf(k, x) == [kind |-> k, arg |-> x, kids |-> << >>]

\* The tree with the nodes ns appended to node p, in this order.
Grown(p, ns) ==
    [tree EXCEPT ![p].kids = @ \o [i \in 1..Len(ns) |-> Len(tree) + i]] \o ns

\* AddNode, with p for the leaf.
AddNodeAt(p, k, x) ==
    /\ tree' = Grown(p, <<Leaf(k, x)>>)
    /\ leaf' = Len(tree) + 1
AddNode(k, x) == AddNodeAt(leaf, k, x)

NoArg == Main          \* the argument of nodes that have none

BlockLabel_NoIndex(fn, b) == <<fn, "#", 0>>
BlockLabel(fn, b) == <<fn, "#", b>>

\* MakeChan and MakeExtChan of the session.
MadeChan_Forgotten(c) == chans
MadeChan(c) == chans \cup {c}

\* The blocks with a label once b has one, and those of a new goroutine.
Labelled_Never(b) == visited
Labelled(b) == visited \cup {b}
NoneLabelled == {}

\* The queue with the goroutine of frame k.
Queued_ByMain(k) == IF pc = "gortns" THEN queue ELSE Append(queue, k)
Queued(k) == Append(queue, k)

-----------------------------------------------------------------------------
Init ==
    /\ prog \in Program
    /\ pc = "start"
    /\ work = << >>
    /\ frames = <<Frame("", NoFrame, Main)>>
    /\ role = Main
    /\ root = 1
    /\ leaf = 1
    /\ visited = {}
    /\ queue = << >>
    /\ tree = <<Leaf("label", Main)>>
    /\ chans = {}
    /\ types = << >>
    /\ ifparent = << >>
    /\ selNode = << >>
    /\ recvTest = {}

\* visitFunc: the work of visiting fn in frame fr, none if it has no blocks.
VisitFunc(fr, fn) ==
    IF prog[fn] = << >> THEN << >> ELSE <<VisitOf(fr, fn, 1)>>

RunInit ==
    /\ pc = "start"
    /\ pc' = "init"
    /\ work' = VisitFunc(Toplevel, "init")
    /\ UNCHANGED <<prog, frames, role, root, leaf, visited, queue, tree,
                   chans, types, ifparent, selNode, recvTest>>

\* A program without main ends the analysis (os.Exit).
RunMain ==
    /\ pc = "init"
    /\ work = << >> /\ ~Exhausted
    /\ IF "main" \in DOMAIN prog
       THEN pc' = "main" /\ work' = VisitFunc(Toplevel, "main")
       ELSE pc' = "crashed" /\ UNCHANGED work
    /\ UNCHANGED <<prog, frames, role, root, leaf, visited, queue, tree,
                   chans, types, ifparent, selNode, recvTest>>

\* The tree of the current role is complete.
SetType == types' = [r \in DOMAIN types \cup {role} |->
                       IF r = role THEN root ELSE types[r]]

NextGortn ==
    /\ pc \in {"main", "gortns"}
    /\ work = << >> /\ ~Exhausted
    /\ queue # << >>
    /\ SetType
    /\ LET f == frames[Head(queue)]
       IN  /\ work' = VisitFunc(Head(queue), f.fn)
           /\ role' = f.role
           /\ tree' = Append(tree, Leaf("label", f.role))
    /\ root' = Len(tree) + 1
    /\ leaf' = Len(tree) + 1
    /\ visited' = NoneLabelled
    /\ queue' = Tail(queue)
    /\ pc' = "gortns"
    /\ UNCHANGED <<prog, frames, chans, ifparent, selNode, recvTest>>

EndRun ==
    /\ pc \in {"main", "gortns"}
    /\ work = << >> /\ ~Exhausted
    /\ queue = << >>
    /\ SetType
    /\ pc' = "done"
    /\ UNCHANGED <<prog, work, frames, role, root, leaf, visited, queue, tree,
                   chans, ifparent, selNode, recvTest>>

-----------------------------------------------------------------------------
(* Blocks and instructions.                                                *)

VisitBlock ==
    /\ Doing("block")
    /\ LET block == <<Top.fn, Top.b>>
           label == BlockLabel(Top.fn, Top.b)
           enter == <<Item("ins", Top.fr, Top.fn, Top.b, 1, 0)>> \o Pop
       IN  IF Cardinality(Preds(prog, Top.fn, Top.b)) > 1
           THEN IF block \in visited
                THEN AddNode("goto", label) /\ work' = Pop /\ UNCHANGED visited
                ELSE /\ AddNode("label", label)
                     /\ visited' = Labelled(block)
                     /\ work' = enter
           ELSE work' = enter /\ UNCHANGED <<tree, leaf, visited>>
    /\ UNCHANGED <<prog, pc, frames, role, root, queue, chans, types, ifparent,
                   selNode, recvTest>>

\* MakeChan and a send or receive; a channel that no MakeChan defined is
\* created as external.
VisitComm ==
    /\ OnIns({"make", "send", "recv"})
    /\ AddNode(IF Cur.op = "make" THEN "skip" ELSE Cur.op,
               IF Cur.op = "make" THEN NoArg ELSE Cur.x)
    /\ chans' = MadeChan(Cur.x)
    /\ work' = Rest
    /\ UNCHANGED <<prog, pc, frames, role, root, visited, queue, types,
                   ifparent, selNode, recvTest>>

\* v, ok := <-ch leaves the receive to the test of ok, if ch is known.
VisitRecvOk ==
    /\ OnIns({"recvok"})
    /\ IF Cur.x \in chans
       THEN recvTest' = recvTest \cup {Cur.x} /\ UNCHANGED <<tree, leaf>>
       ELSE AddNode("recv", Cur.x) /\ UNCHANGED recvTest
    /\ chans' = MadeChan(Cur.x)
    /\ work' = Rest
    /\ UNCHANGED <<prog, pc, frames, role, root, visited, queue, types,
                   ifparent, selNode>>

\* The last of the nodes ns once they are in the tree; the leaf, if there are none.
LastNode_Parent(ns) == leaf
LastNode(ns) == IF ns = << >> THEN leaf ELSE Len(tree) + Len(ns)

\* A node for each case, all children of the leaf, then one for the default.
\* A case on an unknown channel is a panic.
VisitSelect ==
    /\ OnIns({"select"})
    /\ IF \E k \in 1..Len(Cur.args) : Cur.args[k].x \notin chans
       THEN pc' = "crashed" /\ UNCHANGED <<work, tree, leaf, selNode>>
       ELSE LET cases == [k \in 1..Len(Cur.args) |->
                            Leaf(Cur.args[k].op, Cur.args[k].x)]
                ns    == IF Blocking(Cur) THEN cases
                         ELSE Append(cases, Leaf("skip", NoArg))
            IN  /\ tree' = Grown(leaf, ns)
                /\ leaf' = LastNode(ns)
                /\ selNode' = [x \in DOMAIN selNode \cup {Cur.x} |->
                      IF x = Cur.x THEN [parent |-> leaf, blocking |-> Blocking(Cur)]
                      ELSE selNode[x]]
                /\ work' = Rest
                /\ UNCHANGED pc
    /\ UNCHANGED <<prog, frames, role, root, visited, queue, chans, types,
                   ifparent, recvTest>>

VisitJump ==
    /\ OnIns({"jump"})
    /\ work' = <<Succ(1)>> \o Rest
    /\ UNCHANGED <<prog, pc, frames, role, root, leaf, visited, queue, tree,
                   chans, types, ifparent, selNode, recvTest>>

\* Return has no node, and neither has any instruction not handled.
VisitReturn ==
    /\ OnIns({"return", "panic"})
    /\ work' = Rest
    /\ UNCHANGED <<prog, pc, frames, role, root, leaf, visited, queue, tree,
                   chans, types, ifparent, selNode, recvTest>>

-----------------------------------------------------------------------------
(* visitIf, up to the call on each branch and after it.                    *)

Then(do, at) == [Top EXCEPT !.do = do, !.at = at]

\* The node from which the second branch starts: the top of ifparent.
ElseParent_Leaf == leaf
ElseParent == Last(ifparent)

\* The branches are children of one node.
VisitIf ==
    /\ OnIns({"if"}) \/ (OnIns({"ifrecv"}) /\ Cur.x \notin recvTest)
    /\ ifparent' = Append(ifparent, leaf)
    /\ AddNode("skip", NoArg)
    /\ work' = <<Succ(1), Then("else", 0)>> \o Pop
    /\ UNCHANGED <<prog, pc, frames, role, root, visited, queue, chans, types,
                   selNode, recvTest>>
VisitElse ==
    /\ Doing("else")
    /\ AddNodeAt(ElseParent, "skip", NoArg)
    /\ work' = <<Succ(2), Then("endif", 0)>> \o Pop
    /\ UNCHANGED <<prog, pc, frames, role, root, visited, queue, chans, types,
                   ifparent, selNode, recvTest>>
EndIf ==
    /\ Doing("endif")
    /\ ifparent' = Front(ifparent)
    /\ work' = Pop
    /\ UNCHANGED <<prog, pc, frames, role, root, leaf, visited, queue, tree,
                   chans, types, selNode, recvTest>>

\* The branches of a test of ok are the receive and the receive of STOP.
VisitIfRecv ==
    /\ OnIns({"ifrecv"})
    /\ Cur.x \in recvTest
    /\ AddNode("recv", Cur.x)
    /\ work' = <<Succ(1), Then("stop", leaf)>> \o Pop
    /\ UNCHANGED <<prog, pc, frames, role, root, visited, queue, chans, types,
                   ifparent, selNode, recvTest>>
VisitStop ==
    /\ Doing("stop")
    /\ AddNodeAt(Top.at, "stop", Cur.x)
    /\ work' = <<Succ(2)>> \o Pop
    /\ UNCHANGED <<prog, pc, frames, role, root, visited, queue, chans, types,
                   ifparent, selNode, recvTest>>

\* A test of the index of a select goes on at the node of its case; without a
\* default, the other branch goes on where the first one ended.
CaseOf(x, n) == tree[selNode[x].parent].kids[n + 1]
ElseLeaf_NoDefault(x, n) == leaf
ElseLeaf(x, n) ==
    IF /\ ~selNode[x].blocking
       /\ Len(tree[selNode[x].parent].kids) > n + 1
    THEN CaseOf(x, n + 1)
    ELSE leaf

VisitIfSel ==
    /\ OnIns({"ifsel"})
    /\ leaf' = CaseOf(Cur.x, Cur.n)
    /\ work' = <<Succ(1), Then("selelse", 0)>> \o Pop
    /\ UNCHANGED <<prog, pc, frames, role, root, visited, queue, tree, chans,
                   types, ifparent, selNode, recvTest>>
VisitSelElse ==
    /\ Doing("selelse")
    /\ leaf' = ElseLeaf(Cur.x, Cur.n)
    /\ work' = <<Succ(2)>> \o Pop
    /\ UNCHANGED <<prog, pc, frames, role, root, visited, queue, tree, chans,
                   types, ifparent, selNode, recvTest>>

-----------------------------------------------------------------------------
(* Calls.                                                                  *)

\* The frames from k to the top level: k, its caller, ...
Stack(fs, k) ==
    LET up[j \in 0..Len(fs)] ==
          IF j = NoFrame THEN << >> ELSE <<j>> \o up[fs[j].caller]
    IN  up[k]

\* isRecursive, for the functions of the frames on the stack, the callee's
\* first: there is an earlier call of it (foundFr), and from there on the
\* functions between the two occur again.
Repeats(fns) ==
    \E m \in 2..Len(fns) :
       /\ fns[m] = fns[1]
       /\ \A j \in 2..(m-1) : fns[j] # fns[1]
       /\ \A j \in 2..m : m + j - 2 <= Len(fns) /\ fns[m + j - 2] = fns[j]

IsRecursive(fs, k) ==
    Repeats([j \in 1..Len(Stack(fs, k)) |-> fs[Stack(fs, k)[j]].fn])

\* callCommon for the call i, then the work rest.  Closing an unknown channel
\* is a panic.
CallCommon(i, rest) ==
    \/ /\ i.op = "close"
       /\ IF i.x \in chans
          THEN AddNode("end", i.x) /\ work' = rest /\ UNCHANGED pc
          ELSE pc' = "crashed" /\ UNCHANGED <<work, tree, leaf>>
       /\ UNCHANGED frames
    \/ /\ i.op = "call"
       /\ LET k  == Len(frames) + 1
              fs == Append(frames, Frame(i.x, Top.fr, role))
          IN  /\ frames' = fs
              /\ work' = (IF IsRecursive(fs, k) THEN << >> ELSE VisitFunc(k, i.x))
                         \o rest
       /\ UNCHANGED <<pc, tree, leaf>>

VisitCall ==
    /\ OnIns({"call", "close"})
    /\ CallCommon(Cur, Rest)
    /\ UNCHANGED <<prog, role, root, visited, queue, chans, types, ifparent,
                   selNode, recvTest>>

\* callGo: the goroutine is named by its function and the position of the
\* statement, and visited after the current one.
CallGo ==
    /\ OnIns({"go"})
    /\ frames' = Append(frames, Frame(Cur.x, Top.fr, <<Cur.x, Cur.n>>))
    /\ queue' = Queued(Len(frames) + 1)
    /\ work' = Rest
    /\ UNCHANGED <<prog, pc, role, root, leaf, visited, tree, chans, types,
                   ifparent, selNode, recvTest>>

VisitDefer ==
    /\ OnIns({"defer"})
    /\ frames' = [frames EXCEPT ![Top.fr].defers = Append(@, Cur.args[1])]
    /\ work' = Rest
    /\ UNCHANGED <<prog, pc, role, root, leaf, visited, queue, tree, chans,
                   types, ifparent, selNode, recvTest>>

VisitRunDefers ==
    /\ OnIns({"rundefers"})
    /\ work' = <<[Top EXCEPT !.do = "defers", !.i = Len(frames[Top.fr].defers)]>>
               \o Rest
    /\ UNCHANGED <<prog, pc, frames, role, root, leaf, visited, queue, tree,
                   chans, types, ifparent, selNode, recvTest>>

DeferAt(fr, i) == frames[fr].defers[i]

\* One iteration of the loop of visitRunDefers, or its end.
RunDefer ==
    /\ Doing("defers")
    /\ IF Top.i = 0
       THEN work' = Pop /\ UNCHANGED <<pc, frames, tree, leaf>>
       ELSE CallCommon(DeferAt(Top.fr, Top.i), <<[Top EXCEPT !.i = @ - 1]>> \o Pop)
    /\ UNCHANGED <<prog, role, root, visited, queue, chans, types, ifparent,
                   selNode, recvTest>>

Overflow ==
    /\ pc \in {"init", "main", "gortns"}
    /\ Exhausted
    /\ pc' = "overflow"
    /\ UNCHANGED <<prog, work, frames, role, root, leaf, visited, queue, tree,
                   chans, types, ifparent, selNode, recvTest>>

Terminated ==
    /\ pc \in {"done", "crashed", "overflow"}
    /\ UNCHANGED vars

Next ==
    \/ RunInit
    \/ RunMain
    \/ NextGortn
    \/ EndRun
    \/ VisitBlock
    \/ VisitComm
    \/ VisitRecvOk
    \/ VisitSelect
    \/ VisitJump
    \/ VisitReturn
    \/ VisitIf
    \/ VisitElse
    \/ EndIf
    \/ VisitIfRecv
    \/ VisitStop
    \/ VisitIfSel
    \/ VisitSelElse
    \/ VisitCall
    \/ CallGo
    \/ VisitDefer
    \/ VisitRunDefers
    \/ RunDefer
    \/ Overflow
    \/ Terminated

Spec == Init /\ [][Next]_vars
FairSpec == Spec /\ WF_vars(Next)

-----------------------------------------------------------------------------
(* Properties.                                                             *)

WorkKind == {"block", "ins", "else", "endif", "stop", "selelse", "defers"}

\* The types of the variables; every reference to a node or a frame is to one
\* that was made, and a child is younger than its parent.
TypeOK ==
    /\ pc \in {"start", "init", "main", "gortns", "done", "crashed", "overflow"}
    /\ \A j \in DOMAIN work :
          /\ work[j].do \in WorkKind
          /\ work[j].fr \in DOMAIN frames
          /\ work[j].at \in 0..Len(tree)
          /\ work[j].b \in DOMAIN prog[work[j].fn]
    /\ \A k \in DOMAIN frames : frames[k].caller \in 0..(k-1) /\ frames[k].role \in Role
    /\ \A j \in DOMAIN queue : queue[j] \in DOMAIN frames
    /\ role \in Role
    /\ {root, leaf} \subseteq DOMAIN tree
    /\ \A n \in DOMAIN tree :
          /\ tree[n].kind \in Kind
          /\ tree[n].kind \in CommKind => tree[n].arg \in chans
          /\ \A j \in DOMAIN tree[n].kids : tree[n].kids[j] \in (n+1)..Len(tree)
    /\ chans \subseteq Chan
    /\ \A r \in DOMAIN types : r \in Role /\ types[r] \in DOMAIN tree
    /\ Range(ifparent) \subseteq DOMAIN tree
    /\ \A x \in DOMAIN selNode : selNode[x].parent \in DOMAIN tree
    /\ recvTest \subseteq chans

\* visitBlock and visitInst go on at a leaf without children: whatever was
\* appended before, by another branch, another case or an inlined call, no
\* node becomes an alternative of a continuation it should follow.
FreshLeaf ==
    Running /\ Top.do \in {"block", "ins"} => tree[leaf].kids = << >>

\* The nodes below n, n included; nodeToMachine visits m before n when n is below
\* m, or below a later child of a node that m is below.
Kids(n)  == Range(tree[n].kids)
Under(n) == Closure([m \in DOMAIN tree |-> Kids(m)], {n})
Precedes(m, n) ==
    \/ n \in Under(m)
    \/ \E p \in DOMAIN tree : \E j, k \in DOMAIN tree[p].kids :
          j < k /\ m \in Under(tree[p].kids[j]) /\ n \in Under(tree[p].kids[k])

\* In the tree of each role a label occurs once, and every goto comes after
\* the label of its name: NewCFSMs never follows a goto to a state it has not
\* made.
LabelBeforeGoto ==
    pc = "done" => \A r \in DOMAIN types :
       LET labels == {n \in Under(types[r]) : tree[n].kind = "label"} IN
       /\ \A m, n \in labels : tree[m].arg = tree[n].arg => m = n
       /\ \A n \in Under(types[r]) : tree[n].kind = "goto" =>
             \E m \in labels : tree[m].arg = tree[n].arg /\ Precedes(m, n)

\* Every goroutine that is started gets a tree, those started by goroutines
\* included.
GoroutinesVisited ==
    pc = "done" => \A k \in DOMAIN frames : frames[k].role \in DOMAIN types

\* Functions that lead back to themselves by calls and go statements, other
\* than by calling themselves directly.
Inlines(p, f) == (Targets(p, f, {"call"}) \ {f}) \cup Targets(p, f, {"go"})
Led(p, f) == Closure([g \in DOMAIN p |-> Inlines(p, g)], Inlines(p, f))
Endless == \E f \in DOMAIN prog : f \in Led(prog, f)

\* Calls are inlined at most once: the only ones that lead back to a function are
\* those of itself, and main, whose frame at the top level is of no function, has none.
Inlinable ==
    /\ ~Endless
    /\ "main" \in DOMAIN prog => "main" \notin Targets(prog, "main", {"call"})

\* Run ends: loops are not unrolled, and recursion is not inlined as long as
\* each function calls itself directly and starts no goroutine of its kind.
Ends == Endless \/ <>(pc \in {"done", "crashed"})

-----------------------------------------------------------------------------
(* What a comment says and the code does not do.                           *)

\* "is recursive if all matches": a call that repeats a sequence of calls
\* already on the stack is not inlined again.
RepetitionDetected ==
    Running =>
       LET fns == [j \in 1..Len(Stack(frames, Top.fr)) |->
                     frames[Stack(frames, Top.fr)[j]].fn]
       IN  ~ \E m \in 1..Len(fns) :
               /\ 3 * m <= Len(fns)
               /\ \A j \in 1..(2*m) : fns[j] = fns[j + m]
-----------------------------------------------------------------------------
\* The inductive invariant, in parts: the frames fs, the tree t over the channels
\* cs, and the nodes sel of the selects of program p.
FrameOf(p) == [fn : DOMAIN p \cup {""}, caller : Nat, role : Role,
               defers : Seq(DeferrableCalls(p))]
AreFrames(p, fs) ==
    /\ fs \in Seq(FrameOf(p))
    /\ 1 \in DOMAIN fs
    /\ \A k \in 1..Len(fs) : fs[k].caller < k

ArgOf(p) == Chan \cup Role \cup {BlockLabel(f, b) : f \in DOMAIN p, b \in Nat}
NodeOf(p) == [kind : Kind, arg : ArgOf(p), kids : Seq(Nat)]
IsTree(p, t, cs) ==
    /\ t \in Seq(NodeOf(p))
    /\ \A n \in 1..Len(t) :
          /\ t[n].kind \in CommKind => t[n].arg \in cs
          /\ \A j \in 1..Len(t[n].kids) : t[n].kids[j] \in (n+1)..Len(t)

AreSelects(p, t, sel) ==
    \A x \in DOMAIN sel :
       /\ sel[x].parent \in 1..Len(t)
       /\ \A n \in TestedCases(p, x) : n \in Nat /\ n < Len(t[sel[x].parent].kids)

\* The work that can be left: the selects above a block have their nodes when it
\* is visited, a branch waits at its If, a test of ok knows its channel.
ItemsOf(p, fs, t, cs, sel) ==
    {w \in [do : WorkKind, fr : 1..Len(fs), fn : DOMAIN p, b : Nat, i : Nat, at : 0..Len(t)] :
       LET ins == p[w.fn][w.b].ins
       IN  /\ w.b \in 1..Len(p[w.fn])
           /\ SelectsAbove(p, w.fn, w.b) \subseteq DOMAIN sel
           /\ w.do \notin {"block", "defers"} =>
                 /\ w.i \in 1..Len(ins)
                 /\ SelectsBefore(p, w.fn, w.b, w.i) \subseteq DOMAIN sel
           /\ w.do \in {"else", "endif"} => ins[w.i].op \in {"if", "ifrecv"}
           /\ w.do = "stop" => ins[w.i].op = "ifrecv" /\ ins[w.i].x \in cs /\ w.at # 0
           /\ w.do = "selelse" => ins[w.i].op = "ifsel"
           /\ w.do = "defers" => w.i <= Len(fs[w.fr].defers)}
Items == ItemsOf(prog, frames, tree, chans, selNode)

\* The ifs whose parent is on ifparent.
IsOpen(w) == w.do \in {"else", "endif"}
Open(s) == {j \in 1..Len(s) : IsOpen(s[j])}

\* The frames of functions, all but that of the top level.
Called(p, fs) == {k \in 1..Len(fs) : fs[k].fn \in DOMAIN p}

\* The roles that have a tree, or get one: that of the current goroutine and those
\* that wait.
Treed(ts, r, q, fs) == DOMAIN ts \cup {r} \cup {fs[q[j]].role : j \in 1..Len(q)}

IInv ==
    /\ pc \in {"start", "init", "main", "gortns", "done", "crashed", "overflow"}
    /\ IsProgram(prog)
    /\ AreFrames(prog, frames)
    /\ IsTree(prog, tree, chans)
    /\ root \in 1..Len(tree) /\ leaf \in 1..Len(tree)
    /\ AreSelects(prog, tree, selNode)
    /\ work \in Seq(Items) /\ (pc = "start" => work = << >>)
    /\ ifparent \in Seq(1..Len(tree)) /\ Len(ifparent) = Cardinality(Open(work))
    /\ queue \in Seq(Called(prog, frames))
    /\ role \in Role
    /\ chans \subseteq Chan /\ recvTest \subseteq chans
    /\ \A r \in DOMAIN types : r \in Role /\ types[r] \in 1..Len(tree)
    /\ \A k \in 1..Len(frames) :
          frames[k].role \in IF pc = "done" THEN DOMAIN types
                             ELSE Treed(types, role, queue, frames)
=============================================================================
