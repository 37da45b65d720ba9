------------------------------ MODULE Fairness ------------------------------
(***************************************************************************)
(* The fairness analysis: Check walks the call graph of a program and      *)
(* judges the loops it finds in the blocks of every function, from the     *)
(* comments that golang.org/x/tools gives to blocks and from which blocks  *)
(* were seen before.                                                       *)
(*                                                                         *)
(* A program is [root, children, blocks, ops, pointsTo]: the call graph,   *)
(* the blocks of each function in the order of their indices, the channel  *)
(* operations of all functions and the result of the pointer analysis.  A  *)
(* block is [comment, ins, cond, succs]; of its instructions only what the *)
(* analysis looks at is told apart.                                        *)
(***************************************************************************)
EXTENDS Integers, Sequences

CONSTANTS Input,   \* the programs that may be loaded
          NoFn     \* the root of the call graph of a package without main

\* Kinds of instructions: a phi of a named variable, a phi without a name, a
\* receive with ok of the channel that the block ranges over, any other.
Ins == {"index", "phi", "recv", "other", "if", "jump", "return"}

\* Kinds of conditions: a constant, an operator on constants, on one constant,
\* on none, a function call, a negated constant, any other value.
Conds == {"const", "constop", "op", "call", "notconst", "value"}

LoopComments == {"rangeindex.loop", "rangechan.loop", "for.loop"}

\* What golang.org/x/tools builds: blocks have instructions, and one that ends
\* neither in an if nor in a jump has no successor.
ASSUME InputAssumption ==
    \A p \in Input :
        /\ p.root \in DOMAIN p.blocks \cup {NoFn}
        /\ p.root # NoFn => p.children \in [DOMAIN p.blocks -> Seq(DOMAIN p.blocks)]
        /\ \A f \in DOMAIN p.blocks :
             /\ Len(p.blocks[f]) \in Nat
             /\ \A k \in 1..Len(p.blocks[f]) :
                  LET b == p.blocks[f][k]
                  IN  /\ Len(b.ins) \in Nat \ {0} /\ \A i \in 1..Len(b.ins) : b.ins[i] \in Ins
                      /\ \A s \in 1..Len(b.succs) : b.succs[s] \in 1..Len(p.blocks[f])
                      /\ b.comment \in LoopComments => b.ins[Len(b.ins)] = "if"
                      /\ b.ins[Len(b.ins)] = "if" => Len(b.succs) = 2 /\ b.cond \in Conds
                      /\ b.ins[Len(b.ins)] = "jump" => Len(b.succs) = 1
                      /\ b.ins[Len(b.ins)] \notin {"if", "jump"} => Len(b.succs) = 0

VARIABLES
    prog,         \* the program that is analysed
    phase,        \* "built", "visit", "result", "nothing" or "panicked"
    todo,         \* the nodes that Traverse has left, the current one first
    next,         \* the index of the block that Visit looks at next
    visitedBlk,   \* the blocks of the current function that it has seen
    total,        \* the loops found
    unsafe        \* and those of them judged unsafe

vars == <<prog, phase, todo, next, visitedBlk, total, unsafe>>

Blocks(f) == prog.blocks[f]
Current == Blocks(todo[1])[next]
LastIns(b) == b.ins[Len(b.ins)]

-----------------------------------------------------------------------------
\* What pointer analysis says: two channels may be the same.
MayAlias(c, d) == prog.pointsTo[c] \cap prog.pointsTo[d] # {}

\* The operations of every function of the program, called or not, and those
\* on channels whose elements have the same type.
ProgChanOps == prog.ops
PurgeChanOps(ops, ch) == {o \in ops : o.elem = ch.elem}

\* The operations on channels that may be this one.
FindChan(ch) == {o \in PurgeChanOps(ProgChanOps, ch) : MayAlias(o.chan, ch.chan)}

\* isCondFair: a condition is fair unless it is constant or a function call.
IsCondFair(cond) == cond \notin {"const", "constop", "notconst", "call"}

\* isIndexStatic: no phi of the block is of a named variable.
IsIndexStatic(b) == \A i \in 1..Len(b.ins) : b.ins[i] # "index"

IsLikelyUnsafe(b) == ~IsCondFair(b.cond) \/ IsIndexStatic(b)

\* Mutant: a block is marked when it has been judged.
Visited_After(k) == visitedBlk

\* The current block counts as visited while its successors are looked at.
Visited(k) == visitedBlk \cup {k}

-----------------------------------------------------------------------------
Init ==
    /\ prog \in Input
    /\ phase = "built" /\ todo = << >> /\ next = 1 /\ visitedBlk = {}
    /\ total = 0 /\ unsafe = 0

\* Check: without a main function there is no call graph and no result.
Start ==
    /\ phase = "built"
    /\ IF prog.root = NoFn THEN phase' = "nothing" /\ UNCHANGED todo
                           ELSE phase' = "visit" /\ todo' = <<prog.root>>
    /\ UNCHANGED <<prog, next, visitedBlk, total, unsafe>>

\* A block is judged: it is a loop or not, and a loop is unsafe or not.
Judge(isLoop, isUnsafe) ==
    /\ visitedBlk' = Visited(next)
    /\ next' = next + 1
    /\ total' = IF isLoop THEN total + 1 ELSE total
    /\ unsafe' = IF isLoop /\ isUnsafe THEN unsafe + 1 ELSE unsafe
    /\ UNCHANGED <<prog, phase, todo>>

AtBlock(comments) ==
    /\ phase = "visit" /\ todo # << >>
    /\ next <= Len(Blocks(todo[1])) /\ Current.comment \in comments

RangeIndexLoop == AtBlock({"rangeindex.loop"}) /\ Judge(TRUE, FALSE)

\* The first instruction is taken to be the receive.
RangeChanLoop ==
    /\ AtBlock({"rangechan.loop"})
    /\ Current.ins[1] = "recv"
    /\ Judge(TRUE, \A o \in FindChan(Current.ch) : o.kind # "close")

RangeChanPanics ==
    /\ AtBlock({"rangechan.loop"})
    /\ Current.ins[1] # "recv"
    /\ phase' = "panicked"
    /\ UNCHANGED <<prog, todo, next, visitedBlk, total, unsafe>>

ForLoop == AtBlock({"for.loop"}) /\ Judge(TRUE, IsLikelyUnsafe(Current))

\* Any other block is a loop if it leads to a block that was visited, and is
\* looked at only if it has more than one instruction.
LeadsBack(b) ==
    /\ Len(b.ins) > 1
    /\ LastIns(b) \in {"if", "jump"}
    /\ \E s \in 1..Len(b.succs) : b.succs[s] \in Visited(next)

OtherBlock ==
    /\ AtBlock({"other"})
    /\ Judge(LeadsBack(Current), LastIns(Current) = "if" => ~IsCondFair(Current.cond))

\* Traverse goes on with the children of a node, then with its siblings.
NextFunction ==
    /\ phase = "visit" /\ todo # << >> /\ next > Len(Blocks(todo[1]))
    /\ todo' = prog.children[todo[1]] \o Tail(todo)
    /\ next' = 1 /\ visitedBlk' = {}
    /\ UNCHANGED <<prog, phase, total, unsafe>>

Result ==
    /\ phase = "visit" /\ todo = << >>
    /\ phase' = "result"
    /\ UNCHANGED <<prog, todo, next, visitedBlk, total, unsafe>>

Next ==
    \/ Start
    \/ RangeIndexLoop \/ RangeChanLoop \/ RangeChanPanics \/ ForLoop \/ OtherBlock
    \/ NextFunction
    \/ Result

Spec == Init /\ [][Next]_vars

-----------------------------------------------------------------------------
(***************************************************************************)
(* What "0 loops are likely unsafe" promises, stated of the control flow   *)
(* graphs alone.  A set of blocks holds a loop if each of them leads to a  *)
(* block of the set.                                                       *)
(***************************************************************************)
HoldsLoop(f, S) ==
    S # {} /\ \A k \in S : \E s \in 1..Len(Blocks(f)[k].succs) : Blocks(f)[k].succs[s] \in S

Closed(ch) ==
    \E o \in prog.ops : /\ o.kind = "close"
                        /\ prog.pointsTo[o.chan] \cap prog.pointsTo[ch.chan] # {}

\* The ways in which the comments of the package say that a loop is safe.
SafeBlock(b) ==
    \/ b.comment = "rangeindex.loop"
    \/ b.comment = "rangechan.loop" /\ Closed(b.ch)
    \/ b.comment = "for.loop" /\ b.cond \in {"op", "value"} /\ \E i \in 1..Len(b.ins) : b.ins[i] = "index"
    \/ b.comment = "other" /\ LastIns(b) = "if" /\ b.cond \in {"op", "value"}

\* Visit does not look at blocks of one instruction: for { } and a loop that is
\* closed by a jump to a phi are not judged.
Bare(b) == b.comment = "other" /\ Len(b.ins) = 1

\* The functions of the call graph: those in every set that has the root and
\* the children of its functions.
HasChildren(S) == \A f \in S : \A i \in 1..Len(prog.children[f]) : prog.children[f][i] \in S
Analysed ==
    {f \in DOMAIN prog.blocks :
       \A S \in SUBSET DOMAIN prog.blocks : prog.root \in S /\ HasChildren(S) => f \in S}

(***************************************************************************)
(* When the analysis reports that nothing is unsafe, then every loop of    *)
(* every function in the call graph, nested, overlapping or made of gotos, *)
(* goes through a block at which it is safe, except those through a block  *)
(* that Visit does not look at.  It decides from the order of the blocks   *)
(* and from what it has seen, without ever looking for a cycle             *)
(* (fairness.go:35-92).                                                    *)
(***************************************************************************)
NothingUnsafeMissed ==
    phase = "result" /\ unsafe = 0 =>
        \A f \in Analysed : \A S \in SUBSET (1..Len(Blocks(f))) :
            HoldsLoop(f, S) => \E k \in S : SafeBlock(Blocks(f)[k]) \/ Bare(Blocks(f)[k])

-----------------------------------------------------------------------------
\* The inductive invariant.  As long as nothing was judged unsafe, a block that
\* was judged and leads back to itself or to an earlier block, as the block of
\* highest index of a loop does, is safe or not looked at; and the functions
\* that were judged whole are the root and the children of one another, except
\* for what is left to traverse.
SafeJudgement ==
    [f \in DOMAIN prog.blocks |->
       {k \in 1..Len(Blocks(f)) :
          (\E s \in 1..Len(Blocks(f)[k].succs) : Blocks(f)[k].succs[s] \in 1..k)
          => SafeBlock(Blocks(f)[k]) \/ Bare(Blocks(f)[k])}]

Left == {todo[i] : i \in 1..Len(todo)}
Judged ==
    {D \in SUBSET DOMAIN prog.blocks :
       /\ \A f \in D : SafeJudgement[f] = 1..Len(Blocks(f))
       /\ prog.root \in D \cup Left
       /\ \A f \in D : \A i \in 1..Len(prog.children[f]) : prog.children[f][i] \in D \cup Left}

IInv ==
    /\ prog \in Input
    /\ unsafe \in Nat
    /\ next \in Nat \ {0}
    /\ visitedBlk = 1..(next - 1)
    /\ phase = "built" => next = 1 /\ todo = << >>
    /\ phase \in {"visit", "result"} => prog.root # NoFn /\ todo \in Seq(DOMAIN prog.blocks)
    /\ phase = "result" => todo = << >>
    /\ phase \in {"visit", "result"} /\ unsafe = 0 =>
         /\ Judged # {}
         /\ todo # << >> => 1..(next - 1) \subseteq SafeJudgement[todo[1]]
=============================================================================
