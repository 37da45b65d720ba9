-------------------------- MODULE CallGraphProofs ---------------------------
(***************************************************************************)
(* The invariants of the call graph for every set of builders and of       *)
(* programs: the blocks that the visit is in, the steps that change only   *)
(* what is left to visit, the other steps, and the theorems; and Covering, *)
(* that the visit passes over none of main's blocks and WriteTo no node.   *)
(***************************************************************************)
EXTENDS CallGraph, SequenceTheorems, Lemmas

-----------------------------------------------------------------------------
(* The programs and their blocks. *)

LEMMA ProgramsAreTyped ==
    ASSUME TypeOK, NEW w \in Builds
    PROVE  w \in Builder /\ IsProgram(prog[w])
BY LoadedAssumption DEF TypeOK, Builds

\* The entry of a function with blocks is one of the blocks it leads to, and so
\* is every successor of one.
LEMMA EntryLed ==
    ASSUME NEW p, IsProgram(p), NEW f \in DOMAIN p, p[f] # << >>
    PROVE  1 \in BlocksOf(p, f)
BY DEF IsProgram, BlocksOf, IsClosed

\* A successor of a block that the entry leads to is one too.
LEMMA SuccessorLed ==
    ASSUME NEW p, IsProgram(p), NEW f \in DOMAIN p, NEW b \in BlocksOf(p, f),
           NEW k \in 1..Len(p[f][b].succs)
    PROVE  p[f][b].succs[k] \in BlocksOf(p, f)
<1>1. b \in 1..Len(p[f]) /\ p[f][b].succs[k] \in 1..Len(p[f])
  BY Zenon DEF BlocksOf, IsProgram, IsBlock
<1>2. ASSUME NEW S \in SUBSET (1..Len(p[f])), IsClosed(p, f, S)
      PROVE  p[f][b].succs[k] \in S
  BY <1>2 DEF BlocksOf, IsClosed
<1>. QED  BY <1>1, <1>2 DEF BlocksOf

-----------------------------------------------------------------------------
(* What is left to visit. *)

\* The conditions on an item whose fields are given.
IsGood(w, n, fn, b, i, child) ==
    /\ n \in 1..Len(nodes[w]) /\ fn \in DOMAIN prog[w]
    /\ b \in Nat /\ i \in Nat /\ child \in Nat \ {0}
    /\ fn = nodes[w][n].func
    /\ b \in BlocksOf(prog[w], fn)
    /\ i <= Len(prog[w][fn][b].ins)

\* A good item has good fields.
LEMMA FieldsOfGood ==
    ASSUME NEW w, NEW t \in GoodItem(w)
    PROVE  /\ IsGood(w, t.n, t.fn, t.b, t.i, t.child)
           /\ t = [n |-> t.n, fn |-> t.fn, b |-> t.b, i |-> t.i, child |-> t.child]
BY DEF GoodItem, IsGood

\* Good fields make a good item.
LEMMA GoodOfFields ==
    ASSUME NEW w, NEW n, NEW fn, NEW b, NEW i, NEW child, IsGood(w, n, fn, b, i, child)
    PROVE  [n |-> n, fn |-> fn, b |-> b, i |-> i, child |-> child] \in GoodItem(w)
BY DEF GoodItem, IsGood

\* What is left to visit is good, the top and the rest.
LEMMA TopIsGood ==
    ASSUME IInv, NEW w \in Builds, Doing(w)
    PROVE  /\ work[w] \in Seq(GoodItem(w))
           /\ Top(w) \in GoodItem(w)
           /\ Tail(work[w]) \in Seq(GoodItem(w))
<1>1. work[w] \in Seq(GoodItem(w)) /\ work[w] # << >>
  BY DEF IInv, Doing
<1>2. 1 \in 1..Len(work[w])
  BY <1>1, EmptySeq
<1>. QED  BY <1>1, <1>2, ElementOfSeq, HeadTailProperties DEF Top

\* One more item, or two, before good ones.
LEMMA GoodBefore ==
    ASSUME NEW S, NEW x \in S, NEW s \in Seq(S)
    PROVE  <<x>> \o s \in Seq(S)
<1>1. <<x>> \in Seq(S)
  OBVIOUS
<1>. QED  BY <1>1, ConcatProperties

\* Two items on top of the others.
LEMMA TwoGoodBefore ==
    ASSUME NEW S, NEW x \in S, NEW y \in S, NEW s \in Seq(S)
    PROVE  <<x, y>> \o s \in Seq(S)
<1>1. <<x, y>> \in Seq(S)
  OBVIOUS
<1>. QED  BY <1>1, ConcatProperties

\* The block and the instruction that the visit is at are the program's.
TopBlock(w) == prog[w][Top(w).fn][Top(w).b]

\* A program has the blocks that x/tools builds.
LEMMA BlockOfProgram ==
    ASSUME NEW p, IsProgram(p), NEW f \in DOMAIN p, NEW b \in 1..Len(p[f])
    PROVE  IsBlock(p, f, p[f][b])
BY DEF IsProgram

\* Such a block is not empty.
LEMMA BlockHasInstructions ==
    ASSUME NEW p, NEW f, NEW block, IsBlock(p, f, block)
    PROVE  Len(block.ins) \in Nat /\ 0 < Len(block.ins)
<1>1. Len(block.ins) \in Nat \ {0}
  BY DEF IsBlock
<1>. QED  BY <1>1

\* The block that is visited is one of the program.
LEMMA BlockAtTop ==
    ASSUME IInv, NEW w \in Builds, Doing(w)
    PROVE  /\ IsProgram(prog[w])
           /\ IsGood(w, Top(w).n, Top(w).fn, Top(w).b, Top(w).i, Top(w).child)
           /\ Top(w).b \in 1..Len(prog[w][Top(w).fn])
           /\ IsBlock(prog[w], Top(w).fn, TopBlock(w))
<1>1. /\ IsGood(w, Top(w).n, Top(w).fn, Top(w).b, Top(w).i, Top(w).child)
      /\ IsProgram(prog[w])
  <2>1. Top(w) \in GoodItem(w) /\ TypeOK
    BY TopIsGood, ZenonT(60) DEF IInv
  <2>. QED  BY <2>1, FieldsOfGood, ProgramsAreTyped, Zenon
<1>2. Top(w).b \in 1..Len(prog[w][Top(w).fn]) /\ Top(w).fn \in DOMAIN prog[w]
  BY <1>1 DEF BlocksOf, IsGood
<1>3. IsBlock(prog[w], Top(w).fn, prog[w][Top(w).fn][Top(w).b])
  BY <1>1, <1>2, BlockOfProgram, Zenon
<1>. QED  BY <1>1, <1>2, <1>3, Zenon DEF TopBlock

\* What is called now is called by the function of the current item.
LEMMA CurrentInstruction ==
    ASSUME IInv, NEW w \in Builds, Doing(w), Top(w).i > 0
    PROVE  /\ Top(w).i \in 1..Len(TopBlock(w).ins)
           /\ Cur(w) = TopBlock(w).ins[Top(w).i]
           /\ Cur(w).op \in CallOps => Cur(w).x \in CalledBy(prog[w], Top(w).fn)
<1>1. Top(w).i \in Nat /\ Top(w).i <= Len(TopBlock(w).ins) /\ Len(TopBlock(w).ins) \in Nat
  <2>1. IsGood(w, Top(w).n, Top(w).fn, Top(w).b, Top(w).i, Top(w).child)
    BY BlockAtTop, Zenon
  <2>2. Len(TopBlock(w).ins) \in Nat
    BY BlockAtTop, BlockHasInstructions, Zenon
  <2>. QED  BY <2>1, <2>2 DEF IsGood, TopBlock
<1>2. Top(w).i \in 1..Len(TopBlock(w).ins) /\ Cur(w) = TopBlock(w).ins[Top(w).i]
  BY <1>1, SMTT(40) DEF Cur, TopBlock
<1>3. ASSUME Cur(w).op \in CallOps PROVE Cur(w).x \in CalledBy(prog[w], Top(w).fn)
  <2>1. Cur(w).x \in DOMAIN prog[w]
    <3>1. IsBlock(prog[w], Top(w).fn, TopBlock(w))
      BY BlockAtTop, Zenon
    <3>. QED  BY <1>2, <1>3, <3>1, Zenon DEF IsBlock
  <2>2. Top(w).b \in BlocksOf(prog[w], Top(w).fn)
    BY BlockAtTop, Zenon DEF IsGood
  <2>. QED  BY <1>2, <1>3, <2>1, <2>2, Zenon DEF CalledBy, TopBlock
<1>. QED  BY <1>2, <1>3, SMTT(40)

\* After an instruction comes the next one, or what the caller left.
LEMMA RestIsGood ==
    ASSUME IInv, NEW w \in Builds, Doing(w), Top(w).i > 0
    PROVE  Rest(w) \in Seq(GoodItem(w))
<1> DEFINE t == Top(w)
           next == Item(t.n, t.fn, t.b, t.i + 1)
<1>1. t \in GoodItem(w) /\ Tail(work[w]) \in Seq(GoodItem(w))
  BY TopIsGood
<1>2. CASE t.i < Len(prog[w][t.fn][t.b].ins)
  <2>2. IsGood(w, t.n, t.fn, t.b, t.i + 1, 1)
    <3>1. IsGood(w, t.n, t.fn, t.b, t.i, t.child)
      BY BlockAtTop, Zenon
    <3>2. t.i \in Nat /\ Len(prog[w][t.fn][t.b].ins) \in Nat
      BY <3>1, BlockAtTop, BlockHasInstructions, Zenon DEF IsGood, TopBlock
    <3> HIDE DEF t
    <3>3. t.i + 1 \in Nat
      BY <3>2
    <3>4. t.i + 1 <= Len(prog[w][t.fn][t.b].ins)
      BY <1>2, <3>2
    <3>. QED  BY <3>1, <3>3, <3>4 DEF IsGood
  <2>3. next \in GoodItem(w)
    BY <2>2, GoodOfFields DEF Item
  <2>4. <<next>> \o Tail(work[w]) \in Seq(GoodItem(w))
    BY <1>1, <2>3, GoodBefore
  <2>. QED  BY <1>2, <2>4 DEF Rest
<1>3. CASE ~(t.i < Len(prog[w][t.fn][t.b].ins))
  BY <1>1, <1>3 DEF Rest
<1>. QED  BY <1>2, <1>3

\* A successor of the current block may be visited.
LEMMA VisitIsGood ==
    ASSUME IInv, NEW w \in Builds, Doing(w),
           NEW k \in 1..Len(TopBlock(w).succs)
    PROVE  Visit(w, k) \in GoodItem(w)
<1> DEFINE next == TopBlock(w).succs[k]
           fn == Top(w).fn
<1>1. fn \in DOMAIN prog[w] /\ Top(w).b \in BlocksOf(prog[w], fn) /\ IsProgram(prog[w])
  BY BlockAtTop DEF IsGood
<1>2. next \in BlocksOf(prog[w], fn)
  BY <1>1, SuccessorLed DEF TopBlock
<1>3. next \in 1..Len(prog[w][fn])
  BY <1>2 DEF BlocksOf
<1>4. Len(prog[w][fn][next].ins) \in Nat
  BY <1>1, <1>3, BlockOfProgram, BlockHasInstructions, Zenon
<1>5. IsGood(w, Top(w).n, fn, next, 0, 1)
  <2>1. IsGood(w, Top(w).n, fn, Top(w).b, Top(w).i, Top(w).child)
    BY BlockAtTop, Zenon
  <2>2. next \in Nat /\ 0 \in Nat /\ 1 \in Nat \ {0} /\ 0 <= Len(prog[w][fn][next].ins)
    BY <1>3, <1>4
  <2>. QED  BY <1>2, <2>1, <2>2, Zenon DEF IsGood
<1>. QED  BY <1>5, GoodOfFields DEF Visit, Item, TopBlock

-----------------------------------------------------------------------------
(* The steps. *)

\* The types of the items of any builder, and what TypeOK says of good ones.
ItemType == [n : Nat, fn : Func, b : Nat, i : Nat, child : Nat \ {0}]

Exists(w, t) ==
    /\ t.n \in 1..Len(nodes[w])
    /\ t.fn \in DOMAIN prog[w]
    /\ t.b \in 1..Len(prog[w][t.fn])
    /\ t.i \in 0..Len(prog[w][t.fn][t.b].ins)

Control == {"start", "made", "marking", "visit", "write", "done", "failed"}

\* TypeOK in parts.
VarsTyped ==
    /\ prog \in Loaded /\ alive \in BOOLEAN
    /\ pc \in [Builds -> {"start", "made", "marking", "visit", "write", "done", "failed"}]
    /\ visitedFunc \subseteq Builds \X Func
    /\ visitedBlock \subseteq Builds \X Func \X Nat
    /\ nodes \in [Builds -> Seq([func : Func, children : Seq(Nat)])]
    /\ work \in [Builds -> Seq([n : Nat, fn : Func, b : Nat, i : Nat, child : Nat \ {0}])]
    /\ nodeQueue \in [Builds -> Seq(Nat)] /\ written \in [Builds -> Seq(Func)]

NodesTyped(w) ==
    \A n \in 1..Len(nodes[w]) : \A j \in 1..Len(nodes[w][n].children) :
        nodes[w][n].children[j] \in n+1..Len(nodes[w])

QueueTyped(w) == \A j \in 1..Len(nodeQueue[w]) : nodeQueue[w][j] \in 1..Len(nodes[w])

\* Good items have the type of items and a node that exists.
LEMMA GoodIsTyped ==
    ASSUME NEW w \in Builds, IsProgram(prog[w]), NEW s \in Seq(GoodItem(w))
    PROVE  s \in Seq(ItemType) /\ \A j \in 1..Len(s) : Exists(w, s[j])
<1>1. ASSUME NEW t \in GoodItem(w) PROVE t \in ItemType /\ Exists(w, t)
  <2>1. IsGood(w, t.n, t.fn, t.b, t.i, t.child)
    BY FieldsOfGood, SMTT(40)
  <2>2. t.b \in 1..Len(prog[w][t.fn]) /\ t.n \in 1..Len(nodes[w]) /\ t.fn \in Func
    BY <2>1 DEF IsGood, BlocksOf, Func
  <2>3. Len(prog[w][t.fn][t.b].ins) \in Nat
    <3>1. t.fn \in DOMAIN prog[w]
      BY <2>1 DEF IsGood
    <3>. QED  BY <2>2, <3>1, BlockOfProgram, BlockHasInstructions, Zenon
  <2>4. Exists(w, t)
    BY <2>1, <2>2, <2>3 DEF IsGood, Exists
  <2>5. t \in ItemType
    <3>1. t \in [n : 1..Len(nodes[w]), fn : DOMAIN prog[w], b : Nat, i : Nat,
                 child : Nat \ {0}]
      BY DEF GoodItem
    <3>2. DOMAIN prog[w] \subseteq Func /\ 1..Len(nodes[w]) \subseteq Nat
      BY DEF Func
    <3>. QED  BY <3>1, <3>2 DEF ItemType
  <2>. QED  BY <2>4, <2>5
<1>2. s \in Seq(ItemType)
  BY <1>1, SeqMonotonic
<1>. QED  BY <1>1, <1>2, ElementOfSeq

\* A step of w that leaves the nodes and what WriteTo has to do, and leaves good
\* items to a visit.
LEMMA WorkStep ==
    ASSUME IInv, NEW w \in Builds, NEW s \in Seq(GoodItem(w)), pc[w] = "visit",
           work' = [work EXCEPT ![w] = s],
           UNCHANGED <<prog, alive, pc, nodes, nodeQueue, written>>,
           visitedFunc \subseteq visitedFunc', visitedFunc' \subseteq Builds \X Func,
           visitedBlock' \subseteq Builds \X Func \X Nat
    PROVE  IInv'
<1>1. Builds' = Builds /\ Func' = Func /\ \A v : GoodItem(v)' = GoodItem(v)
  BY DEF Builds, Func, GoodItem
<1>2. work \in [Builds -> Seq(ItemType)]
  BY Zenon DEF IInv, TypeOK, ItemType
<1>3. s \in Seq(ItemType) /\ \A j \in 1..Len(s) : Exists(w, s[j])
  BY GoodIsTyped, ProgramsAreTyped DEF IInv
<1>4. /\ work' \in [Builds -> Seq(ItemType)]
      /\ work'[w] = s /\ \A v \in Builds : v # w => work'[v] = work[v]
  BY <1>2, <1>3
<1>5. TypeOK'
  <2>1. ASSUME NEW v \in Builds, pc[v] = "visit", NEW j \in 1..Len(work'[v])
        PROVE  Exists(v, work'[v][j])
    <3>1. CASE v = w
      BY <1>3, <1>4, <2>1, <3>1, Zenon
    <3>2. CASE v # w
      BY <1>4, <2>1, <3>2, Zenon DEF IInv, TypeOK, Exists
    <3>. QED  BY <3>1, <3>2
  <2>2. ASSUME NEW v \in Builds, pc'[v] = "visit", NEW j \in 1..Len(work'[v])
        PROVE  LET t == work'[v][j]
               IN  /\ t.n \in 1..Len(nodes'[v])
                   /\ t.fn \in DOMAIN prog'[v]
                   /\ t.b \in 1..Len(prog'[v][t.fn])
                   /\ t.i \in 0..Len(prog'[v][t.fn][t.b].ins)
    BY <2>1, <2>2, Zenon DEF Exists
  <2>3. VarsTyped /\ \A v \in Builds : NodesTyped(v) /\ QueueTyped(v)
    BY Zenon DEF IInv, TypeOK, VarsTyped, NodesTyped, QueueTyped
  <2>. QED  BY <1>1, <1>4, <2>2, <2>3, Zenon
            DEF TypeOK, ItemType, VarsTyped, NodesTyped, QueueTyped
<1>6. ChildrenCalled' /\ NodesOnce'
  BY <1>1, ZenonT(60) DEF IInv, ChildrenCalled, NodesOnce
<1>7. ASSUME NEW v \in Builds
      PROVE  /\ pc'[v] = "visit" => work'[v] \in Seq(GoodItem(v)')
             /\ nodes'[v] # << >>
             /\ Before(v)'
             /\ Builds = {v} => Alone(v)'
  BY <1>1, <1>4, Zenon DEF IInv, Before, Alone
<1>. QED  BY <1>1, <1>5, <1>6, <1>7 DEF IInv

\* The steps of a visit that only move on.
LEMMA VisitSteps ==
    ASSUME IInv, NEW w \in Builds,
           VisitBlock(w) \/ VisitOther(w) \/ VisitIf(w) \/ VisitJump(w) \/ EndReturn(w)
    PROVE  IInv'
<1>1. Doing(w) /\ pc[w] = "visit"
  BY DEF VisitBlock, VisitOther, VisitIf, VisitJump, EndReturn, OnIns, Doing
<1>2. /\ visitedFunc \subseteq Builds \X Func /\ visitedBlock \subseteq Builds \X Func \X Nat
      /\ IsGood(w, Top(w).n, Top(w).fn, Top(w).b, Top(w).i, Top(w).child)
      /\ IsBlock(prog[w], Top(w).fn, TopBlock(w))
      /\ Tail(work[w]) \in Seq(GoodItem(w))
  BY <1>1, BlockAtTop, TopIsGood, Zenon DEF IInv, TypeOK
<1>3. CASE VisitBlock(w)
  <2>1. Item(Top(w).n, Top(w).fn, Top(w).b, 1) \in GoodItem(w)
    <3>1. 1 <= Len(prog[w][Top(w).fn][Top(w).b].ins)
      <4>1. Len(TopBlock(w).ins) \in Nat /\ 0 < Len(TopBlock(w).ins)
        BY <1>2, BlockHasInstructions, ZenonT(60)
      <4>. QED  BY <4>1 DEF TopBlock
    <3>2. IsGood(w, Top(w).n, Top(w).fn, Top(w).b, 1, 1)
      <4>1. /\ Top(w).n \in 1..Len(nodes[w]) /\ Top(w).fn \in DOMAIN prog[w] /\ Top(w).b \in Nat
            /\ Top(w).fn = nodes[w][Top(w).n].func /\ Top(w).b \in BlocksOf(prog[w], Top(w).fn)
        BY <1>2, ZenonT(60) DEF IsGood
      <4>2. 1 \in Nat /\ 1 \in Nat \ {0}
        OBVIOUS
      <4>. QED  BY <3>1, <4>1, <4>2, ZenonT(60) DEF IsGood
    <3>. QED  BY <3>2, GoodOfFields DEF Item
  <2>2. <<Item(Top(w).n, Top(w).fn, Top(w).b, 1)>> \o Tail(work[w]) \in Seq(GoodItem(w))
    BY <1>2, <2>1, GoodBefore
  <2>3. <<w, Top(w).fn, Top(w).b>> \in Builds \X Func \X Nat
    BY <1>2 DEF IsGood, Func
  <2>4. visitedBlock' \subseteq Builds \X Func \X Nat
    BY <1>2, <1>3, <2>3 DEF VisitBlock, MarkBlock
  <2>5. PICK s \in Seq(GoodItem(w)) : work' = [work EXCEPT ![w] = s]
    BY <1>2, <1>3, <2>2, Zenon DEF VisitBlock
  <2>. QED  BY <1>1, <1>2, <1>3, <2>4, <2>5, WorkStep, Zenon DEF VisitBlock
<1>4. CASE VisitOther(w) \/ EndReturn(w)
  <2>1. Rest(w) \in Seq(GoodItem(w))
    BY <1>1, <1>4, RestIsGood DEF VisitOther, EndReturn, OnIns
  <2>. QED  BY <1>1, <1>2, <1>4, <2>1, WorkStep, Zenon DEF VisitOther, EndReturn
<1>5. CASE VisitIf(w) \/ VisitJump(w)
  <2>1. Top(w).i > 0 /\ Cur(w).op \in IfOps \cup {"jump"}
    BY <1>5 DEF VisitIf, VisitJump, OnIns
  <2>2. Rest(w) \in Seq(GoodItem(w))
    BY <1>1, <2>1, RestIsGood
  <2>3. CASE VisitIf(w)
    <3>1. Len(TopBlock(w).succs) = 2
      BY <1>1, <1>2, <2>1, <2>3, CurrentInstruction DEF VisitIf, OnIns, IsBlock
    <3>2. Visit(w, 1) \in GoodItem(w) /\ Visit(w, 2) \in GoodItem(w)
      BY <1>1, <3>1, VisitIsGood
    <3>3. Branches(w) \o Rest(w) \in Seq(GoodItem(w))
      BY <2>2, <3>2, TwoGoodBefore DEF Branches
    <3>. QED  BY <1>1, <1>2, <2>3, <3>3, WorkStep, Zenon DEF VisitIf
  <2>4. CASE VisitJump(w)
    <3>1. Len(TopBlock(w).succs) = 1
      BY <1>1, <1>2, <2>1, <2>4, CurrentInstruction DEF VisitJump, OnIns, IsBlock
    <3>2. Visit(w, 1) \in GoodItem(w)
      <4>1. 1 \in 1..Len(TopBlock(w).succs)
        BY <3>1
      <4>. QED  BY <1>1, <4>1, VisitIsGood
    <3>3. <<Visit(w, 1)>> \o Rest(w) \in Seq(GoodItem(w))
      BY <2>2, <3>2, GoodBefore
    <3>. QED  BY <1>1, <1>2, <2>4, <3>3, WorkStep, Zenon DEF VisitJump
  <2>. QED  BY <1>5, <2>3, <2>4
<1>. QED  BY <1>3, <1>4, <1>5

\* A step that ends the build of w, which is not alone, by a panic.
FailStep(w) ==
    /\ pc' = [pc EXCEPT ![w] = "failed"]
    /\ \E s \in Seq(ItemType) : work' = [work EXCEPT ![w] = s]
    /\ visitedFunc \subseteq visitedFunc' /\ visitedFunc' \subseteq Builds \X Func
    /\ UNCHANGED <<prog, alive, visitedBlock, nodes, nodeQueue, written>>

\* A panic, when other builds run too.
LEMMA FailStepKeeps ==
    ASSUME IInv, NEW w \in Builds, Builds # {w}, FailStep(w)
    PROVE  IInv'
<1> USE DEF FailStep
<1>1. Builds' = Builds /\ Func' = Func /\ \A v : GoodItem(v)' = GoodItem(v)
  BY DEF Builds, Func, GoodItem
<1>2. /\ work \in [Builds -> Seq(ItemType)]
      /\ pc \in [Builds -> {"start", "made", "marking", "visit", "write", "done", "failed"}]
  BY Zenon DEF IInv, TypeOK, ItemType
<1>3. /\ work' \in [Builds -> Seq(ItemType)]
      /\ pc'[w] = "failed"
      /\ \A v \in Builds : v # w => work'[v] = work[v] /\ pc'[v] = pc[v]
  BY <1>2
<1>4. TypeOK'
  <2>1. ASSUME NEW v \in Builds, pc'[v] = "visit", NEW j \in 1..Len(work'[v])
        PROVE  Exists(v, work'[v][j])
    <3>1. v # w /\ pc[v] = "visit"
      BY <1>3, <2>1
    <3>. QED  BY <1>3, <2>1, <3>1, Zenon DEF IInv, TypeOK, Exists
  <2>2. pc' \in [Builds -> Control]
    BY <1>2 DEF Control
  <2>3. ASSUME NEW v \in Builds, pc'[v] = "visit", NEW j \in 1..Len(work'[v])
        PROVE  LET t == work'[v][j]
               IN  /\ t.n \in 1..Len(nodes'[v])
                   /\ t.fn \in DOMAIN prog'[v]
                   /\ t.b \in 1..Len(prog'[v][t.fn])
                   /\ t.i \in 0..Len(prog'[v][t.fn][t.b].ins)
    BY <2>1, <2>3, Zenon DEF Exists
  <2>4. VarsTyped /\ \A v \in Builds : NodesTyped(v) /\ QueueTyped(v)
    BY Zenon DEF IInv, TypeOK, VarsTyped, NodesTyped, QueueTyped
  <2>. QED  BY <1>1, <1>3, <2>2, <2>3, <2>4, Zenon
            DEF TypeOK, ItemType, Control, VarsTyped, NodesTyped, QueueTyped
<1>5. ChildrenCalled' /\ NodesOnce'
  BY <1>1, ZenonT(60) DEF IInv, ChildrenCalled, NodesOnce
<1>6. ASSUME NEW v \in Builds
      PROVE  /\ pc'[v] = "visit" => work'[v] \in Seq(GoodItem(v)')
             /\ nodes'[v] # << >>
             /\ Before(v)'
             /\ Builds = {v} => Alone(v)'
  BY <1>1, <1>3 DEF IInv, Before
<1>. QED  BY <1>1, <1>4, <1>5, <1>6 DEF IInv

\* A return that visits an unmarked child, or ends the build at one without
\* blocks; alone, no child is unmarked.
LEMMA VisitReturnStep ==
    ASSUME IInv, NEW w \in Builds, VisitReturn(w)
    PROVE  IInv'
<1> DEFINE t == Top(w)
           k == nodes[w][t.n].children[t.child]
           f == nodes[w][k].func
           next == <<Looked(t)>> \o Tail(work[w])
<1>1. Doing(w) /\ pc[w] = "visit" /\ t.i > 0
  BY ZenonT(60) DEF VisitReturn, OnIns, Doing
<1>2. /\ visitedFunc \subseteq Builds \X Func /\ visitedBlock \subseteq Builds \X Func \X Nat
      /\ IsGood(w, t.n, t.fn, t.b, t.i, t.child)
      /\ IsProgram(prog[w])
      /\ t \in GoodItem(w)
      /\ Tail(work[w]) \in Seq(GoodItem(w))
  BY <1>1, BlockAtTop, TopIsGood, Zenon DEF IInv, TypeOK
<1>3. t.n \in 1..Len(nodes[w]) /\ t.child \in 1..Len(nodes[w][t.n].children)
  <2>1. t.child \in Nat \ {0} /\ t.n \in 1..Len(nodes[w])
    BY <1>2 DEF IsGood
  <2>2. nodes[w] \in Seq([func : Func, children : Seq(Nat)])
    BY Zenon DEF IInv, TypeOK
  <2>3. nodes[w][t.n].children \in Seq(Nat)
    <3>1. nodes[w][t.n] \in [func : Func, children : Seq(Nat)]
      BY <2>1, <2>2, ElementOfSeq, ZenonT(60)
    <3>. QED  BY <3>1
  <2>4. Len(nodes[w][t.n].children) \in Nat /\ t.child <= Len(nodes[w][t.n].children)
    BY <2>3, LenProperties, Zenon DEF VisitReturn
  <2>. QED  BY <2>1, <2>4
<1>4. k \in 1..Len(nodes[w]) /\ f \in DOMAIN prog[w] /\ f \in Func
  <2>1. k \in t.n+1..Len(nodes[w])
    BY <1>3, Zenon DEF IInv, TypeOK
  <2>2. t.n \in Nat /\ t.n >= 1 /\ Len(nodes[w]) \in Nat
    BY <1>3 DEF IInv, TypeOK
  <2>3. k \in 1..Len(nodes[w])
    BY <2>1, <2>2
  <2>4. f \in CalledBy(prog[w], nodes[w][t.n].func)
    BY <1>3, Zenon DEF IInv, ChildrenCalled
  <2>. QED  BY <2>3, <2>4, Zenon DEF CalledBy, Func
<1>5. Looked(t) \in GoodItem(w)
  <2>1. Looked(t) = [n |-> t.n, fn |-> t.fn, b |-> t.b, i |-> t.i, child |-> t.child + 1]
    <3>1. t = [n |-> t.n, fn |-> t.fn, b |-> t.b, i |-> t.i, child |-> t.child]
      BY <1>2, FieldsOfGood
    <3>. HIDE DEF t
    <3>. QED  BY <3>1 DEF Looked
  <2>2. IsGood(w, t.n, t.fn, t.b, t.i, t.child + 1)
    BY <1>2, SMTT(40) DEF IsGood
  <2>. QED  BY <2>1, <2>2, GoodOfFields
<1>6. next \in Seq(GoodItem(w))
  BY <1>2, <1>5, GoodBefore
<1>7. CASE ~Unvisited(w, f)
  BY <1>1, <1>2, <1>6, <1>7, WorkStep, Zenon DEF VisitReturn
<1>8. CASE Unvisited(w, f) /\ prog[w][f] # << >>
  <2>1. 1 \in BlocksOf(prog[w], f)
    BY <1>2, <1>4, <1>8, EntryLed, Zenon
  <2>2. 1 \in 1..Len(prog[w][f])
    BY <2>1, Zenon DEF BlocksOf
  <2>3. 0 <= Len(prog[w][f][1].ins)
    <3>1. IsBlock(prog[w], f, prog[w][f][1])
      BY <1>2, <1>4, <2>2, BlockOfProgram, Zenon
    <3>. HIDE DEF f
    <3>2. Len(prog[w][f][1].ins) \in Nat
      BY <3>1, BlockHasInstructions, Zenon
    <3>. QED  BY <3>2
  <2>4. ChildItem(t, k, f) \in GoodItem(w)
    <3>1. IsGood(w, k, f, 1, 0, 1)
      <4>1. f = nodes[w][k].func
        OBVIOUS
      <4>. HIDE DEF f, k
      <4>. QED  BY <1>4, <2>1, <2>3, <4>1 DEF IsGood
    <3>. QED  BY <3>1, GoodOfFields, Zenon DEF ChildItem, Item
  <2>5. <<ChildItem(t, k, f)>> \o next \in Seq(GoodItem(w))
    BY <1>6, <2>4, GoodBefore, SMTT(40)
  <2>6. pc' = pc /\ visitedFunc' = visitedFunc \cup {<<w, f>>}
    BY <1>8, ZenonT(60) DEF VisitReturn
  <2>7. work' = [work EXCEPT ![w] = <<ChildItem(t, k, f)>> \o next]
    BY <1>8, ZenonT(60) DEF VisitReturn
  <2>8. UNCHANGED <<prog, alive, visitedBlock, nodes, nodeQueue, written>>
    BY Zenon DEF VisitReturn
  <2>. HIDE DEF f, k, next, t
  <2>9. visitedFunc' \subseteq Builds \X Func
    BY <1>2, <1>4, <2>6
  <2>. QED  BY <1>1, <1>2, <2>5, <2>6, <2>7, <2>8, <2>9, WorkStep, ZenonT(60)
<1>9. CASE Unvisited(w, f) /\ prog[w][f] = << >>
  <2>1. pc' = [pc EXCEPT ![w] = "failed"] /\ visitedFunc' = visitedFunc \cup {<<w, f>>}
    BY <1>9, ZenonT(60) DEF VisitReturn
  <2>2. Builds # {w}
    <3>1. Builds = {w} => <<w, f>> \in visitedFunc
      <4>. HIDE DEF k
      <4>1. Builds = {w} => Alone(w)
        BY Zenon DEF IInv
      <4>2. Alone(w) => \A n \in 1..Len(nodes[w]) : <<w, nodes[w][n].func>> \in visitedFunc
        BY <1>1, ZenonT(60) DEF Alone
      <4>. QED  BY <1>4, <4>1, <4>2, ZenonT(60)
    <3>. QED  BY <1>9, <3>1 DEF Unvisited
  <2>3. work' = [work EXCEPT ![w] = <<ChildItem(t, k, f)>> \o next]
    BY <1>9, Zenon DEF VisitReturn
  <2>4. <<ChildItem(t, k, f)>> \o next \in Seq(ItemType)
    <3>1. ChildItem(t, k, f) \in ItemType
      BY <1>4 DEF ChildItem, Item, ItemType
    <3>2. next \in Seq(ItemType)
      BY <1>2, <1>6, GoodIsTyped, Zenon
    <3>. QED  BY <3>1, <3>2, GoodBefore
  <2>5. FailStep(w)
    <3>1. UNCHANGED <<prog, alive, visitedBlock, nodes, nodeQueue, written>>
      BY Zenon DEF VisitReturn
    <3>. HIDE DEF f, k, next, t
    <3>2. visitedFunc' \subseteq Builds \X Func
      BY <1>2, <1>4, <2>1
    <3>. QED  BY <2>1, <2>3, <2>4, <3>1, <3>2, Zenon DEF FailStep
  <2>. QED  BY <2>2, <2>5, FailStepKeeps, SMTT(40)
<1>. QED  BY <1>7, <1>8, <1>9, Zenon

\* A step of w outside a visit: the nodes and what is left to visit stay, the
\* maps may be emptied.
OutsideStep(w, x) ==
    /\ pc' = [pc EXCEPT ![w] = x]
    /\ x \in {"made", "marking"} => pc[w] \in {"start", "made"} /\ "main" \in DOMAIN prog[w]
    /\ x = "failed" => "main" \notin DOMAIN prog[w]
    /\ visitedFunc' \subseteq visitedFunc /\ visitedBlock' \subseteq visitedBlock
    /\ nodeQueue' \in [Builds -> Seq(Nat)] /\ written' \in [Builds -> Seq(Func)]
    /\ \A v \in Builds : \A j \in 1..Len(nodeQueue'[v]) : nodeQueue'[v][j] \in 1..Len(nodes[v])
    /\ UNCHANGED <<prog, alive, nodes, work>>

\* A step outside the visit that leaves nodes and work alone.
LEMMA OutsideStepKeeps ==
    ASSUME IInv, NEW w \in Builds, NEW x \in Control \ {"start", "visit"}, OutsideStep(w, x)
    PROVE  IInv'
<1> USE DEF OutsideStep, Control
<1>1. Builds' = Builds /\ Func' = Func /\ \A v : GoodItem(v)' = GoodItem(v)
  BY DEF Builds, Func, GoodItem
<1>2. pc \in [Builds -> Control]
  BY DEF IInv, TypeOK
<1>3. /\ pc' \in [Builds -> Control] /\ pc'[w] = x
      /\ \A v \in Builds : v # w => pc'[v] = pc[v]
  BY <1>2
<1>4. TypeOK'
  <2>1. ASSUME NEW v \in Builds, pc'[v] = "visit", NEW j \in 1..Len(work[v])
        PROVE  Exists(v, work[v][j])
    <3>1. v # w /\ pc[v] = "visit"
      BY <1>3, <2>1
    <3>. QED  BY <2>1, <3>1, Zenon DEF IInv, TypeOK, Exists
  <2>2. ASSUME NEW v \in Builds, pc'[v] = "visit", NEW j \in 1..Len(work'[v])
        PROVE  LET t == work'[v][j]
               IN  /\ t.n \in 1..Len(nodes'[v])
                   /\ t.fn \in DOMAIN prog'[v]
                   /\ t.b \in 1..Len(prog'[v][t.fn])
                   /\ t.i \in 0..Len(prog'[v][t.fn][t.b].ins)
    BY <2>1, <2>2, Zenon DEF Exists
  <2>3. VarsTyped /\ \A v \in Builds : NodesTyped(v)
    BY Zenon DEF IInv, TypeOK, VarsTyped, NodesTyped
  <2>4. visitedFunc' \subseteq Builds \X Func /\ visitedBlock' \subseteq Builds \X Func \X Nat
    BY <2>3 DEF VarsTyped
  <2>. QED  BY <1>1, <1>3, <2>2, <2>3, <2>4, Zenon
            DEF TypeOK, Control, VarsTyped, NodesTyped
<1>5. ChildrenCalled' /\ NodesOnce'
  BY <1>1, ZenonT(60) DEF IInv, ChildrenCalled, NodesOnce
<1>6. ASSUME NEW v \in Builds
      PROVE  /\ pc'[v] = "visit" => work'[v] \in Seq(GoodItem(v)')
             /\ nodes'[v] # << >>
             /\ Before(v)'
             /\ Builds = {v} => Alone(v)'
  BY <1>1, <1>3 DEF IInv, Before, Alone
<1>. QED  BY <1>1, <1>4, <1>5, <1>6 DEF IInv

\* A sequence is over every set that has its elements.
LEMMA ElementsDecide ==
    ASSUME NEW S, NEW T, NEW s \in Seq(S), \A j \in 1..Len(s) : s[j] \in T
    PROVE  s \in Seq(T)
OBVIOUS

\* The steps before and after the visit.
LEMMA OutsideSteps ==
    ASSUME IInv, NEW w \in Builds,
           \/ NoMain(w) \/ MakeVisitedFunc(w) \/ MakeVisitedBlock(w)
           \/ EndBuild(w) \/ WriteNode(w) \/ EndWrite(w)
    PROVE  IInv'
<1>1. /\ pc \in [Builds -> Control]
      /\ nodeQueue \in [Builds -> Seq(Nat)] /\ written \in [Builds -> Seq(Func)]
      /\ nodes \in [Builds -> Seq([func : Func, children : Seq(Nat)])]
      /\ \A v \in Builds : \A j \in 1..Len(nodeQueue[v]) : nodeQueue[v][j] \in 1..Len(nodes[v])
  BY Zenon DEF IInv, TypeOK, Control
<1>2. CASE NoMain(w)
  <2>1. OutsideStep(w, "failed")
    BY <1>1, <1>2, Zenon DEF NoMain, OutsideStep
  <2>. QED  BY <2>1, OutsideStepKeeps DEF Control
<1>3. CASE MakeVisitedFunc(w)
  <2>1. OutsideStep(w, "made")
    BY <1>1, <1>3 DEF MakeVisitedFunc, OutsideStep
  <2>. QED  BY <2>1, OutsideStepKeeps DEF Control
<1>4. CASE MakeVisitedBlock(w)
  <2>1. "main" \in DOMAIN prog[w]
    BY <1>4 DEF MakeVisitedBlock, IInv, Before
  <2>2. OutsideStep(w, "marking")
    BY <1>1, <1>4, <2>1 DEF MakeVisitedBlock, OutsideStep
  <2>. QED  BY <2>2, OutsideStepKeeps DEF Control
<1>5. CASE EndBuild(w)
  <2>1. 1 \in 1..Len(nodes[w])
    BY <1>1, EmptySeq DEF IInv
  <2>2. OutsideStep(w, "write")
    BY <1>1, <1>5, <2>1 DEF EndBuild, OutsideStep
  <2>. QED  BY <2>2, OutsideStepKeeps DEF Control
<1>6. CASE EndWrite(w)
  <2>1. OutsideStep(w, "done")
    BY <1>1, <1>6 DEF EndWrite, OutsideStep
  <2>. QED  BY <2>1, OutsideStepKeeps DEF Control
<1>7. CASE WriteNode(w)
  <2> DEFINE n == nodeQueue[w][1]
             head == nodes[w][n]
             Q == 1..Len(nodes[w])
  <2>1. nodeQueue[w] # << >> /\ pc[w] = "write"
    BY <1>7 DEF WriteNode
  <2>2. nodeQueue[w] \in Seq(Q)
    BY <1>1, ElementsDecide
  <2>3. n \in Q /\ Tail(nodeQueue[w]) \in Seq(Q)
    <3>1. 1 \in 1..Len(nodeQueue[w])
      BY <2>1, <2>2, EmptySeq
    <3>. QED  BY <2>1, <2>2, <3>1, ElementOfSeq, HeadTailProperties, Zenon
  <2>4. head \in [func : Func, children : Seq(Nat)]
    BY <1>1, <2>3, ElementOfSeq, Zenon
  <2>5. head.children \in Seq(Q)
    <3>1. \A j \in 1..Len(head.children) : head.children[j] \in n+1..Len(nodes[w])
      BY <2>3, Zenon DEF IInv, TypeOK
    <3>2. n \in Nat /\ n >= 1 /\ Len(nodes[w]) \in Nat
      BY <1>1, <2>3, LenProperties
    <3>3. n+1..Len(nodes[w]) \subseteq Q
      BY <3>2
    <3>4. head.children \in Seq(Nat) /\ \A j \in 1..Len(head.children) : head.children[j] \in Q
      BY <2>4, <3>1, <3>3
    <3>. HIDE DEF head, Q
    <3>. QED  BY <3>4, ElementsDecide
  <2>6. Tail(nodeQueue[w]) \o head.children \in Seq(Q)
    BY <2>3, <2>5, ConcatProperties
  <2>7. nodeQueue' = [nodeQueue EXCEPT ![w] = Tail(nodeQueue[w]) \o head.children]
    BY <1>7 DEF WriteNode
  <2>8. nodeQueue' \in [Builds -> Seq(Nat)]
    <3>1. Seq(Q) \subseteq Seq(Nat)
      BY SeqMonotonic
    <3>. HIDE DEF head, Q
    <3>. QED  BY <1>1, <2>6, <2>7, <3>1
  <2>9. \A v \in Builds : \A j \in 1..Len(nodeQueue'[v]) : nodeQueue'[v][j] \in 1..Len(nodes[v])
    <3>1. nodeQueue'[w] \in Seq(Q) /\ \A v \in Builds : v # w => nodeQueue'[v] = nodeQueue[v]
      BY <1>1, <2>6, <2>7
    <3>2. \A j \in 1..Len(nodeQueue'[w]) : nodeQueue'[w][j] \in Q
      BY <3>1, ElementOfSeq
    <3>. QED  BY <1>1, <3>1, <3>2, Zenon
  <2>10. written' \in [Builds -> Seq(Func)]
    <3>1. Append(written[w], head.func) \in Seq(Func)
      BY <1>1, <2>4, AppendProperties
    <3>. QED  BY <1>1, <1>7, <3>1 DEF WriteNode
  <2>11. pc' = [pc EXCEPT ![w] = "write"]
    BY <1>1, <1>7, <2>1 DEF WriteNode
  <2>12. OutsideStep(w, "write")
    BY <1>7, <2>8, <2>9, <2>10, <2>11, Zenon DEF WriteNode, OutsideStep
  <2>. QED  BY <2>12, OutsideStepKeeps DEF Control
<1>. QED  BY <1>2, <1>3, <1>4, <1>5, <1>6, <1>7

\* The visit begins at main's entry, for the only node.
LEMMA MarkMainStep ==
    ASSUME IInv, NEW w \in Builds, MarkMain(w)
    PROVE  IInv'
<1> DEFINE first == Item(1, "main", 1, 0)
<1>1. Builds' = Builds /\ Func' = Func /\ \A v : GoodItem(v)' = GoodItem(v)
  BY DEF MarkMain, Builds, Func, GoodItem
<1>2. /\ pc \in [Builds -> Control] /\ work \in [Builds -> Seq(ItemType)]
      /\ pc[w] = "marking"
  BY Zenon DEF IInv, TypeOK, Control, ItemType, MarkMain
<1>3. nodes[w] = <<Node("main")>> /\ "main" \in DOMAIN prog[w] /\ IsProgram(prog[w])
  BY <1>2, ProgramsAreTyped DEF IInv, Before
<1>4. nodes[w][1].func = "main" /\ Len(nodes[w]) = 1
  BY <1>3 DEF Node
<1>5. first \in GoodItem(w)
  <2>1. 1 \in BlocksOf(prog[w], "main")
    BY <1>3, EntryLed DEF IsProgram
  <2>2. IsBlock(prog[w], "main", prog[w]["main"][1])
    BY <1>3, <2>1 DEF BlocksOf, IsProgram
  <2>3. Len(prog[w]["main"][1].ins) \in Nat
    BY <2>2 DEF IsBlock
  <2>4. IsGood(w, 1, "main", 1, 0, 1)
    BY <1>3, <1>4, <2>1, <2>3 DEF IsGood
  <2>. QED  BY <2>4, GoodOfFields DEF Item
<1>6. <<first>> \in Seq(GoodItem(w))
  BY <1>5
<1>7. <<first>> \in Seq(ItemType) /\ \A j \in 1..Len(<<first>>) : Exists(w, <<first>>[j])
  BY <1>3, <1>6, GoodIsTyped, Zenon
<1>8. /\ pc' = [pc EXCEPT ![w] = "visit"] /\ work' = [work EXCEPT ![w] = <<first>>]
      /\ visitedFunc' = visitedFunc \cup {<<w, "main">>}
      /\ UNCHANGED <<prog, alive, visitedBlock, nodes, nodeQueue, written>>
  BY DEF MarkMain
<1>9. /\ pc' \in [Builds -> Control] /\ pc'[w] = "visit"
      /\ work' \in [Builds -> Seq(ItemType)] /\ work'[w] = <<first>>
      /\ \A v \in Builds : v # w => pc'[v] = pc[v] /\ work'[v] = work[v]
  BY <1>2, <1>7, <1>8 DEF Control
<1>. HIDE DEF first
<1>10. TypeOK'
  <2>1. ASSUME NEW v \in Builds, pc'[v] = "visit", NEW j \in 1..Len(work'[v])
        PROVE  Exists(v, work'[v][j])
    BY <1>7, <1>9, <2>1, Zenon DEF IInv, TypeOK, Exists
  <2>2. visitedFunc' \subseteq Builds \X Func
    <3>1. "main" \in Func /\ visitedFunc \subseteq Builds \X Func
      BY DEF IInv, TypeOK, Func
    <3>. QED  BY <1>8, <3>1
  <2>3. /\ prog' \in Loaded /\ alive' \in BOOLEAN
        /\ visitedBlock' \subseteq Builds \X Func \X Nat
        /\ nodes' \in [Builds -> Seq([func : Func, children : Seq(Nat)])]
        /\ nodeQueue' \in [Builds -> Seq(Nat)] /\ written' \in [Builds -> Seq(Func)]
    BY <1>8, Zenon DEF IInv, TypeOK
  <2>4. ASSUME NEW v \in Builds
        PROVE  /\ \A m \in 1..Len(nodes'[v]) : \A j \in 1..Len(nodes'[v][m].children) :
                     nodes'[v][m].children[j] \in m+1..Len(nodes'[v])
               /\ \A j \in 1..Len(nodeQueue'[v]) : nodeQueue'[v][j] \in 1..Len(nodes'[v])
    BY <1>8, Zenon DEF IInv, TypeOK
  <2>5. ASSUME NEW v \in Builds, pc'[v] = "visit", NEW j \in 1..Len(work'[v])
        PROVE  LET t == work'[v][j]
               IN  /\ t.n \in 1..Len(nodes'[v])
                   /\ t.fn \in DOMAIN prog'[v]
                   /\ t.b \in 1..Len(prog'[v][t.fn])
                   /\ t.i \in 0..Len(prog'[v][t.fn][t.b].ins)
    BY <1>8, <2>1, <2>5, Zenon DEF Exists
  <2>6. pc' \in [Builds -> Control] /\ work' \in [Builds -> Seq(ItemType)]
    BY <1>9
  <2>. QED  BY <1>1, <2>2, <2>3, <2>4, <2>5, <2>6, Zenon DEF TypeOK, Control, ItemType
<1>11. ChildrenCalled' /\ NodesOnce'
  BY <1>1, <1>8, Zenon DEF IInv, ChildrenCalled, NodesOnce
<1>12. ASSUME NEW v \in Builds
       PROVE  /\ pc'[v] = "visit" => work'[v] \in Seq(GoodItem(v)')
              /\ nodes'[v] # << >>
              /\ Before(v)'
              /\ Builds = {v} => Alone(v)'
  <2>1. Builds = {w} => Alone(w)'
    BY <1>4, <1>8, <1>9 DEF IInv, Alone
  <2>. QED  BY <1>1, <1>6, <1>8, <1>9, <2>1 DEF IInv, Before
<1>. QED  BY <1>1, <1>10, <1>11, <1>12 DEF IInv

NodeType == [func : Func, children : Seq(Nat)]

\* A node added with its parent's child.
LEMMA ChildAdded ==
    ASSUME TypeOK, NEW w \in Builds, NEW n \in 1..Len(nodes[w]), NEW f \in Func
    PROVE  LET N == WithChild(w, n, f)
               k == Len(nodes[w]) + 1
           IN  /\ Len(nodes[w]) \in Nat /\ N \in Seq(NodeType) /\ Len(N) = k
               /\ N[k] = Node(f)
               /\ \A m \in 1..Len(nodes[w]) : N[m].func = nodes[w][m].func
               /\ \A m \in 1..Len(nodes[w]) : m # n => N[m] = nodes[w][m]
               /\ nodes[w][n].children \in Seq(Nat)
               /\ N[n].children = Append(nodes[w][n].children, k)
<1> DEFINE old == nodes[w]
           k == Len(old) + 1
           parent == [old[n] EXCEPT !.children = Append(@, k)]
           M == [old EXCEPT ![n] = parent]
           N == Append(M, Node(f))
<1>1. old \in Seq(NodeType) /\ Len(old) \in Nat
  BY LenProperties, Zenon DEF TypeOK, NodeType
<1>2. old[n] \in NodeType
  BY <1>1, ElementOfSeq
<1>3. old[n].children \in Seq(Nat) /\ Append(old[n].children, k) \in Seq(Nat)
  BY <1>1, <1>2, AppendProperties DEF NodeType
<1>4. /\ parent \in NodeType /\ parent.func = old[n].func
      /\ parent.children = Append(old[n].children, k)
  BY <1>2, <1>3, Zenon DEF NodeType
<1>5. /\ M \in Seq(NodeType) /\ Len(M) = Len(old)
      /\ \A m \in 1..Len(old) : M[m] = IF m = n THEN parent ELSE old[m]
  BY <1>1, <1>4, ExceptSeq
<1>6. Node(f) \in NodeType
  BY DEF Node, NodeType
<1>. HIDE DEF parent, M
<1>7. /\ N \in Seq(NodeType) /\ Len(N) = k /\ N[k] = Node(f)
      /\ \A m \in 1..Len(old) : N[m] = M[m]
  BY <1>1, <1>5, <1>6, AppendProperties
<1>8. N = WithChild(w, n, f)
  BY DEF WithChild, M, parent
<1>. HIDE DEF N
<1>. QED  BY <1>1, <1>3, <1>4, <1>5, <1>7, <1>8, Zenon

GrowStep(w, n, f, s) ==
    /\ nodes' = [nodes EXCEPT ![w] = WithChild(w, n, f)]
    /\ work' = [work EXCEPT ![w] = s]
    /\ visitedFunc' = visitedFunc \cup {<<w, f>>}
    /\ UNCHANGED <<prog, alive, pc, visitedBlock, nodeQueue, written>>

\* A step that adds a node for a function not marked yet.
LEMMA GrowStepKeeps ==
    ASSUME IInv, NEW w \in Builds, NEW n \in 1..Len(nodes[w]), NEW f \in Func,
           NEW s \in Seq(GoodItem(w)), pc[w] = "visit", GrowStep(w, n, f, s),
           f \in CalledBy(prog[w], nodes[w][n].func), <<w, f>> \notin visitedFunc
    PROVE  IInv'
<1> DEFINE old == nodes[w]
           N == WithChild(w, n, f)
           k == Len(old) + 1
<1>1. Builds' = Builds /\ Func' = Func
  BY DEF GrowStep, Builds, Func
<1>2. /\ Len(old) \in Nat /\ N \in Seq(NodeType) /\ Len(N) = k /\ N[k] = Node(f)
      /\ \A m \in 1..Len(old) : N[m].func = old[m].func
      /\ \A m \in 1..Len(old) : m # n => N[m] = old[m]
      /\ old[n].children \in Seq(Nat)
      /\ N[n].children = Append(old[n].children, k)
  BY ChildAdded, Zenon DEF IInv
<1>. HIDE DEF N
<1>3. nodes' = [nodes EXCEPT ![w] = N]
  BY DEF GrowStep, N
<1>4. nodes \in [Builds -> Seq(NodeType)] /\ work \in [Builds -> Seq(ItemType)]
  BY Zenon DEF IInv, TypeOK, NodeType, ItemType
<1>5. /\ nodes' \in [Builds -> Seq(NodeType)] /\ nodes'[w] = N
      /\ \A v \in Builds : v # w => nodes'[v] = nodes[v] /\ work'[v] = work[v]
      /\ work'[w] = s
  BY <1>2, <1>3, <1>4 DEF GrowStep
<1>6. s \in Seq(ItemType) /\ \A j \in 1..Len(s) : Exists(w, s[j])
  BY GoodIsTyped, ProgramsAreTyped DEF IInv
<1>7. \A m \in 1..k : m \in 1..Len(old) \/ m = k
  BY <1>2
<1>8. \A h \in 1..k : N[h].func = IF h = k THEN f ELSE old[h].func
  <2>1. N[k].func = f
    BY <1>2 DEF Node
  <2>2. ASSUME NEW h \in 1..k, h # k PROVE N[h].func = old[h].func
    BY <1>2, <1>7, <2>2
  <2>. QED  BY <2>1, <2>2
<1>9. \A m \in 1..k : N[m].children = IF m = n THEN Append(old[n].children, k)
                                    ELSE IF m = k THEN << >> ELSE old[m].children
  <2>1. N[k].children = << >> /\ k # n
    BY <1>2 DEF Node
  <2>. QED  BY <1>2, <1>7, <2>1, Zenon
<1>10. ASSUME NEW m \in 1..k, NEW j \in 1..Len(N[m].children)
      PROVE  /\ N[m].children[j] \in m+1..k
             /\ N[N[m].children[j]].func \in CalledBy(prog[w], N[m].func)
  <2>1. \A i \in 1..Len(old) : \A h \in 1..Len(old[i].children) :
            /\ old[i].children[h] \in i+1..Len(old)
            /\ old[old[i].children[h]].func \in CalledBy(prog[w], old[i].func)
    BY Zenon DEF IInv, TypeOK, ChildrenCalled
  <2>2. m \in 1..Len(old)
    <3>1. m = k /\ k # n => N[m].children = << >>
      BY <1>9
    <3>2. k # n
      <4>1. n \in 1..Len(old)
        OBVIOUS
      <4>. HIDE DEF old
      <4>. QED  BY <1>2, <4>1
    <3>3. ASSUME m = k PROVE FALSE
      BY <1>10, <3>1, <3>2, <3>3
    <3>. QED  BY <1>7, <3>3
  <2>3. CASE m = n /\ j = Len(old[n].children) + 1
    <3>1. N[m].children[j] = k
      BY <1>2, <2>3, AppendProperties
    <3>2. N[k].func = f /\ N[m].func = old[n].func
      BY <1>2, <2>2, <2>3 DEF Node
    <3>3. k \in m+1..k
      <4>. HIDE DEF old
      <4>. QED  BY <1>2, <2>2
    <3>. QED  BY <3>1, <3>2, <3>3
  <2>4. CASE ~(m = n /\ j = Len(old[n].children) + 1)
    <3>1. j \in 1..Len(old[m].children) /\ N[m].children[j] = old[m].children[j]
      <4>1. CASE m = n
        <5>1. /\ Len(N[n].children) = Len(old[n].children) + 1 /\ Len(old[n].children) \in Nat
              /\ \A i \in 1..Len(old[n].children) : N[n].children[i] = old[n].children[i]
          BY <1>2, AppendProperties, LenProperties
        <5>2. j \in 1..Len(old[n].children)
          BY <1>10, <2>4, <4>1, <5>1
        <5>. QED  BY <4>1, <5>1, <5>2, Zenon
      <4>2. CASE m # n
        BY <1>2, <1>10, <2>2, <4>2, Zenon
      <4>. QED  BY <4>1, <4>2
    <3>2. old[m].children[j] \in m+1..Len(old)
      BY <2>1, <2>2, <3>1, Zenon
    <3>3. old[m].children[j] \in 1..Len(old) /\ old[m].children[j] \in m+1..k
      <4>1. m \in Nat /\ m >= 1
        BY <2>2
      <4>. HIDE DEF old
      <4>. QED  BY <1>2, <3>2, <4>1, SMTT(40)
    <3>4. N[old[m].children[j]].func = old[old[m].children[j]].func /\ N[m].func = old[m].func
      BY <1>2, <2>2, <3>3, Zenon
    <3>. QED  BY <2>1, <2>2, <3>1, <3>3, <3>4, Zenon
  <2>. QED  BY <2>3, <2>4
<1>11. TypeOK'
  <2>1. ASSUME NEW v \in Builds, pc[v] = "visit", NEW j \in 1..Len(work'[v])
        PROVE  Exists(v, work'[v][j])
    BY <1>5, <1>6, <2>1, Zenon DEF IInv, TypeOK, Exists
  <2>7. \A v \in Builds : 1..Len(nodes[v]) \subseteq 1..Len(nodes'[v])
    <3>1. 1..Len(old) \subseteq 1..Len(N)
      BY <1>2
    <3>. QED  BY <1>5, <3>1, Zenon
  <2>2. \A v \in Builds : \A m \in 1..Len(nodes'[v]) : \A j \in 1..Len(nodes'[v][m].children) :
            nodes'[v][m].children[j] \in m+1..Len(nodes'[v])
    BY <1>2, <1>5, <1>10, Zenon DEF IInv, TypeOK
  <2>3. \A v \in Builds : \A j \in 1..Len(nodeQueue[v]) : nodeQueue[v][j] \in 1..Len(nodes'[v])
    BY <2>7, Zenon DEF IInv, TypeOK
  <2>4. work' \in [Builds -> Seq(ItemType)] /\ visitedFunc' \subseteq Builds \X Func
    BY <1>4, <1>6 DEF GrowStep, IInv, TypeOK
  <2>5. /\ prog' \in Loaded /\ alive' \in BOOLEAN /\ pc' \in [Builds -> Control]
        /\ visitedBlock' \subseteq Builds \X Func \X Nat
        /\ nodeQueue' \in [Builds -> Seq(Nat)] /\ written' \in [Builds -> Seq(Func)]
    BY Zenon DEF GrowStep, IInv, TypeOK, Control
  <2>6. pc' = pc /\ nodeQueue' = nodeQueue
    BY DEF GrowStep
  <2>8. ASSUME NEW v \in Builds, pc'[v] = "visit", NEW j \in 1..Len(work'[v])
        PROVE  LET t == work'[v][j]
               IN  /\ t.n \in 1..Len(nodes'[v])
                   /\ t.fn \in DOMAIN prog'[v]
                   /\ t.b \in 1..Len(prog'[v][t.fn])
                   /\ t.i \in 0..Len(prog'[v][t.fn][t.b].ins)
    <3>1. Exists(v, work'[v][j]) /\ prog' = prog
      BY <2>1, <2>6, <2>8 DEF GrowStep
    <3>. QED  BY <2>7, <3>1, Zenon DEF Exists
  <2>9. \A v \in Builds : \A j \in 1..Len(nodeQueue'[v]) : nodeQueue'[v][j] \in 1..Len(nodes'[v])
    BY <2>3, <2>6
  <2>10. nodes' \in [Builds -> Seq(NodeType)]
    BY <1>5
  <2>. QED  BY <1>1, <2>2, <2>4, <2>5, <2>8, <2>9, <2>10, Zenon
            DEF TypeOK, NodeType, ItemType, Control
<1>12. ChildrenCalled'
  <2>1. prog' = prog
    BY DEF GrowStep
  <2>2. ASSUME NEW v \in Builds, NEW m \in 1..Len(nodes'[v]),
               NEW j \in 1..Len(nodes'[v][m].children)
        PROVE  nodes'[v][nodes'[v][m].children[j]].func \in CalledBy(prog[v], nodes'[v][m].func)
    <3>1. CASE v = w
      <4>1. nodes'[v] = N /\ Len(N) = k
        BY <1>2, <1>5, <3>1
      <4>2. m \in 1..k /\ j \in 1..Len(N[m].children)
        BY <2>2, <4>1
      <4>. QED  BY <1>10, <3>1, <4>1, <4>2, Zenon
    <3>2. CASE v # w
      <4>1. nodes'[v] = nodes[v]
        BY <1>5, <3>2
      <4>. QED  BY <2>2, <4>1, Zenon DEF IInv, ChildrenCalled
    <3>. QED  BY <3>1, <3>2
  <2>. QED  BY <1>1, <2>1, <2>2, Zenon DEF ChildrenCalled
<1>13. Builds = {w} => \A m \in 1..Len(old) : old[m].func # f
  BY DEF IInv, Alone
<1>14. NodesOnce'
  <2>1. \A v \in Builds : Builds = {v} => v = w
    OBVIOUS
  <2>2. ASSUME Builds = {w}, NEW i \in 1..k, NEW m \in 1..k, N[i].func = N[m].func
        PROVE  i = m
    <3>2. \A g, h \in 1..Len(old) : old[g].func = old[h].func => g = h
      BY <2>2 DEF IInv, NodesOnce
    <3>. QED  BY <1>7, <1>8, <1>13, <2>2, <3>2, Zenon
  <2>. QED  BY <1>1, <1>2, <1>5, <2>1, <2>2 DEF NodesOnce
<1>15. GoodItem(w) \subseteq GoodItem(w)' /\ \A v \in Builds : v # w => GoodItem(v)' = GoodItem(v)
  <2>1. \A v \in Builds : v # w => GoodItem(v)' = GoodItem(v)
    BY <1>5 DEF GoodItem, GrowStep
  <2>2. 1..Len(old) \subseteq 1..Len(N)
    BY <1>2
  <2>3. GoodItem(w) \subseteq GoodItem(w)'
    BY <1>2, <1>5, <2>2, Zenon DEF GoodItem, GrowStep
  <2>. QED  BY <2>1, <2>3
<1>16. ASSUME NEW v \in Builds
       PROVE  /\ pc'[v] = "visit" => work'[v] \in Seq(GoodItem(v)')
              /\ nodes'[v] # << >>
              /\ Before(v)'
              /\ Builds = {v} => Alone(v)'
  <2>1. CASE v # w
    BY <1>5, <1>15, <2>1 DEF IInv, Before, GrowStep
  <2>2. CASE v = w
    <3>1. s \in Seq(GoodItem(w)')
      BY <1>15, SeqMonotonic
    <3>2. N # << >>
      BY <1>2, EmptySeq
    <3>3. Builds = {w} => Alone(w)'
      <4>2. pc' = pc /\ alive' = alive /\ prog' = prog /\ visitedFunc' = visitedFunc \cup {<<w, f>>}
        BY DEF GrowStep
      <4>3. ASSUME Builds = {w}, NEW h \in 1..k
            PROVE  <<w, N[h].func>> \in visitedFunc'
        <5>1. \A g \in 1..Len(old) : <<w, old[g].func>> \in visitedFunc
          BY <4>3 DEF IInv, Alone
        <5>. QED  BY <1>7, <1>8, <4>2, <5>1, Zenon
      <4>4. nodes'[w] = N /\ Len(N) = k
        BY <1>2, <1>5
      <4>5. Builds = {w} => alive /\ (pc[w] = "failed" => "main" \notin DOMAIN prog[w])
        BY DEF IInv, Alone
      <4>. QED  BY <4>2, <4>3, <4>4, <4>5 DEF Alone
    <3>. QED  BY <1>5, <2>2, <3>1, <3>2, <3>3 DEF Before, GrowStep
  <2>. QED  BY <2>1, <2>2
<1>. QED  BY <1>1, <1>11, <1>12, <1>14, <1>16 DEF IInv

\* A new child: its function is called by that of its parent, is new to a visit
\* that is alone, and is marked.
LEMMA VisitCallStep ==
    ASSUME IInv, NEW w \in Builds, VisitCall(w)
    PROVE  IInv'
<1> DEFINE f == Cur(w).x
           n == Top(w).n
<1>1. Doing(w) /\ pc[w] = "visit" /\ Top(w).i > 0 /\ Cur(w).op \in CallOps
  BY DEF VisitCall, OnIns, Doing
<1>2. Rest(w) \in Seq(GoodItem(w)) /\ IsProgram(prog[w])
  BY <1>1, RestIsGood, BlockAtTop
<1>3. /\ n \in 1..Len(nodes[w]) /\ Top(w).fn = nodes[w][n].func
      /\ f \in CalledBy(prog[w], Top(w).fn)
  BY <1>1, BlockAtTop, CurrentInstruction, SMTT(40) DEF IsGood
<1>4. f \in DOMAIN prog[w] /\ f \in Func
  BY <1>3, Zenon DEF CalledBy, Func
<1>5. CASE ~NewCallee(w, f)
  <2>1. visitedFunc' = visitedFunc /\ nodes' = nodes
    BY <1>5 DEF VisitCall
  <2>2. visitedFunc \subseteq Builds \X Func /\ visitedBlock \subseteq Builds \X Func \X Nat
    BY DEF IInv, TypeOK
  <2>. QED  BY <1>1, <1>2, <2>1, <2>2, WorkStep, Zenon DEF VisitCall
<1>6. CASE NewCallee(w, f)
  <2>1. /\ nodes' = [nodes EXCEPT ![w] = WithChild(w, n, f)]
        /\ work' = [work EXCEPT ![w] = Rest(w)]
        /\ visitedFunc' = visitedFunc \cup {<<w, f>>}
        /\ UNCHANGED <<prog, alive, pc, visitedBlock, nodeQueue, written>>
    BY <1>6 DEF VisitCall
  <2>2. GrowStep(w, n, f, Rest(w))
    BY <2>1 DEF GrowStep
  <2>. HIDE DEF f, n
  <2>. QED  BY <1>1, <1>2, <1>3, <1>4, <1>6, <2>2, GrowStepKeeps DEF NewCallee
<1>. QED  BY <1>5, <1>6

\* The invariant holds before any build.
LEMMA InitIInv == Init => IInv
<1> SUFFICES ASSUME Init PROVE IInv
  OBVIOUS
<1> USE DEF Init
<1>1. DOMAIN prog = Builds /\ "main" \in Func
  <2>1. DOMAIN prog = Builds
    BY DEF Builds
  <2>2. "main" \in Func
    BY DEF Func
  <2>. QED  BY <2>1, <2>2
<1>2. <<Node("main")>> \in Seq([func : Func, children : Seq(Nat)])
  BY <1>1 DEF Node
<1>3. \A w \in Builds : /\ pc[w] = "start" /\ nodes[w] = <<Node("main")>>
                       /\ nodeQueue[w] = << >> /\ work[w] = << >>
                       /\ Len(nodes[w]) = 1 /\ nodes[w][1].children = << >>
  BY <1>1 DEF Node
<1>4. TypeOK
  <2>1. nodes \in [Builds -> Seq([func : Func, children : Seq(Nat)])]
    BY <1>1, <1>2
  <2>. QED  BY <1>1, <1>3, <2>1 DEF TypeOK
<1>5. ChildrenCalled /\ NodesOnce
  BY <1>3 DEF ChildrenCalled, NodesOnce
<1>. QED  BY <1>3, <1>4, <1>5 DEF IInv, Before, Alone

\* Every step preserves it.
LEMMA NextIInv == IInv /\ [Next]_vars => IInv'
<1> SUFFICES ASSUME IInv, [Next]_vars PROVE IInv'
  OBVIOUS
<1>1. CASE \E w \in Builds : Step(w)
  BY <1>1, OutsideSteps, MarkMainStep, VisitSteps, VisitCallStep, VisitReturnStep DEF Step
<1>2. CASE Race
  <2>1. \A v : GoodItem(v)' = GoodItem(v)
    BY <1>2 DEF Race, GoodItem
  <2>2. PICK v, w \in Builds : v # w
    BY <1>2 DEF Race
  <2>3. Builds' = Builds /\ Func' = Func
    BY <1>2 DEF Race, Builds, Func
  <2>4. TypeOK'
    BY <1>2, <2>3, ZenonT(60) DEF Race, IInv, TypeOK
  <2>5. ChildrenCalled' /\ NodesOnce'
    <3>1. prog' = prog /\ nodes' = nodes
      BY <1>2 DEF Race
    <3>. QED  BY <2>3, <3>1, Zenon DEF IInv, ChildrenCalled, NodesOnce
  <2>6. ASSUME NEW x \in Builds
        PROVE  /\ pc'[x] = "visit" => work'[x] \in Seq(GoodItem(x)')
               /\ nodes'[x] # << >>
               /\ Before(x)'
               /\ Builds # {x}
    BY <1>2, <2>1, <2>2 DEF Race, IInv, Before
  <2>. QED  BY <2>3, <2>4, <2>5, <2>6 DEF IInv
<1>3. CASE Terminated \/ UNCHANGED vars
  <2>1. UNCHANGED vars
    BY <1>3 DEF Terminated
  <2>2. \A v : GoodItem(v)' = GoodItem(v)
    BY <2>1 DEF vars, GoodItem
  <2>3. Builds' = Builds /\ Func' = Func
    BY <2>1 DEF vars, Builds, Func
  <2>4. TypeOK'
    BY <2>1, <2>3, ZenonT(60) DEF vars, IInv, TypeOK
  <2>5. ChildrenCalled' /\ NodesOnce'
    <3>1. prog' = prog /\ nodes' = nodes
      BY <2>1 DEF vars
    <3>. QED  BY <2>3, <3>1, Zenon DEF IInv, ChildrenCalled, NodesOnce
  <2>6. ASSUME NEW x \in Builds
        PROVE  /\ pc'[x] = "visit" => work'[x] \in Seq(GoodItem(x)')
               /\ nodes'[x] # << >>
               /\ Before(x)'
               /\ Builds = {x} => Alone(x)'
    BY <2>1, <2>2 DEF vars, IInv, Before, Alone
  <2>. QED  BY <2>3, <2>4, <2>5, <2>6 DEF IInv
<1>. QED  BY <1>1, <1>2, <1>3 DEF Next

\* The invariant that the theorems below rest on.
THEOREM Inductive == Spec => []IInv
BY InitIInv, NextIInv, PTL DEF Spec

\* Every variable keeps its type, and what is left to visit and to write exists,
\* for any number of builds at once.
THEOREM TypeCorrect == Spec => []TypeOK
<1>1. IInv => TypeOK
  BY DEF IInv
<1>. QED  BY <1>1, Inductive, PTL

\* Every edge of every graph is a call, for any number of builds at once.
THEOREM EdgesAreCalls == Spec => []ChildrenCalled
<1>1. IInv => ChildrenCalled
  BY DEF IInv
<1>. QED  BY <1>1, Inductive, PTL

\* A graph that is built alone has every function once, as CallGraph says.
THEOREM EveryFunctionOnce == Spec => []NodesOnce
<1>1. IInv => NodesOnce
  BY DEF IInv
<1>. QED  BY <1>1, Inductive, PTL

\* A build that is alone and has a main neither fails nor ends the process.
THEOREM NeverFailsAlone == Spec => []AloneSucceeds
<1>1. IInv => AloneSucceeds
  BY DEF IInv, AloneSucceeds, Alone
<1>. QED  BY <1>1, Inductive, PTL

-----------------------------------------------------------------------------
(* Elements of sequences.                                                  *)

LEMMA RangeOfTail ==
    ASSUME NEW S, NEW s \in Seq(S), s # << >>
    PROVE  Range(s) = {s[1]} \cup Range(Tail(s))
<1>1. s = <<s[1]>> \o Tail(s) /\ <<s[1]>> \in Seq(S) /\ Tail(s) \in Seq(S)
  OBVIOUS
<1>2. Range(s) = Range(<<s[1]>>) \cup Range(Tail(s))
  BY <1>1, RangeConcatenation
<1>3. Range(<<s[1]>>) = {s[1]}
  BY DEF Range
<1>. QED  BY <1>2, <1>3

\* One element more.
LEMMA RangeOfAppend ==
    ASSUME NEW S, NEW s \in Seq(S), NEW x \in S
    PROVE  Range(Append(s, x)) = Range(s) \cup {x}
<1>1. Append(s, x) = s \o <<x>> /\ <<x>> \in Seq(S)
  OBVIOUS
<1>2. Range(<<x>>) = {x}
  BY DEF Range
<1>3. Range(s \o <<x>>) = Range(s) \cup Range(<<x>>)
  BY <1>1, RangeConcatenation
<1>. QED  BY <1>1, <1>2, <1>3

-----------------------------------------------------------------------------
(* The blocks of main that the visit sees. *)

\* What a builder keeps when another one moves.
LEMMA OtherCovers ==
    ASSUME NEW w \in Builds, Finds(w), Writes(w), prog' = prog, nodes'[w] = nodes[w],
           work'[w] = work[w], pc'[w] = pc[w], nodeQueue'[w] = nodeQueue[w],
           written'[w] = written[w],
           \A f \in Func : <<w, f>> \in visitedFunc' => <<w, f>> \in visitedFunc,
           \A e \in visitedBlock' : e[1] = w => e \in visitedBlock
    PROVE  Finds(w)' /\ Writes(w)'
<1>1. Func' = Func
  BY DEF Func, Builds
<1>. QED  BY <1>1 DEF Finds, Writes

\* The visit moves on from item t in the middle of a block: what t stood for is
\* done or stands in what is left.
LEMMA SeenMoves ==
    ASSUME NEW blocks, NEW N, NEW N2, NEW s, NEW s2, NEW t, t.i \in Nat, t.i > 0,
           NEW V \in SUBSET (1..Len(blocks)), Seen(blocks, N, s, V),
           Range(s) \subseteq {t} \cup Range(s2),
           \A f : HasNode(N, f) => HasNode(N2, f),
           \A b \in 1..Len(blocks) : Len(blocks[b].ins) \in Nat,
           t.fn = "main" =>
              /\ \A i \in 1..Len(blocks[t.b].ins) :
                    t.i <= i /\ blocks[t.b].ins[i].op \in CallOps =>
                       HasNode(N2, blocks[t.b].ins[i].x) \/ At(s2, t.b, i)
              /\ \A k \in 1..Len(blocks[t.b].succs) :
                    \/ Waits(s2, blocks[t.b].succs[k])
                    \/ At(s2, t.b, Len(blocks[t.b].ins))
    PROVE  Seen(blocks, N2, s2, V)
<1>1. \A b : Waits(s, b) => Waits(s2, b)
  <2> SUFFICES ASSUME NEW b, Waits(s, b) PROVE Waits(s2, b)
    OBVIOUS
  <2>1. PICK u \in Range(s) : u.fn = "main" /\ u.b = b /\ u.i = 0
    BY DEF Waits
  <2>2. u # t
    BY <2>1
  <2>. QED  BY <2>1, <2>2 DEF Waits
<1>2. ASSUME NEW b, NEW i \in Nat, At(s, b, i)
      PROVE  At(s2, b, i) \/ (t.fn = "main" /\ t.b = b /\ t.i <= i)
  BY <1>2 DEF At
<1>3. 1 \in V \/ Waits(s2, 1)
  BY <1>1 DEF Seen
<1>4. ASSUME NEW b \in V
      PROVE  /\ \A i \in 1..Len(blocks[b].ins) : blocks[b].ins[i].op \in CallOps =>
                   HasNode(N2, blocks[b].ins[i].x) \/ At(s2, b, i)
             /\ \A k \in 1..Len(blocks[b].succs) :
                   \/ blocks[b].succs[k] \in V \/ Waits(s2, blocks[b].succs[k])
                   \/ At(s2, b, Len(blocks[b].ins))
  <2>1. Len(blocks[b].ins) \in Nat
    OBVIOUS
  <2>2. \A i \in 1..Len(blocks[b].ins) : i \in Nat
    BY <2>1
  <2>3. \A i \in 1..Len(blocks[b].ins) : blocks[b].ins[i].op \in CallOps =>
           HasNode(N, blocks[b].ins[i].x) \/ At(s, b, i)
    BY DEF Seen
  <2>4. \A k \in 1..Len(blocks[b].succs) :
           \/ blocks[b].succs[k] \in V \/ Waits(s, blocks[b].succs[k])
           \/ At(s, b, Len(blocks[b].ins))
    BY DEF Seen
  <2>5. \A i \in 1..Len(blocks[b].ins) : blocks[b].ins[i].op \in CallOps =>
           HasNode(N2, blocks[b].ins[i].x) \/ At(s2, b, i)
    BY <1>2, <2>2, <2>3
  <2>6. \A k \in 1..Len(blocks[b].succs) :
           \/ blocks[b].succs[k] \in V \/ Waits(s2, blocks[b].succs[k])
           \/ At(s2, b, Len(blocks[b].ins))
    BY <1>1, <1>2, <2>1, <2>4
  <2>. QED  BY <2>5, <2>6
<1>. QED  BY <1>3, <1>4 DEF Seen

\* The work after the current instruction.
LEMMA RangeOfRest ==
    ASSUME IInv, NEW w \in Builds, Doing(w), Top(w).i > 0
    PROVE  /\ Range(work[w]) = {Top(w)} \cup Range(Tail(work[w]))
           /\ Range(Tail(work[w])) \subseteq Range(Rest(w))
           /\ Top(w).i < Len(TopBlock(w).ins) =>
                 Item(Top(w).n, Top(w).fn, Top(w).b, Top(w).i + 1) \in Range(Rest(w))
<1> DEFINE t == Top(w)
           next == Item(t.n, t.fn, t.b, t.i + 1)
<1>1. work[w] \in Seq(GoodItem(w)) /\ work[w] # << >> /\ Tail(work[w]) \in Seq(GoodItem(w))
  BY TopIsGood DEF Doing
<1>2. Range(work[w]) = {t} \cup Range(Tail(work[w]))
  BY <1>1, RangeOfTail DEF Top
<1>3. CASE t.i < Len(TopBlock(w).ins)
  <2>1. Rest(w) = <<next>> \o Tail(work[w])
    BY <1>3 DEF Rest, TopBlock
  <2>2. Range(<<next>>) = {next}
    BY DEF Range
  <2>. DEFINE S == GoodItem(w) \cup {next}
  <2>3. <<next>> \in Seq(S) /\ Tail(work[w]) \in Seq(S)
    <3>1. <<next>> \in Seq({next})
      OBVIOUS
    <3>. HIDE DEF next
    <3>. QED  BY <1>1, <3>1, SeqMonotonic
  <2>. HIDE DEF S, next
  <2>4. Range(Rest(w)) = Range(<<next>>) \cup Range(Tail(work[w]))
    BY <2>1, <2>3, RangeConcatenation
  <2>. QED  BY <1>2, <2>2, <2>4 DEF next
<1>4. CASE ~(t.i < Len(TopBlock(w).ins))
  <2>1. Rest(w) = Tail(work[w])
    BY <1>4 DEF Rest, TopBlock
  <2>. QED  BY <1>2, <1>4, <2>1
<1>. QED  BY <1>3, <1>4

\* What the visit has seen, after an instruction whose callee has a node and whose
\* successors, if it branches, wait.
LEMMA SeenAfter ==
    ASSUME IInv, NEW w \in Builds, Doing(w), Top(w).i > 0, "main" \in DOMAIN prog[w],
           NEW N2, NEW s2, Range(Rest(w)) \subseteq Range(s2),
           \A f : HasNode(nodes[w], f) => HasNode(N2, f),
           Cur(w).op \in CallOps => HasNode(N2, Cur(w).x),
           Top(w).fn = "main" /\ Cur(w).op \in IfOps \cup {"jump"} =>
              \A k \in 1..Len(TopBlock(w).succs) : Waits(s2, TopBlock(w).succs[k]),
           NEW V \in SUBSET (1..Len(prog[w]["main"])),
           Seen(prog[w]["main"], nodes[w], work[w], V)
    PROVE  Seen(prog[w]["main"], N2, s2, V)
<1> DEFINE t == Top(w)
           blocks == prog[w]["main"]
<1>1. t.i \in 1..Len(TopBlock(w).ins) /\ Cur(w) = TopBlock(w).ins[t.i]
  BY CurrentInstruction
<1>2. /\ IsProgram(prog[w]) /\ IsBlock(prog[w], t.fn, TopBlock(w))
      /\ IsGood(w, t.n, t.fn, t.b, t.i, t.child)
  BY BlockAtTop
<1>3. Len(TopBlock(w).ins) \in Nat /\ Len(TopBlock(w).succs) \in Nat
  BY <1>2 DEF IsBlock
<1>4. t.i \in Nat /\ t.i > 0 /\ Range(work[w]) \subseteq {t} \cup Range(s2)
  BY <1>1, RangeOfRest
<1>5. \A b \in 1..Len(blocks) : Len(blocks[b].ins) \in Nat
  BY <1>2, BlockOfProgram, BlockHasInstructions
<1>6. ASSUME t.fn = "main", t.i < Len(TopBlock(w).ins), NEW i \in Nat, t.i < i
      PROVE  At(s2, t.b, i)
  <2>. DEFINE u == Item(t.n, t.fn, t.b, t.i + 1)
  <2>1. u \in Range(s2)
    BY <1>6, RangeOfRest
  <2>2. u.fn = "main" /\ u.b = t.b /\ u.i = t.i + 1
    BY <1>6 DEF Item
  <2>. HIDE DEF u
  <2>3. u.i > 0 /\ u.i <= i
    BY <1>4, <1>6, <2>2
  <2>. QED  BY <2>1, <2>2, <2>3 DEF At
<1>7. ASSUME t.fn = "main", NEW i \in 1..Len(TopBlock(w).ins), t.i <= i,
             TopBlock(w).ins[i].op \in CallOps
      PROVE  HasNode(N2, TopBlock(w).ins[i].x) \/ At(s2, t.b, i)
  <2>1. CASE i = t.i
    BY <1>1, <1>7, <2>1
  <2>2. CASE i # t.i
    <3>1. i \in Nat /\ t.i < i /\ t.i < Len(TopBlock(w).ins)
      BY <1>3, <1>4, <1>7, <2>2
    <3>. QED  BY <1>6, <1>7, <3>1
  <2>. QED  BY <2>1, <2>2
<1>8. ASSUME t.fn = "main", NEW k \in 1..Len(TopBlock(w).succs)
      PROVE  Waits(s2, TopBlock(w).succs[k]) \/ At(s2, t.b, Len(TopBlock(w).ins))
  <2>1. CASE t.i < Len(TopBlock(w).ins)
    BY <1>3, <1>6, <1>8, <2>1
  <2>2. CASE ~(t.i < Len(TopBlock(w).ins))
    <3>1. t.i = Len(TopBlock(w).ins)
      BY <1>1, <1>3, <2>2
    <3>2. Len(TopBlock(w).succs) > 0
      BY <1>3
    <3>3. Cur(w).op \in IfOps \cup {"jump"}
      BY <1>1, <1>2, <3>1, <3>2 DEF IsBlock
    <3>. QED  BY <1>8, <3>3
  <2>. QED  BY <2>1, <2>2
<1>9. t.fn = "main" => TopBlock(w) = blocks[t.b]
  BY DEF TopBlock
<1>. HIDE DEF t, blocks
<1>. QED  BY <1>4, <1>5, <1>7, <1>8, <1>9, SeenMoves DEF blocks

\* A step of the visit within a block, in which what is seen stays so.
LEMMA FindsOn ==
    ASSUME IInv, NEW w \in Builds, Finds(w), Doing(w), UNCHANGED <<prog, visitedBlock>>,
           NEW s2, work'[w] = s2, NEW N2, nodes'[w] = N2, pc'[w] \in {"visit", "failed"},
           \A f \in Func : <<w, f>> \in visitedFunc' => HasNode(N2, f),
           pc'[w] = "visit" =>
              \A V \in SUBSET (1..Len(prog[w]["main"])) :
                 Seen(prog[w]["main"], nodes[w], work[w], V)
                    => Seen(prog[w]["main"], N2, s2, V)
    PROVE  Finds(w)'
<1>1. Func' = Func /\ pc[w] = "visit"
  BY DEF Func, Builds, Doing
<1>2. CASE pc'[w] = "failed"
  BY <1>1, <1>2 DEF Finds
<1>3. CASE pc'[w] = "visit"
  <2>1. /\ "main" \in DOMAIN prog[w]
        /\ \E V \in SUBSET (1..Len(prog[w]["main"])) :
              /\ Seen(prog[w]["main"], nodes[w], work[w], V)
              /\ \A e \in visitedBlock : e[1] = w /\ e[2] = "main" => e[3] \in V
    BY <1>1 DEF Finds
  <2>2. \E V \in SUBSET (1..Len(prog[w]["main"])) :
              /\ Seen(prog[w]["main"], N2, s2, V)
              /\ \A e \in visitedBlock : e[1] = w /\ e[2] = "main" => e[3] \in V
    BY <1>3, <2>1
  <2>. QED  BY <1>1, <1>3, <2>1, <2>2 DEF Finds
<1>. QED  BY <1>2, <1>3

\* What is left holds, with one item or two before a good sequence.
LEMMA RangeBefore ==
    ASSUME NEW S, NEW x \in S, NEW s \in Seq(S)
    PROVE  Range(<<x>> \o s) = {x} \cup Range(s)
<1>1. <<x>> \in Seq(S)
  OBVIOUS
<1>2. Range(<<x>>) = {x}
  BY DEF Range
<1>3. Range(<<x>> \o s) = Range(<<x>>) \cup Range(s)
  BY <1>1, RangeConcatenation
<1>. QED  BY <1>2, <1>3

\* Two elements more.
LEMMA RangeBeforeTwo ==
    ASSUME NEW S, NEW x \in S, NEW y \in S, NEW s \in Seq(S)
    PROVE  Range(<<x, y>> \o s) = {x, y} \cup Range(s)
<1>1. <<x, y>> \in Seq(S)
  OBVIOUS
<1>2. Range(<<x, y>>) = {x, y}
  BY DEF Range
<1>3. Range(<<x, y>> \o s) = Range(<<x, y>>) \cup Range(s)
  BY <1>1, RangeConcatenation
<1>. QED  BY <1>2, <1>3

\* A visit of the block k after the current one waits, if that is main's.
LEMMA VisitWaits ==
    ASSUME NEW w, NEW k, Top(w).fn = "main", NEW s, Visit(w, k) \in Range(s)
    PROVE  Waits(s, TopBlock(w).succs[k])
<1>. DEFINE u == Visit(w, k)
<1>1. u.fn = "main" /\ u.b = TopBlock(w).succs[k] /\ u.i = 0
  BY DEF Visit, Item, TopBlock
<1>. HIDE DEF u
<1>. QED  BY <1>1 DEF Waits, u

\* The steps within a block that leave the nodes.
LEMMA MoveFinds ==
    ASSUME IInv, NEW w \in Builds, Finds(w),
           VisitOther(w) \/ EndReturn(w) \/ VisitIf(w) \/ VisitJump(w)
    PROVE  Finds(w)'
<1>1. /\ Doing(w) /\ Top(w).i > 0 /\ pc[w] = "visit"
      /\ UNCHANGED <<prog, visitedBlock, visitedFunc, nodes, pc>>
      /\ Cur(w).op \notin CallOps
  BY DEF VisitOther, EndReturn, VisitIf, VisitJump, OnIns, Doing, CallOps, IfOps
<1>2. Rest(w) \in Seq(GoodItem(w)) /\ work \in [Builds -> Seq(ItemType)]
  BY <1>1, RestIsGood, Zenon DEF IInv, TypeOK, ItemType
<1>3. IsBlock(prog[w], Top(w).fn, TopBlock(w))
  BY <1>1, BlockAtTop
<1>4. /\ Range(Rest(w)) \subseteq Range(work'[w])
      /\ Top(w).fn = "main" /\ Cur(w).op \in IfOps \cup {"jump"} =>
            \A k \in 1..Len(TopBlock(w).succs) : Waits(work'[w], TopBlock(w).succs[k])
  <2>1. CASE VisitOther(w) \/ EndReturn(w)
    <3>1. work'[w] = Rest(w)
      BY <1>2, <2>1 DEF VisitOther, EndReturn
    <3>2. Cur(w).op \notin IfOps \cup {"jump"}
      BY <2>1 DEF VisitOther, EndReturn, OnIns, IfOps
    <3>. QED  BY <3>1, <3>2
  <2>2. CASE VisitIf(w)
    <3>1. Len(TopBlock(w).succs) = 2
      BY <1>1, <1>3, <2>2, CurrentInstruction DEF VisitIf, OnIns, IsBlock
    <3>2. Visit(w, 1) \in GoodItem(w) /\ Visit(w, 2) \in GoodItem(w)
      BY <1>1, <3>1, VisitIsGood
    <3>3. work'[w] = <<Visit(w, 1), Visit(w, 2)>> \o Rest(w)
      BY <1>2, <2>2 DEF VisitIf, Branches
    <3>4. Range(work'[w]) = {Visit(w, 1), Visit(w, 2)} \cup Range(Rest(w))
      BY <1>2, <3>2, <3>3, RangeBeforeTwo
    <3>5. ASSUME Top(w).fn = "main", NEW k \in 1..2
          PROVE  Waits(work'[w], TopBlock(w).succs[k])
      <4>1. Visit(w, k) \in Range(work'[w])
        BY <3>4
      <4>. QED  BY <3>5, <4>1, VisitWaits
    <3>. QED  BY <3>1, <3>4, <3>5
  <2>3. CASE VisitJump(w)
    <3>1. Len(TopBlock(w).succs) = 1
      BY <1>1, <1>3, <2>3, CurrentInstruction DEF VisitJump, OnIns, IsBlock
    <3>2. Visit(w, 1) \in GoodItem(w)
      <4>1. 1 \in 1..Len(TopBlock(w).succs)
        BY <3>1
      <4>. QED  BY <1>1, <4>1, VisitIsGood
    <3>3. work'[w] = <<Visit(w, 1)>> \o Rest(w)
      BY <1>2, <2>3 DEF VisitJump
    <3>4. Range(work'[w]) = {Visit(w, 1)} \cup Range(Rest(w))
      BY <1>2, <3>2, <3>3, RangeBefore
    <3>5. ASSUME Top(w).fn = "main", NEW k \in 1..1
          PROVE  Waits(work'[w], TopBlock(w).succs[k])
      <4>1. Visit(w, k) \in Range(work'[w])
        BY <3>4
      <4>. QED  BY <3>5, <4>1, VisitWaits
    <3>. QED  BY <3>1, <3>4, <3>5
  <2>. QED  BY <2>1, <2>2, <2>3
<1>5. "main" \in DOMAIN prog[w]
  BY <1>1 DEF Finds
<1>6. ASSUME NEW V \in SUBSET (1..Len(prog[w]["main"])),
             Seen(prog[w]["main"], nodes[w], work[w], V)
      PROVE  Seen(prog[w]["main"], nodes[w], work'[w], V)
  BY <1>1, <1>4, <1>5, <1>6, SeenAfter
<1>7. \A f \in Func : <<w, f>> \in visitedFunc' => HasNode(nodes[w], f)
  BY <1>1 DEF Finds
<1>. QED  BY <1>1, <1>6, <1>7, FindsOn

\* A block is seen when the visit is before its first instruction.
LEMMA VisitBlockFinds ==
    ASSUME IInv, NEW w \in Builds, Finds(w), VisitBlock(w)
    PROVE  Finds(w)'
<1>. DEFINE t == Top(w)
            blocks == prog[w]["main"]
            u == Item(t.n, t.fn, t.b, 1)
<1>1. /\ Doing(w) /\ t.i = 0 /\ pc[w] = "visit"
      /\ UNCHANGED <<prog, visitedFunc, nodes, pc>>
  BY DEF VisitBlock, Doing
<1>2. /\ work[w] \in Seq(GoodItem(w)) /\ work[w] # << >> /\ Tail(work[w]) \in Seq(GoodItem(w))
      /\ work \in [Builds -> Seq(ItemType)]
  BY <1>1, TopIsGood, Zenon DEF Doing, IInv, TypeOK, ItemType
<1>3. Range(work[w]) = {t} \cup Range(Tail(work[w]))
  BY <1>2, RangeOfTail DEF Top
<1>4. PICK V \in SUBSET (1..Len(blocks)) :
         /\ Seen(blocks, nodes[w], work[w], V)
         /\ \A e \in visitedBlock : e[1] = w /\ e[2] = "main" => e[3] \in V
  BY <1>1 DEF Finds
<1>5. \A b, i : At(work[w], b, i) => At(Tail(work[w]), b, i)
  BY <1>1, <1>3 DEF At
<1>6. \A b : Waits(work[w], b) => Waits(Tail(work[w]), b) \/ (t.fn = "main" /\ t.b = b)
  BY <1>3 DEF Waits
<1>7. Func' = Func /\ "main" \in DOMAIN prog[w]
  BY <1>1 DEF Func, Builds, Finds
<1>8. CASE <<w, t.fn, t.b>> \in visitedBlock
  <2>1. work'[w] = Tail(work[w]) /\ visitedBlock' = visitedBlock
    BY <1>2, <1>8 DEF VisitBlock, MarkBlock
  <2>2. t.fn = "main" => t.b \in V
    BY <1>4, <1>8
  <2>3. Seen(blocks, nodes[w], Tail(work[w]), V)
    BY <1>4, <1>5, <1>6, <2>2 DEF Seen
  <2>. HIDE DEF t, blocks
  <2>. QED  BY <1>1, <1>4, <1>7, <2>1, <2>3 DEF Finds, blocks
<1>9. CASE <<w, t.fn, t.b>> \notin visitedBlock
  <2>1. /\ work'[w] = <<u>> \o Tail(work[w])
        /\ visitedBlock' = visitedBlock \cup {<<w, t.fn, t.b>>}
    BY <1>2, <1>9 DEF VisitBlock, MarkBlock
  <2>2. Range(work'[w]) = {u} \cup Range(Tail(work[w]))
    <3>. DEFINE S == GoodItem(w) \cup {u}
    <3>1. Tail(work[w]) \in Seq(S) /\ u \in S
      BY <1>2, SeqMonotonic
    <3>. HIDE DEF S, u
    <3>. QED  BY <2>1, <3>1, RangeBefore
  <2>3. /\ IsProgram(prog[w]) /\ t.b \in 1..Len(prog[w][t.fn])
        /\ IsBlock(prog[w], t.fn, TopBlock(w))
    BY <1>1, BlockAtTop
  <2>4. u.fn = t.fn /\ u.b = t.b /\ u.i = 1
    BY DEF Item
  <2>. HIDE DEF u
  <2>5. \A b, i : At(work[w], b, i) => At(work'[w], b, i)
    BY <1>5, <2>2 DEF At
  <2>6. ASSUME t.fn = "main", NEW i \in Nat, i > 0 PROVE At(work'[w], t.b, i)
    BY <2>2, <2>4, <2>6 DEF At
  <2>7. \A b : Waits(work[w], b) => Waits(work'[w], b) \/ (t.fn = "main" /\ t.b = b)
    BY <1>6, <2>2 DEF Waits
  <2>. DEFINE V2 == IF t.fn = "main" THEN V \cup {t.b} ELSE V
  <2>8. V2 \in SUBSET (1..Len(blocks)) /\ V \subseteq V2
    BY <2>3
  <2>9. \A b : Waits(work[w], b) => Waits(work'[w], b) \/ b \in V2
    BY <2>7
  <2>10. \A b \in V2 : b \in V \/ (t.fn = "main" /\ b = t.b)
    OBVIOUS
  <2>11. t.fn = "main" => Len(blocks[t.b].ins) \in Nat /\ 0 < Len(blocks[t.b].ins)
    BY <2>3, BlockHasInstructions DEF TopBlock
  <2>12. \A e \in visitedBlock' : e[1] = w /\ e[2] = "main" => e[3] \in V2
    <3>1. <<w, t.fn, t.b>>[2] = t.fn /\ <<w, t.fn, t.b>>[3] = t.b
      OBVIOUS
    <3>2. t.fn = "main" => t.b \in V2
      OBVIOUS
    <3>. HIDE DEF V2
    <3>. QED  BY <1>4, <2>1, <2>8, <3>1, <3>2
  <2>. HIDE DEF V2, t, blocks
  <2>13. Seen(blocks, nodes[w], work'[w], V2)
    <3>1. 1 \in V2 \/ Waits(work'[w], 1)
      BY <1>4, <2>8, <2>9 DEF Seen
    <3>2. ASSUME NEW b \in V2
          PROVE  /\ \A i \in 1..Len(blocks[b].ins) : blocks[b].ins[i].op \in CallOps =>
                       HasNode(nodes[w], blocks[b].ins[i].x) \/ At(work'[w], b, i)
                 /\ \A k \in 1..Len(blocks[b].succs) :
                       \/ blocks[b].succs[k] \in V2 \/ Waits(work'[w], blocks[b].succs[k])
                       \/ At(work'[w], b, Len(blocks[b].ins))
      <4>1. CASE b \in V
        BY <1>4, <2>5, <2>8, <2>9, <4>1 DEF Seen
      <4>2. CASE t.fn = "main" /\ b = t.b
        <5>1. \A i \in 1..Len(blocks[b].ins) : i \in Nat /\ i > 0
          BY <2>11, <4>2
        <5>. QED  BY <2>6, <2>11, <4>2, <5>1
      <4>. QED  BY <2>10, <4>1, <4>2
    <3>. QED  BY <3>1, <3>2 DEF Seen
  <2>. QED  BY <1>1, <1>7, <2>8, <2>12, <2>13 DEF Finds, blocks
<1>. QED  BY <1>8, <1>9

-----------------------------------------------------------------------------
(* The nodes are a tree. *)

LEMMA ChildInTree ==
    ASSUME IInv, NEW w \in Builds, NEW n \in 1..Len(nodes[w]), NEW f \in Func, IsTree(nodes[w])
    PROVE  /\ IsTree(WithChild(w, n, f))
           /\ HasNode(WithChild(w, n, f), f)
           /\ \A g : HasNode(nodes[w], g) => HasNode(WithChild(w, n, f), g)
<1>. DEFINE N == WithChild(w, n, f)
            old == nodes[w]
            k == Len(old) + 1
<1>1. /\ Len(old) \in Nat /\ N \in Seq(NodeType) /\ Len(N) = k /\ N[k] = Node(f)
      /\ \A m \in 1..Len(old) : N[m].func = old[m].func
      /\ \A m \in 1..Len(old) : m # n => N[m] = old[m]
      /\ old[n].children \in Seq(Nat)
      /\ N[n].children = Append(old[n].children, k)
  BY ChildAdded, Zenon DEF IInv
<1>2. old # << >>
  BY DEF IInv
<1>3. old \in Seq(NodeType)
  BY Zenon DEF IInv, TypeOK, NodeType
<1>4. n \in Nat /\ 1 <= n /\ n <= Len(old)
  OBVIOUS
<1>. HIDE DEF N, old
<1>5. 1 \in 1..Len(old) /\ k \in Nat /\ k \in 1..Len(N) /\ 1..Len(old) \subseteq 1..Len(N)
  BY <1>1, <1>4
<1>6. Children(N, n) = Children(old, n) \cup {k}
  BY <1>1, <1>5, RangeOfAppend DEF Children
<1>7. \A m \in 1..Len(old) : Children(old, m) \subseteq Children(N, m)
  <2>1. \A m \in 1..Len(old) : m # n => Children(old, m) = Children(N, m)
    BY <1>1 DEF Children
  <2>. QED  BY <1>6, <2>1
<1>8. N[1].func = "main"
  BY <1>1, <1>5 DEF IsTree, old
<1>9. ASSUME NEW m \in 2..Len(N) PROVE \E h \in 1..m-1 : m \in Children(N, h)
  <2>1. CASE m = k
    <3>1. n \in 1..m-1 /\ m \in Children(N, n)
      BY <1>1, <1>4, <1>6, <2>1
    <3>. QED  BY <3>1
  <2>2. CASE m # k
    <3>1. m \in 2..Len(old)
      BY <1>1, <2>2
    <3>2. PICK h \in 1..m-1 : m \in Children(old, h)
      BY <3>1 DEF IsTree, old
    <3>3. h \in 1..Len(old)
      BY <1>1, <3>1
    <3>. QED  BY <1>7, <3>2, <3>3
  <2>. QED  BY <2>1, <2>2
<1>10. HasNode(N, f)
  BY <1>1, <1>5 DEF HasNode, Node
<1>11. \A g : HasNode(old, g) => HasNode(N, g)
  BY <1>1, <1>5 DEF HasNode
<1>. QED  BY <1>8, <1>9, <1>10, <1>11 DEF IsTree, N, old

\* visitBlock at a call or a go statement.
LEMMA VisitCallCovers ==
    ASSUME IInv, NEW w \in Builds, Finds(w), Writes(w), VisitCall(w)
    PROVE  Finds(w)' /\ Writes(w)'
<1>. DEFINE f == Cur(w).x
            n == Top(w).n
            N2 == IF NewCallee(w, f) THEN WithChild(w, n, f) ELSE nodes[w]
<1>1. /\ Doing(w) /\ Top(w).i > 0 /\ pc[w] = "visit" /\ Cur(w).op \in CallOps
      /\ UNCHANGED <<prog, visitedBlock, pc>>
      /\ work' = [work EXCEPT ![w] = Rest(w)]
  BY DEF VisitCall, OnIns, Doing
<1>2. /\ work \in [Builds -> Seq(ItemType)] /\ nodes \in [Builds -> Seq(NodeType)]
      /\ visitedFunc \subseteq Builds \X Func
  BY Zenon DEF IInv, TypeOK, ItemType, NodeType
<1>3. /\ n \in 1..Len(nodes[w]) /\ Top(w).fn = nodes[w][n].func
      /\ f \in CalledBy(prog[w], Top(w).fn)
  BY <1>1, BlockAtTop, CurrentInstruction, SMTT(40) DEF IsGood
<1>4. f \in DOMAIN prog[w] /\ f \in Func /\ IsTree(nodes[w])
  BY <1>3, Zenon DEF CalledBy, Func, Writes
<1>. HIDE DEF f, n
<1>5. /\ nodes'[w] = N2 /\ IsTree(N2)
      /\ \A g : HasNode(nodes[w], g) => HasNode(N2, g)
      /\ visitedFunc' \subseteq visitedFunc \cup {<<w, f>>}
      /\ HasNode(N2, f)
  <2>1. CASE NewCallee(w, f)
    <3>1. /\ nodes' = [nodes EXCEPT ![w] = WithChild(w, n, f)]
          /\ visitedFunc' = visitedFunc \cup {<<w, f>>}
      BY <2>1 DEF VisitCall, f, n
    <3>. QED  BY <1>2, <1>3, <1>4, <2>1, <3>1, ChildInTree
  <2>2. CASE ~NewCallee(w, f)
    <3>1. UNCHANGED <<visitedFunc, nodes>>
      BY <2>2 DEF VisitCall, f
    <3>2. HasNode(nodes[w], f)
      BY <1>4, <2>2 DEF NewCallee, Finds
    <3>. QED  BY <1>4, <2>2, <3>1, <3>2
  <2>. QED  BY <2>1, <2>2
<1>. HIDE DEF N2
<1>6. \A g \in Func : <<w, g>> \in visitedFunc' => HasNode(N2, g)
  BY <1>5 DEF Finds
<1>7. "main" \in DOMAIN prog[w] /\ work'[w] = Rest(w)
  BY <1>1, <1>2 DEF Finds
<1>8. Cur(w).op \notin IfOps \cup {"jump"}
  BY <1>1 DEF CallOps, IfOps
<1>9. ASSUME NEW V \in SUBSET (1..Len(prog[w]["main"])),
             Seen(prog[w]["main"], nodes[w], work[w], V)
      PROVE  Seen(prog[w]["main"], N2, Rest(w), V)
  BY <1>1, <1>5, <1>7, <1>8, <1>9, SeenAfter DEF f
<1>10. Finds(w)'
  BY <1>1, <1>5, <1>6, <1>7, <1>9, FindsOn
<1>11. Writes(w)'
  BY <1>1, <1>5 DEF Writes
<1>. QED  BY <1>10, <1>11

\* A return stands where it stood until it has looked at every child.
LEMMA VisitReturnFinds ==
    ASSUME IInv, NEW w \in Builds, Finds(w), VisitReturn(w)
    PROVE  Finds(w)'
<1>. DEFINE t == Top(w)
            k == nodes[w][t.n].children[t.child]
            f == nodes[w][k].func
            next == <<Looked(t)>> \o Tail(work[w])
            blocks == prog[w]["main"]
<1>1. /\ Doing(w) /\ pc[w] = "visit" /\ t.i > 0 /\ Cur(w).op = "return"
      /\ UNCHANGED <<prog, visitedBlock, nodes>>
  BY ZenonT(60) DEF VisitReturn, OnIns, Doing
<1>2. /\ IsGood(w, t.n, t.fn, t.b, t.i, t.child)
      /\ IsProgram(prog[w])
      /\ work \in [Builds -> Seq(ItemType)] /\ pc \in [Builds -> Control]
      /\ t \in GoodItem(w)
      /\ work[w] \in Seq(GoodItem(w)) /\ work[w] # << >>
      /\ Tail(work[w]) \in Seq(GoodItem(w))
  BY <1>1, BlockAtTop, TopIsGood, Zenon DEF IInv, TypeOK, ItemType, Control, Doing
<1>3. t.i \in 1..Len(TopBlock(w).ins) /\ Cur(w) = TopBlock(w).ins[t.i]
  BY <1>1, CurrentInstruction
<1>4. k \in 1..Len(nodes[w])
  <2>1. t.child \in 1..Len(nodes[w][t.n].children) /\ t.n \in 1..Len(nodes[w])
    <3>1. t.child \in Nat \ {0} /\ t.n \in 1..Len(nodes[w])
      BY <1>2 DEF IsGood
    <3>2. nodes[w] \in Seq([func : Func, children : Seq(Nat)])
      BY Zenon DEF IInv, TypeOK
    <3>3. nodes[w][t.n] \in [func : Func, children : Seq(Nat)]
      BY <3>1, <3>2, ElementOfSeq, ZenonT(60)
    <3>4. nodes[w][t.n].children \in Seq(Nat)
      BY <3>3
    <3>5. Len(nodes[w][t.n].children) \in Nat /\ t.child <= Len(nodes[w][t.n].children)
      BY <3>4, LenProperties, Zenon DEF VisitReturn
    <3>. QED  BY <3>1, <3>5
  <2>2. k \in t.n+1..Len(nodes[w])
    BY <2>1, Zenon DEF IInv, TypeOK
  <2>3. t.n \in Nat /\ t.n >= 1 /\ Len(nodes[w]) \in Nat
    BY <2>1 DEF IInv, TypeOK
  <2>. QED  BY <2>2, <2>3
<1>5. visitedFunc' \subseteq visitedFunc \cup {<<w, f>>}
  BY DEF VisitReturn
<1>6. \A g \in Func : <<w, g>> \in visitedFunc' => HasNode(nodes[w], g)
  <2>1. HasNode(nodes[w], f)
    BY <1>4 DEF HasNode
  <2>. HIDE DEF f
  <2>. QED  BY <1>5, <2>1 DEF Finds
<1>7. /\ Looked(t).fn = t.fn /\ Looked(t).b = t.b /\ Looked(t).i = t.i
      /\ Looked(t) \in ItemType
  <2>1. t \in ItemType /\ t.child + 1 \in Nat \ {0}
    <3>1. t \in [n : 1..Len(nodes[w]), fn : DOMAIN prog[w], b : Nat, i : Nat,
                 child : Nat \ {0}]
      BY <1>2 DEF GoodItem
    <3>2. DOMAIN prog[w] \subseteq Func /\ 1..Len(nodes[w]) \subseteq Nat
      BY DEF Func
    <3>. HIDE DEF t
    <3>. QED  BY <3>1, <3>2 DEF ItemType
  <2>. HIDE DEF t
  <2>. QED  BY <2>1 DEF Looked, ItemType
<1>8. Tail(work[w]) \in Seq(ItemType) /\ Range(work[w]) = {t} \cup Range(Tail(work[w]))
  <2>1. IsProgram(prog[w])
    BY <1>2
  <2>. QED  BY <1>2, <2>1, GoodIsTyped, RangeOfTail DEF Top
<1>9. next \in Seq(ItemType) /\ Range(next) = {Looked(t)} \cup Range(Tail(work[w]))
  <2>1. Looked(t) \in ItemType /\ Tail(work[w]) \in Seq(ItemType)
    BY <1>7, <1>8
  <2>. HIDE DEF t
  <2>. QED  BY ONLY <2>1, GoodBefore, RangeBefore
<1>10. Range(next) \subseteq Range(work'[w]) \/ pc'[w] = "failed"
  <2>1. CASE ~Unvisited(w, f)
    BY <1>2, <2>1 DEF VisitReturn
  <2>2. CASE Unvisited(w, f)
    <3>1. work'[w] = <<ChildItem(t, k, f)>> \o next
      BY <1>2, <2>2 DEF VisitReturn
    <3>2. CASE prog[w][f] = << >>
      BY <1>2, <2>2, <3>2 DEF VisitReturn
    <3>3. CASE prog[w][f] # << >>
      <4>. DEFINE c == ChildItem(t, k, f)
                  S == ItemType \cup {c}
      <4>. HIDE DEF next
      <4>1. c \in S /\ next \in Seq(S)
        <5>1. c \in S /\ ItemType \subseteq S
          OBVIOUS
        <5>. HIDE DEF S, c
        <5>. QED  BY <1>9, <5>1, SeqMonotonic
      <4>. HIDE DEF c, S, next
      <4>2. Range(<<c>> \o next) = {c} \cup Range(next)
        BY <4>1, RangeBefore
      <4>. QED  BY <3>1, <4>2 DEF c
    <3>. QED  BY <3>2, <3>3
  <2>. QED  BY <2>1, <2>2
<1>11. pc'[w] \in {"visit", "failed"}
  BY <1>1, <1>2 DEF VisitReturn
<1>. HIDE DEF next, f, k
<1>12. ASSUME pc'[w] = "visit", NEW V \in SUBSET (1..Len(blocks)),
              Seen(blocks, nodes[w], work[w], V)
       PROVE  Seen(blocks, nodes[w], work'[w], V)
  <2>1. Range(next) \subseteq Range(work'[w])
    BY <1>10, <1>12
  <2>2. Looked(t) \in Range(work'[w]) /\ Range(work[w]) \subseteq {t} \cup Range(work'[w])
    BY <1>8, <1>9, <2>1
  <2>3. t.i \in Nat
    BY <1>2 DEF IsGood
  <2>4. "main" \in DOMAIN prog[w]
    BY <1>1 DEF Finds
  <2>5. \A b \in 1..Len(blocks) : Len(blocks[b].ins) \in Nat
    BY <1>2, <2>4, BlockOfProgram, BlockHasInstructions
  <2>6. ASSUME t.fn = "main", NEW i, t.i <= i PROVE At(work'[w], t.b, i)
    BY <1>1, <1>7, <2>2, <2>6 DEF At
  <2>7. ASSUME t.fn = "main" PROVE t.i <= Len(blocks[t.b].ins)
    BY <1>2, <2>7 DEF IsGood
  <2>. HIDE DEF t, blocks
  <2>8. t.i > 0
    BY <1>1
  <2>. QED  BY <1>12, <2>2, <2>3, <2>5, <2>6, <2>7, <2>8, SeenMoves DEF blocks
<1>. HIDE DEF blocks, t
<1>. QED  BY <1>1, <1>6, <1>11, <1>12, FindsOn DEF blocks

-----------------------------------------------------------------------------
(* The steps outside the visit. *)

LEMMA BeforeVisitCovers ==
    ASSUME IInv, NEW w \in Builds, Finds(w), Writes(w),
           NoMain(w) \/ MakeVisitedFunc(w) \/ MakeVisitedBlock(w)
    PROVE  Finds(w)' /\ Writes(w)'
<1>1. /\ pc \in [Builds -> Control] /\ pc[w] \in {"start", "made"}
      /\ pc'[w] \in {"failed", "made", "marking"}
      /\ UNCHANGED <<prog, nodes>>
      /\ visitedFunc' \subseteq visitedFunc /\ visitedBlock' \subseteq visitedBlock
  BY Zenon DEF NoMain, MakeVisitedFunc, MakeVisitedBlock, IInv, TypeOK, Control
<1>2. Func' = Func
  BY <1>1 DEF Func, Builds
<1>. QED  BY <1>1, <1>2 DEF Finds, Writes

\* Build marks main, and the visit of its entry waits.
LEMMA MarkMainCovers ==
    ASSUME IInv, NEW w \in Builds, Finds(w), Writes(w), MarkMain(w)
    PROVE  Finds(w)' /\ Writes(w)'
<1>. DEFINE first == Item(1, "main", 1, 0)
<1>1. /\ pc \in [Builds -> Control] /\ work \in [Builds -> Seq(ItemType)]
      /\ pc[w] = "marking"
      /\ UNCHANGED <<prog, nodes, visitedBlock>>
      /\ visitedFunc' = visitedFunc \cup {<<w, "main">>}
  BY Zenon DEF MarkMain, IInv, TypeOK, Control, ItemType
<1>2. pc'[w] = "visit" /\ work'[w] = <<first>>
  BY <1>1 DEF MarkMain
<1>3. /\ nodes[w] = <<Node("main")>> /\ "main" \in DOMAIN prog[w]
  BY <1>1 DEF IInv, Before
<1>4. HasNode(nodes[w], "main")
  BY <1>3 DEF HasNode, Node
<1>5. Func' = Func
  BY <1>1 DEF Func, Builds
<1>6. Waits(work'[w], 1)
  <2>1. Range(<<first>>) = {first}
    BY DEF Range
  <2>2. first.fn = "main" /\ first.b = 1 /\ first.i = 0
    BY DEF Item
  <2>. HIDE DEF first
  <2>. QED  BY <1>2, <2>1, <2>2 DEF Waits
<1>7. Seen(prog[w]["main"], nodes[w], work'[w], {})
  BY <1>6 DEF Seen
<1>8. \A e \in visitedBlock : e[1] # w
  BY <1>1 DEF Finds
<1>9. {} \in SUBSET (1..Len(prog[w]["main"]))
  OBVIOUS
<1>10. \A g \in Func : <<w, g>> \in visitedFunc' => HasNode(nodes[w], g)
  BY <1>1, <1>4 DEF Finds
<1>11. Finds(w)'
  BY <1>1, <1>2, <1>3, <1>5, <1>7, <1>8, <1>9, <1>10 DEF Finds
<1>12. Writes(w)'
  BY <1>1, <1>2 DEF Writes
<1>. QED  BY <1>11, <1>12

\* When the visit ends, all it has seen has a node.
LEMMA EndBuildCovers ==
    ASSUME IInv, NEW w \in Builds, Finds(w), Writes(w), EndBuild(w)
    PROVE  Finds(w)' /\ Writes(w)'
<1>1. /\ pc \in [Builds -> Control] /\ nodeQueue \in [Builds -> Seq(Nat)]
      /\ pc[w] = "visit" /\ work[w] = << >>
      /\ UNCHANGED <<prog, nodes, visitedFunc, visitedBlock, work>>
  BY Zenon DEF EndBuild, IInv, TypeOK, Control
<1>2. pc'[w] = "write" /\ nodeQueue'[w] = <<1>>
  BY <1>1 DEF EndBuild
<1>3. Range(<<1>>) = {1}
  BY DEF Range
<1>4. Func' = Func
  BY <1>1 DEF Func, Builds
<1>5. Finds(w)'
  BY <1>1, <1>2, <1>4 DEF Finds
<1>6. \E D \in SUBSET (1..Len(nodes[w])) :
             /\ 1 \in D \cup Range(nodeQueue'[w])
             /\ \A n \in D : /\ nodes[w][n].func \in Range(written'[w])
                             /\ Children(nodes[w], n) \subseteq D \cup Range(nodeQueue'[w])
  <2>1. {} \in SUBSET (1..Len(nodes[w])) /\ 1 \in {} \cup Range(nodeQueue'[w])
    BY <1>2, <1>3
  <2>. QED  BY <2>1
<1>7. Writes(w)'
  BY <1>1, <1>2, <1>6 DEF Writes
<1>. QED  BY <1>5, <1>7

\* WriteTo moves a node from the queue to those written, its children to the queue.
LEMMA WriteNodeCovers ==
    ASSUME IInv, NEW w \in Builds, Finds(w), Writes(w), WriteNode(w)
    PROVE  Finds(w)' /\ Writes(w)'
<1>. DEFINE q == nodeQueue[w]
            N == nodes[w]
            n == q[1]
<1>1. /\ pc[w] = "write" /\ q # << >>
      /\ UNCHANGED <<prog, nodes, visitedFunc, visitedBlock, work, pc>>
      /\ q \in Seq(Nat) /\ N \in Seq(NodeType)
      /\ nodeQueue \in [Builds -> Seq(Nat)] /\ written \in [Builds -> Seq(Func)]
      /\ \A j \in 1..Len(q) : q[j] \in 1..Len(N)
  BY Zenon DEF WriteNode, IInv, TypeOK, NodeType
<1>2. n \in 1..Len(N) /\ N[n] \in NodeType
  <2>1. 1 \in 1..Len(q)
    BY <1>1, EmptySeq
  <2>. QED  BY <1>1, <2>1, ElementOfSeq
<1>3. nodeQueue'[w] = Tail(q) \o N[n].children
  BY <1>1 DEF WriteNode
<1>4. Tail(q) \in Seq(Nat) /\ N[n].children \in Seq(Nat)
  BY <1>1, <1>2 DEF NodeType
<1>5. Range(q) = {n} \cup Range(Tail(q))
  BY <1>1, RangeOfTail
<1>6. Range(nodeQueue'[w]) = Range(Tail(q)) \cup Children(N, n)
  <2>. HIDE DEF q, n, N
  <2>1. Range(Tail(q) \o N[n].children) = Range(Tail(q)) \cup Range(N[n].children)
    BY <1>4, RangeConcatenation
  <2>. QED  BY <1>3, <2>1 DEF Children
<1>7. Range(written[w]) \subseteq Range(written'[w]) /\ N[n].func \in Range(written'[w])
  <2>1. CASE Repeated(w, N[n].func)
    BY <2>1 DEF WriteNode, Repeated
  <2>2. CASE ~Repeated(w, N[n].func)
    <3>1. written'[w] = Append(written[w], N[n].func)
      BY <1>1, <2>2 DEF WriteNode
    <3>2. written[w] \in Seq(Func) /\ N[n].func \in Func
      BY <1>1, <1>2 DEF NodeType
    <3>. HIDE DEF N, n
    <3>3. Range(written'[w]) = Range(written[w]) \cup {N[n].func}
      BY <3>1, <3>2, RangeOfAppend
    <3>. QED  BY <3>3
  <2>. QED  BY <2>1, <2>2
<1>. HIDE DEF q, n, N
<1>8. PICK D \in SUBSET (1..Len(N)) :
         /\ 1 \in D \cup Range(q)
         /\ \A m \in D : /\ N[m].func \in Range(written[w])
                         /\ Children(N, m) \subseteq D \cup Range(q)
  BY <1>1 DEF Writes, N, q
<1>. DEFINE D2 == D \cup {n}
<1>9. /\ D2 \in SUBSET (1..Len(N)) /\ 1 \in D2 \cup Range(nodeQueue'[w])
      /\ \A m \in D2 : /\ N[m].func \in Range(written'[w])
                       /\ Children(N, m) \subseteq D2 \cup Range(nodeQueue'[w])
  BY <1>2, <1>5, <1>6, <1>7, <1>8
<1>. HIDE DEF D2
<1>10. nodes'[w] = N /\ IsTree(N) /\ pc'[w] = "write" /\ Func' = Func
  BY <1>1 DEF N, Writes, Func, Builds
<1>11. Writes(w)'
  BY <1>9, <1>10 DEF Writes
<1>12. Finds(w)'
  BY <1>1, <1>10 DEF Finds
<1>. QED  BY <1>11, <1>12

\* WriteTo ends when nothing is queued.
LEMMA EndWriteCovers ==
    ASSUME IInv, NEW w \in Builds, Finds(w), Writes(w), EndWrite(w)
    PROVE  Finds(w)' /\ Writes(w)'
<1>1. /\ pc \in [Builds -> Control] /\ pc[w] = "write" /\ nodeQueue[w] = << >>
      /\ UNCHANGED <<prog, nodes, visitedFunc, visitedBlock, work, nodeQueue, written>>
  BY Zenon DEF EndWrite, IInv, TypeOK, Control
<1>2. pc'[w] = "done" /\ Func' = Func
  BY <1>1 DEF EndWrite, Func, Builds
<1>. QED  BY <1>1, <1>2 DEF Finds, Writes

-----------------------------------------------------------------------------
(* Main and its own callees are written. *)

LEMMA StepCovers ==
    ASSUME IInv, NEW w \in Builds, Finds(w), Writes(w), Step(w)
    PROVE  Finds(w)' /\ Writes(w)'
<1>1. CASE NoMain(w) \/ MakeVisitedFunc(w) \/ MakeVisitedBlock(w)
  BY <1>1, BeforeVisitCovers
<1>2. CASE MarkMain(w)
  BY <1>2, MarkMainCovers
<1>3. CASE VisitBlock(w) \/ VisitOther(w) \/ VisitIf(w) \/ VisitJump(w) \/ EndReturn(w)
           \/ VisitReturn(w)
  <2>1. Finds(w)'
    BY <1>3, VisitBlockFinds, MoveFinds, VisitReturnFinds
  <2>2. pc[w] = "visit" /\ nodes' = nodes /\ pc'[w] \in {"visit", "failed"}
    <3>1. pc \in [Builds -> Control]
      BY Zenon DEF IInv, TypeOK, Control
    <3>. QED  BY <1>3, <3>1 DEF VisitBlock, VisitOther, VisitIf, VisitJump, EndReturn,
                             VisitReturn, OnIns, Doing
  <2>3. Writes(w)'
    BY <2>2 DEF Writes
  <2>. QED  BY <2>1, <2>3
<1>4. CASE VisitCall(w)
  BY <1>4, VisitCallCovers
<1>5. CASE EndBuild(w)
  BY <1>5, EndBuildCovers
<1>6. CASE WriteNode(w)
  BY <1>6, WriteNodeCovers
<1>7. CASE EndWrite(w)
  BY <1>7, EndWriteCovers
<1>. QED  BY <1>1, <1>2, <1>3, <1>4, <1>5, <1>6, <1>7 DEF Step

\* A step of one builder marks only its own functions and blocks.
LEMMA StepIsOwn ==
    ASSUME IInv, NEW w \in Builds, Step(w), NEW v \in Builds, v # w
    PROVE  /\ prog' = prog /\ nodes'[v] = nodes[v] /\ work'[v] = work[v]
           /\ pc'[v] = pc[v] /\ nodeQueue'[v] = nodeQueue[v] /\ written'[v] = written[v]
           /\ \A f \in Func : <<v, f>> \in visitedFunc' => <<v, f>> \in visitedFunc
           /\ \A e \in visitedBlock' : e[1] = v => e \in visitedBlock
<1>1. /\ pc \in [Builds -> Control] /\ nodes \in [Builds -> Seq(NodeType)]
      /\ work \in [Builds -> Seq(ItemType)] /\ nodeQueue \in [Builds -> Seq(Nat)]
      /\ written \in [Builds -> Seq(Func)]
  BY Zenon DEF IInv, TypeOK, Control, NodeType, ItemType
<1>2. CASE NoMain(w) \/ MakeVisitedFunc(w) \/ MakeVisitedBlock(w)
  BY <1>1, <1>2 DEF NoMain, MakeVisitedFunc, MakeVisitedBlock
<1>3. CASE MarkMain(w)
  BY <1>1, <1>3 DEF MarkMain
<1>4. CASE VisitBlock(w)
  <2>1. \A e \in visitedBlock' : e[1] = v => e \in visitedBlock
    BY <1>4 DEF VisitBlock, MarkBlock
  <2>. QED  BY <1>1, <1>4, <2>1 DEF VisitBlock
<1>5. CASE VisitCall(w)
  BY <1>1, <1>5 DEF VisitCall
<1>6. CASE VisitOther(w) \/ VisitIf(w) \/ VisitJump(w) \/ EndReturn(w)
  BY <1>1, <1>6 DEF VisitOther, VisitIf, VisitJump, EndReturn
<1>7. CASE VisitReturn(w)
  <2>1. UNCHANGED <<prog, visitedBlock, nodes, nodeQueue, written>>
    BY <1>7 DEF VisitReturn
  <2>2. /\ pc' = pc \/ pc' = [pc EXCEPT ![w] = "failed"]
        /\ \E s : work' = [work EXCEPT ![w] = s]
        /\ \E f : visitedFunc' \subseteq visitedFunc \cup {<<w, f>>}
    BY <1>7 DEF VisitReturn
  <2>3. pc'[v] = pc[v] /\ work'[v] = work[v]
    BY <1>1, <2>2
  <2>. QED  BY <2>1, <2>2, <2>3
<1>8. CASE EndBuild(w) \/ EndWrite(w)
  BY <1>1, <1>8 DEF EndBuild, EndWrite
<1>9. CASE WriteNode(w)
  BY <1>1, <1>9 DEF WriteNode
<1>. QED  BY <1>2, <1>3, <1>4, <1>5, <1>6, <1>7, <1>8, <1>9 DEF Step

\* Every step preserves Covering.
LEMMA NextCovering ==
    ASSUME IInv, Covering, [Next]_vars
    PROVE  Covering'
<1>1. ASSUME NEW w \in Builds, Step(w) PROVE Covering'
  <2>1. ASSUME NEW v \in Builds PROVE Finds(v)' /\ Writes(v)'
    <3>1. CASE v = w
      BY <1>1, <3>1, StepCovers DEF Covering
    <3>2. CASE v # w
      BY <1>1, <3>2, StepIsOwn, OtherCovers DEF Covering
    <3>. QED  BY <3>1, <3>2
  <2>2. prog' = prog
    BY <1>1, Zenon DEF Step, NoMain, MakeVisitedFunc, MakeVisitedBlock, MarkMain, VisitBlock,
       VisitCall, VisitOther, VisitIf, VisitJump, VisitReturn, EndReturn, EndBuild,
       WriteNode, EndWrite
  <2>. QED  BY <2>1, <2>2 DEF Covering, Builds
<1>2. CASE Race \/ Terminated \/ UNCHANGED vars
  <2>1. UNCHANGED <<prog, pc, visitedFunc, visitedBlock, nodes, work, nodeQueue, written>>
    BY <1>2 DEF Race, Terminated, vars
  <2>2. Builds' = Builds
    BY <2>1 DEF Builds
  <2>3. ASSUME NEW v \in Builds PROVE Finds(v)' /\ Writes(v)'
    BY <2>1, OtherCovers DEF Covering
  <2>. QED  BY <2>2, <2>3 DEF Covering
<1>. QED  BY <1>1, <1>2 DEF Next

\* In a tree, what holds the root and the children of each of its nodes is all.
LEMMA TreeReached ==
    ASSUME NEW N \in Seq(NodeType), IsTree(N), NEW D \in SUBSET (1..Len(N)), 1 \in D,
           \A n \in D : Children(N, n) \subseteq D
    PROVE  D = 1..Len(N)
<1>. DEFINE Out == {m \in 1..Len(N) : m \notin D}
<1>1. SUFFICES ASSUME Out # {} PROVE FALSE
  OBVIOUS
<1>2. Out \subseteq Nat
  OBVIOUS
<1>3. PICK m \in Out : \A n \in Out : m <= n
  <2>. HIDE DEF Out
  <2>. QED  BY <1>1, <1>2, LeastElement
<1>4. m \in 2..Len(N) /\ m \notin D
  OBVIOUS
<1>5. PICK n \in 1..m-1 : m \in Children(N, n)
  BY <1>4 DEF IsTree
<1>6. n \in 1..Len(N) /\ n < m
  BY <1>4
<1>7. n \in D
  BY <1>3, <1>6
<1>. QED  BY <1>4, <1>5, <1>7

\* When the visit is over, main's blocks are seen, and their calls have a node.
LEMMA CalleesFound ==
    ASSUME IInv, NEW w \in Builds, Finds(w), pc[w] = "done", NEW g \in CalledBy(prog[w], "main")
    PROVE  HasNode(nodes[w], g)
<1>. DEFINE blocks == prog[w]["main"]
<1>1. /\ work[w] = << >> /\ "main" \in DOMAIN prog[w]
      /\ \E V \in SUBSET (1..Len(blocks)) : Seen(blocks, nodes[w], work[w], V)
  BY DEF Finds
<1>2. PICK V \in SUBSET (1..Len(blocks)) : Seen(blocks, nodes[w], << >>, V)
  BY <1>1
<1>3. Range(<< >>) = {}
  BY DEF Range
<1>4. /\ \A b : ~Waits(<< >>, b)
      /\ \A b, i : ~At(<< >>, b, i)
  BY <1>3 DEF Waits, At
<1>5. IsClosed(prog[w], "main", V)
  BY <1>2, <1>4 DEF Seen, IsClosed
<1>6. PICK b \in BlocksOf(prog[w], "main") : \E i \in 1..Len(blocks[b].ins) :
         blocks[b].ins[i].op \in CallOps /\ blocks[b].ins[i].x = g
  BY DEF CalledBy
<1>7. b \in V
  BY <1>5 DEF BlocksOf
<1>. QED  BY <1>2, <1>4, <1>6, <1>7 DEF Seen

\* Whatever other graphs are built meanwhile, a graph that is written has main
\* and every function that main itself calls or starts.
THEOREM MainAndCalleesWritten == Spec => []DirectCalleesWritten
<1>1. Init => Covering
  <2> SUFFICES ASSUME Init, NEW w \in Builds PROVE Finds(w) /\ Writes(w)
    BY DEF Covering
  <2>1. pc[w] = "start" /\ visitedFunc = {} /\ visitedBlock = {} /\ nodes[w] = <<Node("main")>>
    BY DEF Init, Builds
  <2>2. Finds(w)
    BY <2>1 DEF Finds
  <2>3. IsTree(nodes[w])
    <3>1. nodes[w][1].func = "main" /\ 2..Len(nodes[w]) = {}
      BY <2>1 DEF Node
    <3>. QED  BY <3>1 DEF IsTree
  <2>. QED  BY <2>1, <2>2, <2>3 DEF Writes
<1>2. IInv /\ Covering /\ [Next]_vars => Covering'
  BY NextCovering
<1>3. IInv /\ Covering => DirectCalleesWritten
  <2> SUFFICES ASSUME IInv, Covering, NEW w \in Builds, pc[w] = "done"
               PROVE  {"main"} \cup CalledBy(prog[w], "main") \subseteq Range(written[w])
    BY DEF DirectCalleesWritten
  <2>1. Finds(w) /\ Writes(w) /\ nodes[w] \in Seq(NodeType) /\ nodes[w] # << >>
    BY Zenon DEF Covering, IInv, TypeOK, NodeType
  <2>2. Range(nodeQueue[w]) = {}
    BY <2>1 DEF Writes, Range
  <2>3. PICK D \in SUBSET (1..Len(nodes[w])) :
           /\ 1 \in D
           /\ \A n \in D : /\ nodes[w][n].func \in Range(written[w])
                           /\ Children(nodes[w], n) \subseteq D
    BY <2>1, <2>2 DEF Writes
  <2>4. D = 1..Len(nodes[w])
    BY <2>1, <2>3, TreeReached DEF Writes
  <2>5. \A f : HasNode(nodes[w], f) => f \in Range(written[w])
    BY <2>3, <2>4 DEF HasNode
  <2>6. "main" \in Range(written[w])
    BY <2>1, <2>3 DEF Writes, IsTree
  <2>. QED  BY <2>1, <2>5, <2>6, CalleesFound
<1>. QED  BY <1>1, <1>2, <1>3, Inductive, PTL DEF Spec
=============================================================================
