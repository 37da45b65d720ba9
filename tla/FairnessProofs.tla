--------------------------- MODULE FairnessProofs ---------------------------
(***************************************************************************)
(* NothingUnsafeMissed for every program: the inductive invariant IInv,    *)
(* what it says of a loop, and one lemma for each kind of step.            *)
(***************************************************************************)
EXTENDS Fairness, SequenceTheorems, Lemmas

\* What the assumption says of the program that is analysed.
LEMMA ProgramOK ==
    ASSUME prog \in Input
    PROVE  /\ prog.root \in DOMAIN prog.blocks \cup {NoFn}
           /\ prog.root # NoFn => prog.children \in [DOMAIN prog.blocks -> Seq(DOMAIN prog.blocks)]
           /\ \A f \in DOMAIN prog.blocks :
                /\ Len(Blocks(f)) \in Nat
                /\ \A k \in 1..Len(Blocks(f)) :
                     LET b == Blocks(f)[k]
                     IN  /\ Len(b.ins) \in Nat \ {0}
                         /\ b.comment \in LoopComments => LastIns(b) = "if"
                         /\ LastIns(b) = "if" => b.cond \in Conds
                         /\ LastIns(b) \notin {"if", "jump"} => Len(b.succs) = 0
BY InputAssumption DEF Blocks, LastIns

\* A loop leads back from its block of highest index: it holds a block that is
\* safe or not looked at once all of its blocks have been judged.
LEMMA LoopSafe ==
    ASSUME prog \in Input, NEW f \in DOMAIN prog.blocks,
           SafeJudgement[f] = 1..Len(Blocks(f)),
           NEW S \in SUBSET (1..Len(Blocks(f))), HoldsLoop(f, S)
    PROVE  \E k \in S : SafeBlock(Blocks(f)[k]) \/ Bare(Blocks(f)[k])
<1>1. Len(Blocks(f)) \in Nat
  BY ProgramOK
<1>2. S \subseteq 0..Len(Blocks(f)) /\ S # {}
  BY <1>1 DEF HoldsLoop
<1>3. PICK k \in S : \A m \in S : m <= k
  BY <1>1, <1>2, GreatestElement
<1>4. PICK s \in 1..Len(Blocks(f)[k].succs) : Blocks(f)[k].succs[s] \in S
  BY DEF HoldsLoop
<1>5. Blocks(f)[k].succs[s] \in 1..k
  <2>1. k \in 1..Len(Blocks(f)) /\ Blocks(f)[k].succs[s] \in 1..Len(Blocks(f))
    BY <1>4
  <2>2. Blocks(f)[k].succs[s] <= k
    BY <1>3, <1>4
  <2>. QED  BY <1>1, <2>1, <2>2
<1>6. k \in SafeJudgement[f]
  BY <1>3
<1>. QED  BY <1>4, <1>5, <1>6 DEF SafeJudgement

\* The block of highest index on a loop was judged.
LEMMA InvImpliesProperty == IInv => NothingUnsafeMissed
<1>. SUFFICES ASSUME IInv, phase = "result", unsafe = 0,
                     NEW f \in Analysed, NEW S \in SUBSET (1..Len(Blocks(f))), HoldsLoop(f, S)
              PROVE  \E k \in S : SafeBlock(Blocks(f)[k]) \/ Bare(Blocks(f)[k])
  BY DEF NothingUnsafeMissed
<1>1. PICK D : D \in Judged
  BY DEF IInv
<1>2. Left = {}
  BY DEF IInv, Left
<1>3. prog.root \in D /\ HasChildren(D)
  BY <1>1, <1>2 DEF Judged, HasChildren
<1>4. f \in D
  BY <1>1, <1>3 DEF Analysed, Judged
<1>5. SafeJudgement[f] = 1..Len(Blocks(f))
  BY <1>1, <1>4 DEF Judged
<1>. QED  BY <1>5, LoopSafe DEF Analysed, IInv

-----------------------------------------------------------------------------
(* One lemma for each kind of step.                                        *)

LEMMA InitIInv == Init => IInv
<1>. SUFFICES ASSUME Init PROVE IInv
  OBVIOUS
<1>1. visitedBlk = 1..(next - 1)
  BY DEF Init
<1>. QED  BY <1>1 DEF Init, IInv

\* Check begins with the root.
LEMMA StartIInv ==
    ASSUME IInv, Start
    PROVE  IInv'
<1>1. CASE prog.root = NoFn
  BY <1>1 DEF IInv, Start
<1>2. CASE prog.root # NoFn
  <2>1. /\ todo' = <<prog.root>> /\ phase' = "visit"
        /\ UNCHANGED <<prog, next, visitedBlk, total, unsafe>>
        /\ next = 1
    BY <1>2 DEF Start, IInv
  <2>2. todo' \in Seq(DOMAIN prog.blocks)
    <3>1. prog.root \in DOMAIN prog.blocks
      BY <1>2, ProgramOK DEF IInv
    <3>2. \A S : \A x \in S : <<x>> \in Seq(S)
      OBVIOUS
    <3>. QED  BY <2>1, <3>1, <3>2
  <2>3. prog.root \in Left'
    BY <2>1 DEF Left
  <2>4. {} \in Judged'
    BY <2>1, <2>3 DEF Judged
  <2>. QED  BY <1>2, <2>1, <2>2, <2>4 DEF IInv
<1>. QED  BY <1>1, <1>2

\* A block that leads back and that is not judged unsafe is safe, or is not
\* looked at, whichever action judges it.
LEMMA JudgeSafe ==
    ASSUME IInv, RangeIndexLoop \/ RangeChanLoop \/ ForLoop \/ OtherBlock, unsafe' = 0
    PROVE  unsafe = 0 /\ next \in SafeJudgement[todo[1]]
<1>. DEFINE f == todo[1]
            b == Blocks(f)[next]
<1>1. /\ phase = "visit" /\ todo # << >> /\ next <= Len(Blocks(f)) /\ b = Current
      /\ b.comment \in {"rangeindex.loop", "rangechan.loop", "for.loop", "other"}
  BY DEF RangeIndexLoop, RangeChanLoop, ForLoop, OtherBlock, AtBlock, Current
<1>2. /\ f \in DOMAIN prog.blocks /\ next \in 1..Len(Blocks(f))
      /\ unsafe \in Nat /\ visitedBlk = 1..(next - 1)
  BY <1>1, ProgramOK DEF IInv
<1>3. /\ Len(b.ins) \in Nat \ {0}
      /\ b.comment \in LoopComments => LastIns(b) = "if"
      /\ LastIns(b) = "if" => b.cond \in Conds
      /\ LastIns(b) \notin {"if", "jump"} => Len(b.succs) = 0
  BY <1>2, ProgramOK DEF IInv
<1>. HIDE DEF b, f
<1>4. unsafe = 0
  BY <1>2 DEF RangeIndexLoop, RangeChanLoop, ForLoop, OtherBlock, Judge
<1>5. ASSUME NEW s \in 1..Len(b.succs), b.succs[s] \in 1..next
      PROVE  SafeBlock(b) \/ Bare(b)
  <2>1. CASE RangeIndexLoop
    BY <1>1, <2>1 DEF RangeIndexLoop, AtBlock, SafeBlock
  <2>2. CASE RangeChanLoop
    <3>1. PICK o \in FindChan(b.ch) : o.kind = "close"
      BY <1>1, <1>4, <2>2 DEF RangeChanLoop, Judge
    <3>2. Closed(b.ch)
      BY <3>1 DEF FindChan, PurgeChanOps, ProgChanOps, MayAlias, Closed
    <3>. QED  BY <1>1, <2>2, <3>2 DEF RangeChanLoop, AtBlock, SafeBlock
  <2>3. CASE ForLoop
    <3>1. ~IsLikelyUnsafe(b) /\ b.comment = "for.loop"
      BY <1>1, <1>4, <2>3 DEF ForLoop, Judge, AtBlock
    <3>2. b.cond \in Conds
      BY <1>3, <3>1 DEF LoopComments
    <3>. QED  BY <3>1, <3>2 DEF IsLikelyUnsafe, IsCondFair, IsIndexStatic, Conds, SafeBlock
  <2>4. CASE OtherBlock
    <3>1. b.comment = "other" /\ ~(LeadsBack(b) /\ (LastIns(b) = "if" => ~IsCondFair(b.cond)))
      BY <1>1, <1>4, <2>4 DEF OtherBlock, AtBlock, Judge
    <3>2. LastIns(b) \in {"if", "jump"}
      BY <1>3
    <3>3. Visited(next) = 1..next
      BY <1>2 DEF Visited
    <3>4. CASE Len(b.ins) = 1
      BY <3>1, <3>4 DEF Bare
    <3>5. CASE Len(b.ins) # 1
      <4>1. LeadsBack(b)
        <5>1. Len(b.ins) > 1
          <6>. DEFINE n == Len(b.ins)
          <6>1. n \in Nat \ {0} /\ n # 1
            BY <1>3, <3>5
          <6>. HIDE DEF n
          <6>2. n > 1
            BY <6>1
          <6>. QED  BY <6>2 DEF n
        <5>2. \E t \in 1..Len(b.succs) : b.succs[t] \in Visited(next)
          BY <1>5, <3>3
        <5>. QED  BY <3>2, <5>1, <5>2 DEF LeadsBack
      <4>2. LastIns(b) = "if" /\ IsCondFair(b.cond) /\ b.cond \in Conds
        BY <1>3, <3>1, <4>1
      <4>. QED  BY <3>1, <4>2 DEF IsCondFair, Conds, SafeBlock
    <3>. QED  BY <3>4, <3>5
  <2>. QED  BY <2>1, <2>2, <2>3, <2>4
<1>. QED  BY <1>2, <1>4, <1>5 DEF SafeJudgement, f, b

\* The judgement is of the program alone.
LEMMA SameJudgement ==
    ASSUME UNCHANGED prog
    PROVE  SafeJudgement' = SafeJudgement /\ (UNCHANGED todo => Judged' = Judged)
<1>1. SafeJudgement' = SafeJudgement
  BY DEF SafeJudgement, Blocks, SafeBlock, Bare, Closed, LastIns
<1>2. UNCHANGED todo => Judged' = Judged
  BY <1>1 DEF Judged, Left, Blocks
<1>. QED  BY <1>1, <1>2

\* A block is judged: the current function has one more.
LEMMA JudgeIInv ==
    ASSUME IInv, RangeIndexLoop \/ RangeChanLoop \/ ForLoop \/ OtherBlock
    PROVE  IInv'
<1>1. /\ UNCHANGED <<prog, phase, todo>> /\ phase = "visit" /\ todo # << >>
      /\ next' = next + 1 /\ visitedBlk' = visitedBlk \cup {next}
      /\ unsafe' \in {unsafe, unsafe + 1}
  BY DEF RangeIndexLoop, RangeChanLoop, ForLoop, OtherBlock, AtBlock, Judge, Visited
<1>2. next' \in Nat \ {0} /\ visitedBlk' = 1..(next' - 1) /\ unsafe' \in Nat
  BY <1>1 DEF IInv
<1>3. ASSUME unsafe' = 0
      PROVE  Judged' # {} /\ 1..(next' - 1) \subseteq SafeJudgement'[todo'[1]]
  <2>1. unsafe = 0 /\ next \in SafeJudgement[todo[1]]
    BY <1>3, JudgeSafe
  <2>2. Judged' = Judged /\ SafeJudgement' = SafeJudgement
    BY <1>1, SameJudgement
  <2>3. 1..(next' - 1) \subseteq SafeJudgement[todo[1]]
    BY <1>1, <2>1 DEF IInv
  <2>. QED  BY <1>1, <2>1, <2>2, <2>3 DEF IInv
<1>. QED  BY <1>1, <1>2, <1>3 DEF IInv

\* The current function has been judged whole; its children are to be traversed.
LEMMA NextFunctionIInv ==
    ASSUME IInv, NextFunction
    PROVE  IInv'
<1>. DEFINE f == todo[1]
            children == prog.children[f]
<1>1. /\ phase = "visit" /\ todo # << >> /\ next > Len(Blocks(f))
      /\ todo' = children \o Tail(todo)
      /\ next' = 1 /\ visitedBlk' = {}
      /\ UNCHANGED <<prog, phase, total, unsafe>>
  BY DEF NextFunction
<1>2. /\ prog.root # NoFn /\ todo \in Seq(DOMAIN prog.blocks)
      /\ f \in DOMAIN prog.blocks /\ Len(Blocks(f)) \in Nat
      /\ children \in Seq(DOMAIN prog.blocks)
  BY <1>1, ProgramOK DEF IInv
<1>. HIDE DEF children, f
<1>3. Tail(todo) \in Seq(DOMAIN prog.blocks) /\ todo' \in Seq(DOMAIN prog.blocks)
  BY <1>1, <1>2
<1>4. \A i \in 1..Len(children) : children[i] \in Left'
  <2>. TAKE i \in 1..Len(children)
  <2>1. i \in 1..Len(todo') /\ todo'[i] = children[i]
    BY <1>1, <1>2, <1>3
  <2>. QED  BY <2>1 DEF Left
<1>5. Left \subseteq Left' \cup {f}
  <2>. SUFFICES ASSUME NEW i \in 1..Len(todo), todo[i] # f
                PROVE  todo[i] \in Left'
    BY DEF Left
  <2>1. i - 1 \in 1..Len(Tail(todo)) /\ Tail(todo)[i - 1] = todo[i]
    BY <1>1, <1>2 DEF f
  <2>2. Len(children) + (i - 1) \in 1..Len(todo') /\ todo'[Len(children) + (i - 1)] = todo[i]
    BY <1>1, <1>2, <1>3, <2>1
  <2>. QED  BY <2>2 DEF Left
<1>6. ASSUME unsafe = 0
      PROVE  Judged' # {}
  <2>1. PICK D : D \in Judged
    BY <1>1, <1>6 DEF IInv
  <2>2. SafeJudgement[f] = 1..Len(Blocks(f))
    <3>1. 1..(next - 1) \subseteq SafeJudgement[f]
      BY <1>1, <1>6 DEF IInv, f
    <3>2. SafeJudgement[f] \subseteq 1..Len(Blocks(f))
      BY <1>2 DEF SafeJudgement
    <3>3. 1..Len(Blocks(f)) \subseteq 1..(next - 1)
      BY <1>1, <1>2 DEF IInv
    <3>. QED  BY <3>1, <3>2, <3>3
  <2>3. D \cup {f} \in Judged'
    <3>1. \A g \in D \cup {f} : SafeJudgement'[g] = 1..Len(Blocks(g)')
      BY <1>1, <2>1, <2>2, SameJudgement DEF Judged, Blocks
    <3>2. prog'.root \in D \cup {f} \cup Left'
      BY <1>1, <1>5, <2>1 DEF Judged
    <3>3. \A g \in D \cup {f} : \A i \in 1..Len(prog'.children[g]) :
             prog'.children[g][i] \in D \cup {f} \cup Left'
      BY <1>1, <1>4, <1>5, <2>1 DEF Judged, children
    <3>4. D \cup {f} \subseteq DOMAIN prog'.blocks
      BY <1>1, <1>2, <2>1 DEF Judged
    <3>. QED  BY <3>1, <3>2, <3>3, <3>4 DEF Judged, Blocks
  <2>. QED  BY <2>3
<1>. QED  BY <1>1, <1>2, <1>3, <1>6 DEF IInv

\* Every step preserves the invariant.
LEMMA NextIInv == IInv /\ [Next]_vars => IInv'
<1>. SUFFICES ASSUME IInv, [Next]_vars PROVE IInv'
  OBVIOUS
<1>1. CASE Start
  BY <1>1, StartIInv
<1>2. CASE RangeIndexLoop \/ RangeChanLoop \/ ForLoop \/ OtherBlock
  BY <1>2, JudgeIInv
<1>3. CASE RangeChanPanics
  BY <1>3 DEF RangeChanPanics, IInv
<1>4. CASE NextFunction
  BY <1>4, NextFunctionIInv
<1>5. CASE Result
  BY <1>5, SameJudgement DEF Result, IInv
<1>6. CASE UNCHANGED vars
  BY <1>6, SameJudgement DEF vars, IInv
<1>. QED  BY <1>1, <1>2, <1>3, <1>4, <1>5, <1>6 DEF Next

-----------------------------------------------------------------------------
\* What was judged stays judged, block by block and function by function.
THEOREM Inductive == Spec => []IInv
<1>. QED  BY InitIInv, NextIInv, PTL DEF Spec

\* Whatever the program, its call graph and its pointers: when the analysis
\* reports that no loop is unsafe, every loop of every function in the call
\* graph goes through a block that is safe or that Visit does not look at
\* (fairness.go:35-92).
THEOREM UnsafeLoopsFound == Spec => []NothingUnsafeMissed
<1>. QED  BY Inductive, InvImpliesProperty, PTL
=============================================================================
